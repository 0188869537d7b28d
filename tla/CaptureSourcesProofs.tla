------------------------ MODULE CaptureSourcesProofs ------------------------
(* The three sources of a session.  The receiver is proved correct in any    *)
(* session, and this session shown to be one; the camera and the controller  *)
(* are proved correct in this one.                                           *)
EXTENDS CaptureSources, SequenceTheorems, TLAPS

-----------------------------------------------------------------------------
(* The receiver, whatever the rest of the session does, and for any number   *)
(* of datagrams.                                                             *)

\* The receiver's variables have their types: every step of the thread, of the
\* closing thread and of the rest of the session keeps them.
THEOREM ReceiverTypeCorrect == Receiver!Spec => []Receiver!TypeOK
<1>1. Receiver!Init => Receiver!TypeOK
  <2> SUFFICES ASSUME Receiver!Init PROVE Receiver!TypeOK
    OBVIOUS
  <2>1. stop \in BOOLEAN /\ fault \in BOOLEAN /\ joined \in BOOLEAN
    BY Zenon DEF Receiver!Init
  <2>2. /\ opened \in Nat /\ bound \subseteq 1..opened /\ round \in 1..2
        /\ socket \in 0..opened /\ local \in 0..opened /\ closing \in 0..opened
    BY DEF Receiver!Init, Receiver!None
  <2> QED
    BY <2>1, <2>2 DEF Receiver!Init, Receiver!TypeOK
<1>2. Receiver!TypeOK /\ [Receiver!Next]_Receiver!vars => Receiver!TypeOK'
  <2> SUFFICES ASSUME Receiver!TypeOK, [Receiver!Next]_Receiver!vars
               PROVE  Receiver!TypeOK'
    OBVIOUS
  <2> USE DEF Receiver!TypeOK, Receiver!None
  <2>1. CASE Receiver!Test
    BY <2>1 DEF Receiver!Test, Receiver!main, Receiver!sockets
  <2>2. CASE Receiver!Create
    <3>1. CASE /\ opened' = opened + 1
               /\ bound' = bound \cup {opened'}
               /\ rpc' = "assign"
               /\ UNCHANGED <<stop, fault>>
      BY <2>2, <3>1, SMTT(30) DEF Receiver!Create, Receiver!main
    <3>2. CASE Receiver!Raises /\ UNCHANGED <<opened, bound>>
      BY <2>2, <3>2 DEF Receiver!Create, Receiver!Raises, Receiver!main
    <3> QED
      BY <2>2, <3>1, <3>2 DEF Receiver!Create
  <2>3. CASE Receiver!Assign
    BY <2>3 DEF Receiver!Assign, Receiver!main
  <2>4. CASE Receiver!Load
    BY <2>4 DEF Receiver!Load, Receiver!Raises, Receiver!main, Receiver!sockets
  <2>5. CASE Receiver!Receive
    BY <2>5 DEF Receiver!Receive, Receiver!Raises, Receiver!main,
       Receiver!sockets
  <2>6. CASE Receiver!Begin
    BY <2>6 DEF Receiver!Begin, Receiver!thread, Receiver!sockets
  <2>7. CASE Receiver!Find
    BY <2>7 DEF Receiver!Find, Receiver!AfterClose, Receiver!thread,
       Receiver!sockets
  <2>8. CASE Receiver!Close
    BY <2>8 DEF Receiver!Close, Receiver!ClosedFirst, Receiver!thread
  <2>9. CASE Receiver!Forget
    <3>1. rmainPc' \in {"join", "done"}
      BY <2>9 DEF Receiver!Forget, Receiver!AfterClose
    <3>2. socket' \in 0..opened' /\ bound' \subseteq 1..opened'
      BY <2>9 DEF Receiver!Forget
    <3>3. UNCHANGED <<rpc, local, closing, joined, round, opened, stop, fault>>
      BY <2>9 DEF Receiver!Forget, Receiver!thread
    <3> QED
      BY <3>1, <3>2, <3>3
  <2>13. CASE Receiver!Note
    BY <2>13 DEF Receiver!Note, Receiver!main, Receiver!sockets
  <2>10. CASE Receiver!Join
    <3>1. joined' \in BOOLEAN /\ fault' \in BOOLEAN
      BY <2>10, Zenon DEF Receiver!Join
    <3> QED
      BY <2>10, <3>1 DEF Receiver!Join, Receiver!ClosedAgain, Receiver!thread,
         Receiver!sockets
  <2>11. CASE Receiver!Elsewhere
    BY <2>11 DEF Receiver!Elsewhere, Receiver!thread, Receiver!main,
       Receiver!sockets
  <2>12. CASE UNCHANGED Receiver!vars
    BY <2>12 DEF Receiver!vars, Receiver!thread, Receiver!main,
       Receiver!sockets
  <2> QED
    BY <2>1, <2>2, <2>3, <2>4, <2>5, <2>6, <2>7, <2>8, <2>9, <2>10, <2>11,
       <2>12, <2>13 DEF Receiver!Next, Receiver!Thread, Receiver!Closing
<1> QED
  BY <1>1, <1>2, PTL DEF Receiver!Spec

\* The inductive invariant.  The attribute names the only socket that can be
\* open, but for the new one that is bound and not assigned yet; a new one is
\* made only while there is none; close() works on the one the attribute names;
\* and a join that succeeded means that the thread makes no other.
SocketInv ==
  /\ rpc = "assign" => bound = {opened}
  /\ rpc # "assign" => bound \subseteq {socket}
  /\ Receiver!None \notin bound
  /\ rpc \in {"create", "assign"} => socket = Receiver!None
  /\ rmainPc \in {"close", "forget"} => socket = closing
  /\ joined => rpc = "dead" /\ round = 2 /\ rmainPc \notin {"run", "join"}
  /\ joined /\ rmainPc = "done" => bound = {}

LEMMA SocketInvPreserved ==
  ASSUME Receiver!TypeOK, SocketInv, [Receiver!Next]_Receiver!vars
  PROVE  SocketInv'
<1> USE DEF Receiver!TypeOK, SocketInv, Receiver!None
<1>1. CASE Receiver!Test
  BY <1>1 DEF Receiver!Test, Receiver!main, Receiver!sockets
<1>2. CASE Receiver!Create
  <2>1. bound = {} /\ ~joined
    BY <1>2 DEF Receiver!Create
  <2>2. CASE /\ opened' = opened + 1
             /\ bound' = bound \cup {opened'}
             /\ rpc' = "assign"
    BY <1>2, <2>1, <2>2 DEF Receiver!Create, Receiver!main
  <2>3. CASE Receiver!Raises /\ UNCHANGED <<opened, bound>>
    BY <1>2, <2>1, <2>3 DEF Receiver!Create, Receiver!Raises, Receiver!main
  <2> QED
    BY <1>2, <2>2, <2>3 DEF Receiver!Create
<1>3. CASE Receiver!Assign
  BY <1>3 DEF Receiver!Assign, Receiver!main
<1>4. CASE Receiver!Load
  BY <1>4 DEF Receiver!Load, Receiver!Raises, Receiver!main, Receiver!sockets
<1>5. CASE Receiver!Receive
  BY <1>5 DEF Receiver!Receive, Receiver!Raises, Receiver!main,
     Receiver!sockets
<1>6. CASE Receiver!Begin
  BY <1>6 DEF Receiver!Begin, Receiver!thread, Receiver!sockets
<1>7. CASE Receiver!Find
  BY <1>7 DEF Receiver!Find, Receiver!AfterClose, Receiver!thread,
     Receiver!sockets
<1>8. CASE Receiver!Close
  BY <1>8 DEF Receiver!Close, Receiver!ClosedFirst, Receiver!thread
<1>9. CASE Receiver!Forget
  BY <1>9 DEF Receiver!Forget, Receiver!AfterClose, Receiver!thread
<1>13. CASE Receiver!Note
  BY <1>13 DEF Receiver!Note, Receiver!main, Receiver!sockets
<1>10. CASE Receiver!Join
  BY <1>10 DEF Receiver!Join, Receiver!ClosedAgain, Receiver!thread,
     Receiver!sockets
<1>11. CASE Receiver!Elsewhere
  BY <1>11 DEF Receiver!Elsewhere, Receiver!thread, Receiver!main,
     Receiver!sockets
<1>12. CASE UNCHANGED Receiver!vars
  BY <1>12 DEF Receiver!vars, Receiver!thread, Receiver!main, Receiver!sockets
<1> QED
  BY <1>1, <1>2, <1>3, <1>4, <1>5, <1>6, <1>7, <1>8, <1>9, <1>10, <1>11,
     <1>12, <1>13 DEF Receiver!Next, Receiver!Thread, Receiver!Closing

\* AtMostOneSocket, and no socket is left open when the command ends after a
\* join that saw the thread end.
THEOREM SocketsCorrect ==
  Receiver!Spec => [](Receiver!AtMostOneSocket
                        /\ (joined /\ rmainPc = "done" => bound = {}))
<1>1. Receiver!Init => SocketInv
  BY DEF Receiver!Init, SocketInv, Receiver!None
<1>2. SocketInv => Receiver!AtMostOneSocket
                   /\ (joined /\ rmainPc = "done" => bound = {})
  BY DEF SocketInv, Receiver!AtMostOneSocket
<1> QED
  BY <1>1, <1>2, SocketInvPreserved, ReceiverTypeCorrect, PTL DEF Receiver!Spec

-----------------------------------------------------------------------------
(* The receiver inside the session: the other sources only do to it what it  *)
(* allows the rest of the session to do.                                     *)

EndingTyped == stop \in BOOLEAN /\ fault \in BOOLEAN

LEMMA EndingPreserved == EndingTyped /\ [SourcesNext]_sourceVars => EndingTyped'
<1> SUFFICES ASSUME EndingTyped, [SourcesNext]_sourceVars PROVE EndingTyped'
  OBVIOUS
<1> USE DEF EndingTyped
<1>1. CASE CameraThread
  <2>1. CASE Ensure
    BY <2>1 DEF Ensure, CheckClosed, Create, Own, ClearRequest, Start, ending
  <2>2. CASE Loop \/ Capture \/ CaptureFails \/ Result
    BY <2>2 DEF Loop, Capture, CaptureFails, Result, ending
  <2>3. CASE Deliver
    BY <2>3 DEF Deliver
  <2>4. CASE Shutdown \/ Note
    BY <2>4, Zenon DEF Shutdown, Note, ending
  <2>5. CASE CloseByOwner \/ Encode
    BY <2>5 DEF CloseByOwner, Release, Forget, Disown, Encode, ending
  <2> QED
    BY <1>1, <2>1, <2>2, <2>3, <2>4, <2>5 DEF CameraThread, Thread, Frames
<1>2. CASE ControllerThread
  <2>1. Controller!Raises => EndingTyped'
    BY DEF Controller!Raises
  <2>2. \A from, to, fails : Controller!Step(from, to, fails) => EndingTyped'
    BY <2>1 DEF Controller!Step
  <2>3. Controller!Call => EndingTyped'
    BY <2>1 DEF Controller!Call
  <2>4. Controller!Note => EndingTyped'
    BY Zenon DEF Controller!Note
  <2> QED
    BY <1>2, <2>2, <2>3, <2>4 DEF ControllerThread, Controller!Thread,
       Controller!Ensure, Controller!Test, Controller!Load, Controller!Resolve,
       Controller!Prototype, Controller!Yield
<1>3. CASE ReceiverThread
  <2>1. Receiver!Raises => EndingTyped'
    BY DEF Receiver!Raises
  <2>2. Receiver!Note => EndingTyped'
    BY Zenon DEF Receiver!Note
  <2> QED
    BY <1>3, <2>1, <2>2 DEF ReceiverThread, Receiver!Thread, Receiver!Test,
       Receiver!Create, Receiver!Assign, Receiver!Load, Receiver!Receive
<1>4. CASE BeginStop
  BY <1>4 DEF BeginStop, Stop, EventFirst
<1>5. CASE CloseCamera
  BY <1>5 DEF CloseCamera, Closing, RequestStop, Find, TestOwner, ending
<1>6. CASE CloseController
  BY <1>6 DEF CloseController, Controller!Closing, Controller!Forget,
     Controller!Unload, Controller!Mark
<1>7. CASE CloseReceiver
  BY <1>7 DEF CloseReceiver, Receiver!Closing, Receiver!Find, Receiver!Close,
     Receiver!Forget
<1>8. CASE JoinAll
  BY <1>8, Zenon DEF JoinAll, Join
<1>9. CASE Terminated \/ UNCHANGED sourceVars
  BY <1>9 DEF Terminated, sourceVars, shared
<1> QED
  BY <1>1, <1>2, <1>3, <1>4, <1>5, <1>6, <1>7, <1>8, <1>9 DEF SourcesNext

\* Every step of the session is a step of the receiver, or of the rest of the
\* session as the receiver sees it.
LEMMA StepSimulation ==
  EndingTyped' /\ [SourcesNext]_sourceVars => [Receiver!Next]_Receiver!vars
<1> SUFFICES ASSUME EndingTyped', [SourcesNext]_sourceVars
             PROVE  Receiver!Next \/ UNCHANGED Receiver!vars
  OBVIOUS
<1> DEFINE Apart == UNCHANGED <<receiverVars, joined, round>>
<1>1. Apart => Receiver!Elsewhere
  BY DEF EndingTyped, Receiver!Elsewhere, Receiver!thread, Receiver!main,
     Receiver!sockets, receiverVars
<1>2. CASE CameraThread
  <2>1. Thread => UNCHANGED <<joined, round>>
    BY DEF Thread, Ensure, CheckClosed, Create, Own, ClearRequest, Start,
       Frames, Loop, Capture, CaptureFails, Result, Deliver, Shutdown, Note,
       CloseByOwner, Release, Forget, Disown, Encode, main
  <2> QED
    BY <1>1, <1>2, <2>1 DEF CameraThread, Receiver!Next
<1>3. CASE ControllerThread
  <2>1. \A from, to, fails :
          Controller!Step(from, to, fails) => UNCHANGED <<joined, round>>
    BY DEF Controller!Step, Controller!main
  <2>2. Controller!Call => UNCHANGED <<joined, round>>
    BY DEF Controller!Call, Controller!main
  <2>4. Controller!Note => UNCHANGED <<joined, round>>
    BY DEF Controller!Note, Controller!main
  <2>3. Controller!Thread => UNCHANGED <<joined, round>>
    BY <2>1, <2>2, <2>4 DEF Controller!Thread, Controller!Ensure, Controller!Test,
       Controller!Load, Controller!Resolve, Controller!Prototype,
       Controller!Yield
  <2> QED
    BY <1>1, <1>3, <2>3 DEF ControllerThread, Receiver!Next
<1>4. CASE ReceiverThread
  BY <1>4 DEF ReceiverThread, Receiver!Next
<1>5. CASE BeginStop
  BY <1>5 DEF BeginStop, Receiver!Next
<1>6. CASE CloseCamera
  <2>1. Closing => UNCHANGED <<joined, round>>
    BY DEF Closing, RequestStop, Find, TestOwner
  <2> QED
    BY <1>1, <1>6, <2>1 DEF CloseCamera, Receiver!Next
<1>7. CASE CloseController
  <2>1. Controller!Closing => UNCHANGED <<joined, round>>
    BY DEF Controller!Closing, Controller!Forget, Controller!Unload,
       Controller!Mark
  <2> QED
    BY <1>1, <1>7, <2>1 DEF CloseController, Receiver!Next
<1>8. CASE CloseReceiver
  BY <1>8 DEF CloseReceiver, Receiver!Next
<1>9. CASE JoinAll
  BY <1>9 DEF JoinAll, Receiver!Next
<1>10. CASE Terminated \/ UNCHANGED sourceVars
  BY <1>1, <1>10 DEF Terminated, sourceVars, shared, Receiver!Next
<1> QED
  BY <1>2, <1>3, <1>4, <1>5, <1>6, <1>7, <1>8, <1>9, <1>10 DEF SourcesNext

\* The session implements the receiver's specification, in which the rest of
\* the session may set the stop event and note faults at any time.
THEOREM SessionImplementsReceiver == SourcesSpec => Receiver!Spec
<1>1. SourcesInit => Receiver!Init /\ EndingTyped
  BY Zenon DEF SourcesInit, Init, EndingTyped
<1> QED
  BY <1>1, EndingPreserved, StepSimulation, PTL DEF SourcesSpec, Receiver!Spec

\* What is proved of the receiver, in the session of three sources.
LEMMA SocketsInSession ==
  SourcesSpec => [](OneSocket /\ (joined /\ rmainPc = "done" => bound = {}))
<1>1. Receiver!AtMostOneSocket => OneSocket
  BY DEF OneSocket
<1> QED
  BY <1>1, SocketsCorrect, SessionImplementsReceiver, PTL

\* The telemetry port is bound at most once at any time of a session.
THEOREM OneSocketInSession == SourcesSpec => []OneSocket
BY SocketsInSession, PTL

-----------------------------------------------------------------------------
(* The camera.  An inductive invariant in three parts: what the camera       *)
(* thread holds at each of its steps; where each captured frame is; and what *)
(* is known once the session is being stopped.                               *)

\* Between the creation of the device and the close() of its owner.
Holding == {"own", "clear", "start", "loop", "poll", "result", "yield"}

\* The steps at which no frame has been lost yet.
Working == {"check", "create"} \cup Holding

Over == {"release", "forget", "disown", "dead"}

\* The device is there while the camera attribute is set, and whoever is past
\* the release has set the attribute to None or is about to.
DeviceInv ==
  /\ pc \in Working \cup {"shutdown", "note"} \cup Over
  /\ camera \in BOOLEAN
  /\ pc \in {"check", "create", "disown", "dead"} => ~camera
  /\ pc \in Holding \cup {"forget"} => camera
  /\ camera /\ pc # "forget" => device \in {"created", "started"} /\ releases = 0
  /\ ~camera /\ pc \notin {"disown", "dead"} => device = "absent" /\ releases = 0
  /\ pc \in {"forget", "disown"} => device = "released" /\ releases = 1
  /\ pc = "dead" => device \in {"absent", "released"} /\ releases \in 0..1

InHand == IF pc = "yield" THEN 1 ELSE 0

\* The frames captured so far are those delivered, the one in hand and those
\* in the pipeline, in this order.
PipelineInv ==
  /\ captured \in Nat /\ late \in Nat
  /\ pending \in Seq(Nat) /\ delivered \in Seq(Nat)
  /\ \A i \in 1..Len(delivered) : delivered[i] = i - 1
  /\ pc \in Working =>
       /\ captured = Len(delivered) + InHand + Len(pending)
       /\ \A i \in 1..Len(pending) :
            pending[i] = Len(delivered) + InHand + i - 1
       /\ late <= Len(pending) + InHand
       /\ captured <= MaxFrames
  /\ pc = "poll" => captured < MaxFrames
  /\ pc = "yield" => item = Len(delivered)
  /\ pc = "result" => pending # <<>>
  /\ Len(pending) <= Depth
  /\ pc \in Working \ {"result"} => Len(pending) < Depth
  /\ late <= Depth

\* Nothing but a stop, or an exception, cuts a session short; and what asks the
\* camera to stop comes after the stop event.
StopInv ==
  /\ mainPc # "run" => stop
  /\ requested /\ pc \notin Over => stop
  /\ ~stop => late = 0
  /\ pc = "shutdown" /\ ~raised /\ ~stop => Len(delivered) = MaxFrames
  /\ pc \in Over /\ ~stop => Len(delivered) = MaxFrames

CameraInv == EndingTyped /\ DeviceInv /\ PipelineInv /\ StopInv

\* The controller once the threads have been seen to end: what the second
\* close() has forgotten stays forgotten.
ControllerInv ==
  /\ joined => pc = "dead" /\ xpc = "dead"
  /\ joined /\ xmainPc \in {"unload", "mark", "done"} => ~api
  /\ joined /\ xmainPc \in {"mark", "done"} => ~dll

\* A step of another thread leaves the camera thread and its device alone, and
\* stops the session before it says anything to the camera.
CameraApart ==
  /\ UNCHANGED <<pc, dxcam, camera, pipeline, raised>>
  /\ stop => stop'
  /\ mainPc' # "run" => mainPc # "run" \/ stop'
  /\ requested' => requested \/ mainPc = "request"

LEMMA CameraSplit ==
  [SourcesNext]_sourceVars => (Thread /\ UNCHANGED main) \/ CameraApart
<1> SUFFICES ASSUME [SourcesNext]_sourceVars, ~Thread PROVE CameraApart
  <2>1. Thread => UNCHANGED main
    BY DEF Thread, Ensure, CheckClosed, Create, Own, ClearRequest, Start,
       Frames, Loop, Capture, CaptureFails, Result, Deliver, Shutdown, Note,
       CloseByOwner, Release, Forget, Disown, Encode, main
  <2> QED
    BY <2>1
<1> USE DEF CameraApart
<1>1. CASE ControllerThread
  <2>1. cameraVars' = cameraVars
    BY <1>1 DEF ControllerThread
  <2>2. Controller!Raises \/ Controller!Note => (stop => stop')
    BY Zenon DEF Controller!Raises, Controller!Note
  <2>3. \A from, to, fails : Controller!Step(from, to, fails) => (stop => stop')
    BY <2>2 DEF Controller!Step
  <2>4. Controller!Call => (stop => stop')
    BY <2>2 DEF Controller!Call
  <2>5. stop => stop'
    BY <1>1, <2>2, <2>3, <2>4 DEF ControllerThread, Controller!Thread,
       Controller!Ensure, Controller!Test, Controller!Load, Controller!Resolve,
       Controller!Prototype, Controller!Yield
  <2> QED
    BY <2>1, <2>5 DEF cameraVars, dxcam, handle, pipeline
<1>2. CASE ReceiverThread
  <2>1. cameraVars' = cameraVars
    BY <1>2 DEF ReceiverThread
  <2>2. Receiver!Raises \/ Receiver!Note => (stop => stop')
    BY Zenon DEF Receiver!Raises, Receiver!Note
  <2>3. stop => stop'
    BY <1>2, <2>2 DEF ReceiverThread, Receiver!Thread, Receiver!Test,
       Receiver!Create, Receiver!Assign, Receiver!Load, Receiver!Receive
  <2> QED
    BY <2>1, <2>3 DEF cameraVars, dxcam, handle, pipeline
<1>3. CASE BeginStop
  BY <1>3 DEF BeginStop, Stop, EventFirst, dxcam, handle, pipeline
<1>4. CASE CloseCamera
  BY <1>4 DEF CloseCamera, Closing, RequestStop, Find, TestOwner, OwnedByMain,
     ending, dxcam, handle, pipeline
<1>5. CASE CloseController
  BY <1>5 DEF CloseController, Controller!Closing, Controller!Forget,
     Controller!Unload, Controller!Mark, cameraVars, dxcam, handle, pipeline
<1>6. CASE CloseReceiver
  BY <1>6 DEF CloseReceiver, Receiver!Closing, Receiver!Find, Receiver!Close,
     Receiver!Forget, cameraVars, dxcam, handle, pipeline
<1>7. CASE JoinAll
  BY <1>7 DEF JoinAll, Join, dxcam, handle, pipeline
<1>8. CASE Terminated \/ UNCHANGED sourceVars
  <2>1. UNCHANGED <<cameraVars, shared>>
    BY <1>8 DEF Terminated, sourceVars
  <2> QED
    BY <2>1 DEF shared, cameraVars, dxcam, handle, pipeline
<1> QED
  BY <1>1, <1>2, <1>3, <1>4, <1>5, <1>6, <1>7, <1>8
  DEF SourcesNext, CameraThread

LEMMA DeviceStep == DeviceInv /\ [SourcesNext]_sourceVars => DeviceInv'
<1> SUFFICES ASSUME DeviceInv, [SourcesNext]_sourceVars PROVE DeviceInv'
  OBVIOUS
<1> USE DEF Working, Holding, Over
<1>1. CASE CameraApart
  BY <1>1 DEF DeviceInv, CameraApart, dxcam
<1>2. CASE CheckClosed \/ Own \/ ClearRequest
  <2>1. /\ UNCHANGED <<device, releases, camera>>
        /\ \/ pc = "check" /\ pc' \in {"create", "shutdown"}
           \/ pc = "own" /\ pc' = "clear"
           \/ pc = "clear" /\ pc' = "start"
    BY <1>2 DEF CheckClosed, Own, ClearRequest, Raises, dxcam, handle
  <2> QED
    BY <2>1 DEF DeviceInv
<1>3. CASE Create
  <2>1. /\ pc = "create" /\ releases' = releases
        /\ \/ device' = "created" /\ camera' /\ pc' = "own"
           \/ UNCHANGED <<device, camera>> /\ pc' = "shutdown"
    BY <1>3, Zenon DEF Create, Raises
  <2>2. camera' \in BOOLEAN
    BY <1>3, Zenon DEF Create, DeviceInv
  <2> QED
    BY <2>1, <2>2 DEF DeviceInv
<1>4. CASE Start
  BY <1>4 DEF DeviceInv, Start, Raises, handle
<1>5. CASE Loop \/ Capture \/ CaptureFails \/ Result
  BY <1>5 DEF DeviceInv, Loop, AfterCapture, Capture, CaptureFails, Result,
     Raises, dxcam, handle
<1>6. CASE Deliver \/ Shutdown \/ Note
  BY <1>6 DEF DeviceInv, Deliver, Shutdown, Note, ClosedAtEnd, dxcam, handle
<1>7. CASE Release
  <2>1. CASE camera
    <3>1. /\ pc = "release" /\ pc' = "forget" /\ camera' = camera
          /\ device' = "released" /\ releases' = releases + 1
      BY <1>7, <2>1 DEF Release
    <3> QED
      BY <2>1, <3>1 DEF DeviceInv
  <2>2. CASE ~camera
    <3>1. /\ pc = "release" /\ pc' = "dead" /\ camera' = camera
          /\ device' = device /\ releases' = releases
      BY <1>7, <2>2 DEF Release, dxcam
    <3> QED
      BY <2>2, <3>1 DEF DeviceInv
  <2> QED
    BY <2>1, <2>2
<1>8. CASE Forget
  <2>1. pc = "forget" /\ pc' = "disown" /\ UNCHANGED <<device, releases>>
    BY <1>8 DEF Forget, dxcam
  <2>2. camera' \in BOOLEAN /\ ~camera'
    BY <1>8, Zenon DEF Forget
  <2> QED
    BY <2>1, <2>2 DEF DeviceInv
<1>10. CASE Disown
  BY <1>10 DEF DeviceInv, Disown, dxcam
<1>9. CASE Encode
  BY <1>9 DEF DeviceInv, Encode, dxcam, handle
<1> QED
  BY <1>1, <1>2, <1>3, <1>4, <1>5, <1>6, <1>7, <1>8, <1>9, <1>10,
     CameraSplit
  DEF Thread, Ensure, Frames, CloseByOwner

\* The pipeline without its oldest frame.
LEMMA OldestTaken ==
  ASSUME NEW s \in Seq(Nat), s # <<>>
  PROVE  /\ Without(s, Oldest) \in Seq(Nat)
         /\ Len(Without(s, Oldest)) = Len(s) - 1
         /\ \A i \in 1..(Len(s) - 1) : Without(s, Oldest)[i] = s[i + 1]
<1>1. Len(s) \in Nat \ {0} /\ \A i \in 2..Len(s) : s[i] \in Nat
  OBVIOUS
<1>2. SubSeq(s, 1, Oldest - 1) = <<>>
  BY <1>1 DEF Oldest
<1>3. SubSeq(s, Oldest + 1, Len(s)) = SubSeq(s, 2, Len(s))
  BY DEF Oldest
<1> DEFINE rest == SubSeq(s, 2, Len(s))
<1>4. /\ rest \in Seq(Nat) /\ Len(rest) = Len(s) - 1
      /\ \A i \in 1..(Len(s) - 1) : rest[i] = s[i + 1]
  <2>1. /\ rest \in Seq(Nat)
        /\ Len(rest) = IF 2 <= Len(s) THEN Len(s) - 2 + 1 ELSE 0
        /\ \A i \in 1..(Len(s) - 2 + 1) : rest[i] = s[2 + i - 1]
    <3>1. 2 \in Int /\ Len(s) \in Int
      BY <1>1
    <3> QED
      BY <1>1, <3>1, SubSeqProperties
  <2> HIDE DEF rest
  <2>2. Len(rest) = Len(s) - 1
    <3> DEFINE n == Len(s)
    <3>1. n \in Nat \ {0} /\ Len(rest) = IF 2 <= n THEN n - 2 + 1 ELSE 0
      BY <1>1, <2>1, Zenon
    <3> HIDE DEF n
    <3>2. (IF 2 <= n THEN n - 2 + 1 ELSE 0) = n - 1
      BY <3>1
    <3> QED
      BY <3>1, <3>2, Zenon DEF n
  <2>3. ASSUME NEW i \in 1..(Len(s) - 1) PROVE rest[i] = s[i + 1]
    <3>1. i \in 1..(Len(s) - 2 + 1) /\ 2 + i - 1 = i + 1
      BY <1>1
    <3> QED
      BY <2>1, <3>1, Zenon
  <2> QED
    BY <2>1, <2>2, <2>3
<1> HIDE DEF rest
<1>5. Without(s, Oldest) = <<>> \o rest
  BY <1>2, <1>3 DEF Without, rest
<1>6. <<>> \o rest = rest
  BY <1>4
<1> QED
  BY <1>4, <1>5, <1>6

LEMMA FrameAppended ==
  ASSUME NEW s \in Seq(Nat), NEW x \in Nat
  PROVE  /\ Append(s, x) \in Seq(Nat)
         /\ Len(Append(s, x)) = Len(s) + 1
         /\ \A i \in 1..Len(s) : Append(s, x)[i] = s[i]
         /\ Append(s, x)[Len(s) + 1] = x
  OBVIOUS

\* The steps that move no frame.
LEMMA NoFrameMoved ==
  ASSUME PipelineInv, pc \in Working \cup {"shutdown", "note"} \cup Over,
         UNCHANGED <<captured, pending, delivered, late>>,
         \/ pc' = pc /\ item' = item
         \/ pc' \in {"shutdown", "note"} \cup Over
         \/ pc \in {"check", "create", "own", "clear", "start", "poll"}
              /\ pc' \in {"create", "own", "clear", "start", "loop"}
         \/ pc = "loop" /\ pc' = "poll" /\ captured < MaxFrames
         \/ pc = "loop" /\ pc' = "result" /\ pending # <<>>
  PROVE  PipelineInv'
<1>1. CASE pc' = pc /\ item' = item
  BY <1>1 DEF PipelineInv, InHand
<1>2. CASE pc' \in {"shutdown", "note"} \cup Over
  BY <1>2 DEF PipelineInv, Over, Working, Holding
<1>3. CASE /\ pc \in {"check", "create", "own", "clear", "start", "poll"}
           /\ pc' \in {"create", "own", "clear", "start", "loop"}
  BY <1>3 DEF PipelineInv, InHand, Working, Holding
<1>4. CASE pc = "loop" /\ pc' = "poll" /\ captured < MaxFrames
  BY <1>4 DEF PipelineInv, InHand, Working, Holding
<1>5. CASE pc = "loop" /\ pc' = "result" /\ pending # <<>>
  BY <1>5 DEF PipelineInv, InHand, Working, Holding
<1> QED
  BY <1>1, <1>2, <1>3, <1>4, <1>5

LEMMA PipelineStep ==
  CameraInv /\ [SourcesNext]_sourceVars => PipelineInv'
<1> SUFFICES ASSUME CameraInv, [SourcesNext]_sourceVars PROVE PipelineInv'
  OBVIOUS
<1>0. /\ PipelineInv /\ MaxFrames \in Nat /\ Depth \in Nat
      /\ pc \in Working \cup {"shutdown", "note"} \cup Over
      /\ ~stop => late = 0
  BY SizesAssumption DEF CameraInv, DeviceInv, StopInv
<1>1. CASE CameraApart
  BY <1>0, <1>1, NoFrameMoved DEF CameraApart, pipeline
<1>2. CASE Ensure
  <2>1. /\ UNCHANGED <<captured, pending, delivered, late>>
        /\ pc \in {"check", "create", "own", "clear", "start"}
        /\ pc' \in {"shutdown", "create", "own", "clear", "start", "loop"}
    BY <1>2 DEF Ensure, CheckClosed, Create, Own, ClearRequest, Start, Raises,
       pipeline
  <2> QED
    BY <1>0, <2>1, NoFrameMoved
<1>3. CASE Loop
  <2>1. UNCHANGED <<captured, pending, delivered, late>> /\ pc = "loop"
    BY <1>3 DEF Loop, pipeline
  <2>2. \/ pc' = "poll" /\ captured < MaxFrames
        \/ pc' = "shutdown"
        \/ pc' = "result" /\ pending # <<>>
    BY <1>3 DEF Loop, AfterCapture
  <2> QED
    BY <1>0, <2>1, <2>2, NoFrameMoved
<1>4. CASE Capture
  <2>1. /\ captured \in Nat /\ pending \in Seq(Nat) /\ late \in Nat
        /\ delivered \in Seq(Nat) /\ pc = "poll" /\ captured < MaxFrames
        /\ captured = Len(delivered) + Len(pending)
        /\ Len(pending) < Depth /\ late <= Len(pending)
        /\ \A i \in 1..Len(pending) : pending[i] = Len(delivered) + i - 1
        /\ \A i \in 1..Len(delivered) : delivered[i] = i - 1
    BY <1>0, <1>4 DEF Capture, PipelineInv, InHand, Working, Holding
  <2>2. /\ captured' = captured + 1 /\ delivered' = delivered
        /\ pending' = Append(pending, captured)
        /\ late' \in {late, late + 1}
        /\ pc' = IF Len(pending') >= Depth THEN "result" ELSE "loop"
    BY <1>4 DEF Capture, PipelineFull
  <2>3. /\ pending' \in Seq(Nat) /\ Len(pending') = Len(pending) + 1
        /\ \A i \in 1..Len(pending) : pending'[i] = pending[i]
        /\ pending'[Len(pending) + 1] = captured
    BY <2>1, <2>2, FrameAppended
  <2>4. \A i \in 1..Len(pending') : pending'[i] = Len(delivered) + i - 1
    <3> SUFFICES ASSUME NEW i \in 1..(Len(pending) + 1)
                 PROVE  pending'[i] = Len(delivered) + i - 1
      BY <2>1, <2>3
    <3>1. CASE i \in 1..Len(pending)
      BY <2>1, <2>3, <3>1
    <3>2. CASE i = Len(pending) + 1
      BY <2>1, <2>3, <3>2
    <3> QED
      BY <2>1, <3>1, <3>2
  <2>5. pending' # <<>> /\ InHand' = 0 /\ pc' \in {"result", "loop"}
    BY <2>1, <2>2, <2>3 DEF InHand
  <2>6. /\ captured' \in Nat /\ captured' <= MaxFrames
        /\ captured' = Len(delivered') + InHand' + Len(pending')
        /\ late' \in Nat /\ late' <= Len(pending') + InHand'
        /\ late' <= Depth /\ Len(pending') <= Depth
    BY <1>0, <2>1, <2>2, <2>3, <2>5
  <2>7. /\ \A i \in 1..Len(pending') :
             pending'[i] = Len(delivered') + InHand' + i - 1
        /\ delivered' \in Seq(Nat)
        /\ \A i \in 1..Len(delivered') : delivered'[i] = i - 1
    BY <2>1, <2>2, <2>4, <2>5
  <2>8. pc' = "loop" => Len(pending') < Depth
    BY <1>0, <2>1, <2>2, <2>3
  <2> QED
    BY <2>3, <2>5, <2>6, <2>7, <2>8 DEF PipelineInv, Working
<1>5. CASE CaptureFails
  <2>1. /\ UNCHANGED <<captured, pending, delivered, late>>
        /\ pc = "poll" /\ pc' \in {"shutdown", "loop"}
    BY <1>5 DEF CaptureFails, Raises, pipeline
  <2> QED
    BY <1>0, <2>1, NoFrameMoved
<1>6. CASE Result
  <2>1. /\ captured \in Nat /\ pending \in Seq(Nat) /\ late \in Nat
        /\ delivered \in Seq(Nat) /\ pc = "result" /\ captured <= MaxFrames
        /\ captured = Len(delivered) + Len(pending) /\ pending # <<>>
        /\ Len(pending) <= Depth /\ late <= Len(pending)
        /\ \A i \in 1..Len(pending) : pending[i] = Len(delivered) + i - 1
        /\ \A i \in 1..Len(delivered) : delivered[i] = i - 1
    BY <1>0, <1>6 DEF Result, PipelineInv, InHand, Working, Holding
  <2>2. /\ UNCHANGED <<captured, delivered, late>>
        /\ pending' = Without(pending, Oldest)
        /\ \/ pc' = "yield" /\ item' = pending[1]
           \/ pc' = "shutdown"
    BY <1>6 DEF Result, Raises, Oldest
  <2>3. /\ pending' \in Seq(Nat) /\ Len(pending') = Len(pending) - 1
        /\ \A i \in 1..(Len(pending) - 1) : pending'[i] = pending[i + 1]
    BY <2>1, <2>2, OldestTaken
  <2>4. Len(pending) \in Nat \ {0}
    BY <2>1
  <2>5. pending[1] = Len(delivered)
    <3>1. 1 \in 1..Len(pending)
      BY <2>4
    <3>2. pending[1] = Len(delivered) + 1 - 1
      BY <2>1, <3>1
    <3>3. Len(delivered) \in Nat
      BY <2>1
    <3> QED
      BY <3>2, <3>3
  <2>6. \A i \in 1..Len(pending') : pending'[i] = Len(delivered) + 1 + i - 1
    <3> SUFFICES ASSUME NEW i \in 1..Len(pending')
                 PROVE  pending'[i] = Len(delivered) + 1 + i - 1
      OBVIOUS
    <3>1. /\ i \in 1..(Len(pending) - 1) /\ i \in Int
          /\ i + 1 \in 1..Len(pending)
      BY <2>3, <2>4
    <3>2. pending'[i] = pending[i + 1]
      BY <2>3, <3>1
    <3>3. pending[i + 1] = Len(delivered) + (i + 1) - 1
      BY <2>1, <3>1
    <3>4. Len(delivered) \in Nat
      BY <2>1
    <3> QED
      BY <3>1, <3>2, <3>3, <3>4
  <2>7. CASE pc' = "shutdown"
    <3>1. late' <= Depth /\ Len(pending') <= Depth
      BY <1>0, <2>1, <2>2, <2>3, <2>4
    <3> QED
      BY <2>1, <2>2, <2>3, <2>7, <3>1 DEF PipelineInv, Working, Holding
  <2>8. CASE pc' = "yield" /\ item' = pending[1]
    <3>1. InHand' = 1
      BY <2>8 DEF InHand
    <3>2. /\ captured' = Len(delivered') + InHand' + Len(pending')
          /\ late' <= Len(pending') + InHand' /\ captured' <= MaxFrames
          /\ late' <= Depth /\ Len(pending') < Depth
      BY <1>0, <2>1, <2>2, <2>3, <2>4, <3>1
    <3>3. \A i \in 1..Len(pending') :
            pending'[i] = Len(delivered') + InHand' + i - 1
      BY <2>2, <2>6, <3>1
    <3>4. captured' \in Nat /\ late' \in Nat /\ delivered' \in Seq(Nat)
          /\ \A i \in 1..Len(delivered') : delivered'[i] = i - 1
      BY <2>1, <2>2
    <3>5. item' = Len(delivered') /\ Len(pending') <= Depth
      BY <1>0, <2>2, <2>3, <2>5, <2>8, <3>2
    <3> QED
      BY <2>3, <2>8, <3>2, <3>3, <3>4, <3>5 DEF PipelineInv
  <2> QED
    BY <2>2, <2>7, <2>8
<1>7. CASE Deliver
  <2>1. /\ captured \in Nat /\ pending \in Seq(Nat) /\ late \in Nat
        /\ delivered \in Seq(Nat) /\ pc = "yield" /\ captured <= MaxFrames
        /\ captured = Len(delivered) + 1 + Len(pending)
        /\ Len(pending) < Depth /\ late <= Depth
        /\ \A i \in 1..Len(pending) : pending[i] = Len(delivered) + 1 + i - 1
        /\ \A i \in 1..Len(delivered) : delivered[i] = i - 1
        /\ item = Len(delivered)
    BY <1>0, <1>7 DEF Deliver, PipelineInv, InHand, Working, Holding
  <2>2. UNCHANGED <<captured, pending, late>>
    BY <1>7 DEF Deliver
  <2>3. CASE pc' = "shutdown" /\ delivered' = delivered
    BY <1>0, <2>1, <2>2, <2>3, NoFrameMoved
  <2>4. CASE /\ pc' \in {"loop", "shutdown"} /\ ~stop
             /\ delivered' = Append(delivered, item)
    <3>1. /\ delivered' \in Seq(Nat) /\ Len(delivered') = Len(delivered) + 1
          /\ \A i \in 1..Len(delivered) : delivered'[i] = delivered[i]
          /\ delivered'[Len(delivered) + 1] = item
      BY <2>1, <2>4, FrameAppended
    <3>2. \A i \in 1..Len(delivered') : delivered'[i] = i - 1
      <4> SUFFICES ASSUME NEW i \in 1..(Len(delivered) + 1)
                   PROVE  delivered'[i] = i - 1
        BY <3>1
      <4>1. CASE i \in 1..Len(delivered)
        BY <2>1, <3>1, <4>1
      <4>2. CASE i = Len(delivered) + 1
        BY <2>1, <3>1, <4>2
      <4> QED
        BY <2>1, <4>1, <4>2
    <3>3. late = 0
      BY <1>0, <2>4
    <3>4. \A i \in 1..Len(pending) : pending[i] = Len(delivered') + i - 1
      BY <2>1, <3>1
    <3>5. InHand' = 0
      BY <2>4 DEF InHand
    <3>6. /\ captured' = Len(delivered') + InHand' + Len(pending')
          /\ late' <= Len(pending') + InHand' /\ captured' <= MaxFrames
          /\ Len(pending') < Depth /\ Len(pending') <= Depth /\ late' <= Depth
      BY <1>0, <2>1, <2>2, <3>1, <3>3, <3>5
    <3>7. \A i \in 1..Len(pending') :
            pending'[i] = Len(delivered') + InHand' + i - 1
      BY <2>1, <2>2, <3>1, <3>4, <3>5
    <3>8. captured' \in Nat /\ late' \in Nat /\ pending' \in Seq(Nat)
      BY <2>1, <2>2
    <3> QED
      BY <2>4, <3>1, <3>2, <3>6, <3>7, <3>8 DEF PipelineInv
  <2> QED
    BY <1>7, <2>3, <2>4 DEF Deliver, StopSeen
<1>8. CASE Shutdown \/ Note \/ CloseByOwner
  <2>1. /\ UNCHANGED <<captured, pending, delivered, late>>
        /\ pc' \in {"note"} \cup Over
    BY <1>8 DEF Shutdown, Note, CloseByOwner, Release, Forget, Disown, ClosedAtEnd,
       Over, pipeline
  <2> QED
    BY <1>0, <2>1, NoFrameMoved
<1>9. CASE Encode
  BY <1>0, <1>9, NoFrameMoved DEF Encode
<1> QED
  BY <1>1, <1>2, <1>3, <1>4, <1>5, <1>6, <1>7, <1>8, <1>9, CameraSplit
  DEF Thread, Frames

LEMMA StopStep == CameraInv /\ [SourcesNext]_sourceVars => StopInv'
<1> SUFFICES ASSUME CameraInv, [SourcesNext]_sourceVars PROVE StopInv'
  OBVIOUS
<1>0. PipelineInv /\ StopInv
  BY DEF CameraInv
<1>1. CASE CameraApart
  <2>1. pc' = pc /\ late' = late /\ raised' = raised /\ delivered' = delivered
    BY <1>1 DEF CameraApart, pipeline
  <2>2. mainPc = "request" => stop
    BY <1>0 DEF StopInv
  <2> QED
    BY <1>0, <1>1, <2>1, <2>2 DEF StopInv, CameraApart
<1>2. CASE Thread /\ UNCHANGED main
  <2>0. mainPc' = mainPc
    BY <1>2 DEF main
  \* A step that neither captures a frame nor ends the loop.
  <2> DEFINE Quiet == /\ stop' = stop /\ late' = late
                      /\ delivered' = delivered
                      /\ requested' => requested
                      /\ pc \notin Over /\ pc' \notin Over
                      /\ pc' = "shutdown" => raised'
  <2>1. Quiet => StopInv'
    BY <1>0, <2>0 DEF StopInv
  <2>2. CASE CheckClosed \/ Create \/ Own \/ Start \/ CaptureFails
    <3>1. /\ UNCHANGED <<stop, late, delivered, requested>>
          /\ pc \in {"check", "create", "own", "start", "poll"}
      BY <2>2 DEF CheckClosed, Create, Own, Start, CaptureFails, handle,
         pipeline, ending
    <3>2. \/ pc' \in {"create", "own", "clear", "loop"}
          \/ Raises
      BY <2>2 DEF CheckClosed, Create, Own, Start, CaptureFails
    <3>3. pc' \notin Over /\ (pc' = "shutdown" => raised')
      BY <3>2 DEF Raises, Over
    <3> QED
      BY <2>1, <3>1, <3>3 DEF Over
  <2>3. CASE ClearRequest
    <3>1. /\ UNCHANGED <<stop, late, delivered>> /\ pc = "clear"
          /\ pc' = "start"
      BY <2>3 DEF ClearRequest, pipeline, ending
    <3>2. ~requested'
      BY <2>3, Zenon DEF ClearRequest
    <3> QED
      BY <2>1, <3>1, <3>2 DEF Over
  <2>4. CASE Loop
    <3>1. /\ UNCHANGED <<stop, late, delivered, requested>> /\ pc = "loop"
      BY <2>4 DEF Loop, handle, pipeline, ending
    <3>2. CASE pc' = "shutdown" /\ ~stop
      <4>1. ~requested
        BY <1>0, <3>1, <3>2 DEF StopInv, Over
      <4>2. pending = <<>> /\ ~(captured < MaxFrames)
        BY <2>4, <3>2, <4>1 DEF Loop, AfterCapture
      <4>3. Len(delivered) = MaxFrames
        <5>1. /\ captured = Len(delivered) + 0 + Len(pending)
              /\ captured <= MaxFrames /\ captured \in Nat
              /\ delivered \in Seq(Nat)
          BY <1>0, <3>1 DEF PipelineInv, Working, Holding, InHand
        <5>2. Len(pending) = 0 /\ Len(delivered) \in Nat /\ MaxFrames \in Nat
          BY <4>2, <5>1, SizesAssumption
        <5> QED
          BY <4>2, <5>1, <5>2
      <4>4. pc' \notin Over
        BY <3>2 DEF Over
      <4>5. ~(mainPc' # "run") /\ ~stop' /\ ~requested' /\ late' = 0
        BY <1>0, <2>0, <3>1, <3>2, <4>1 DEF StopInv
      <4>6. Len(delivered') = MaxFrames
        BY <3>1, <4>3
      <4> QED
        BY <4>4, <4>5, <4>6, Zenon DEF StopInv
    <3>3. CASE pc' = "shutdown" /\ stop
      <4>1. stop' = stop
        BY <3>1
      <4> QED
        BY <3>3, <4>1 DEF StopInv
    <3>4. CASE pc' # "shutdown"
      <4>1. pc' \in {"poll", "result"}
        BY <2>4, <3>4 DEF Loop, AfterCapture
      <4> QED
        BY <2>1, <3>1, <4>1 DEF Over
    <3> QED
      BY <3>2, <3>3, <3>4
  <2>5. CASE Capture
    <3>1. /\ UNCHANGED <<stop, delivered, requested>> /\ pc = "poll"
          /\ pc' \in {"loop", "result"}
          /\ ~stop => late' = late
      BY <2>5 DEF Capture, handle, ending
    <3>2. pc \notin Over /\ pc' \notin Over /\ pc' # "shutdown"
      BY <3>1 DEF Over
    <3> QED
      BY <1>0, <2>0, <3>1, <3>2 DEF StopInv
  <2>6. CASE Result
    <3>1. /\ UNCHANGED <<stop, late, delivered, requested>> /\ pc = "result"
      BY <2>6 DEF Result, handle
    <3>2. pc' = "yield" \/ Raises
      BY <2>6 DEF Result
    <3>3. pc' \notin Over /\ (pc' = "shutdown" => raised')
      BY <3>2 DEF Raises, Over
    <3> QED
      BY <2>1, <3>1, <3>3 DEF Over
  <2>7. CASE Deliver
    <3>1. /\ UNCHANGED <<late, requested>> /\ pc = "yield"
          /\ pc' \in {"loop", "shutdown"}
      BY <2>7 DEF Deliver, handle
    <3>2. pc \notin Over /\ pc' \notin Over
      BY <3>1 DEF Over
    <3>3. \/ stop' /\ (stop => stop')
          \/ stop' = stop /\ pc' = "loop"
      BY <2>7, Zenon DEF Deliver, StopSeen
    <3>4. pc' = "loop" => pc' # "shutdown"
      OBVIOUS
    <3> QED
      BY <1>0, <2>0, <3>1, <3>2, <3>3, <3>4 DEF StopInv
  <2>8. CASE Shutdown
    <3>1. /\ UNCHANGED <<late, delivered, requested, stop>>
          /\ pc = "shutdown" /\ pc' \in {"note", "release"}
          /\ pc' = "release" => stop \/ ~raised
      BY <2>8 DEF Shutdown, ClosedAtEnd, handle, pipeline, ending
    <3>3. pc \notin Over /\ pc' # "shutdown"
      BY <3>1 DEF Over
    <3>4. pc' \in Over => pc' = "release"
      BY <3>1 DEF Over
    <3> QED
      BY <1>0, <2>0, <3>1, <3>3, <3>4 DEF StopInv
  <2>11. CASE Note
    <3>1. stop' /\ pc' # "shutdown"
      BY <2>11 DEF Note, ClosedAtEnd
    <3> QED
      BY <3>1 DEF StopInv
  <2>9. CASE CloseByOwner
    <3>1. /\ UNCHANGED <<late, delivered>> /\ pc \in Over /\ pc' \in Over
      BY <2>9 DEF CloseByOwner, Release, Forget, Disown, Over, pipeline
    <3>2. stop => stop'
      <4>1. Release => (stop => stop')
        BY Zenon DEF Release
      <4>2. Forget \/ Disown => stop' = stop
        BY DEF Forget, Disown, ending
      <4> QED
        BY <2>9, <4>1, <4>2 DEF CloseByOwner
    <3>3. pc' # "shutdown"
      BY <3>1 DEF Over
    <3> QED
      BY <1>0, <2>0, <3>1, <3>2, <3>3 DEF StopInv
  <2>10. CASE Encode
    <3>1. /\ pc' = pc /\ stop' = stop /\ late' = late
          /\ delivered' = delivered /\ requested' = requested
          /\ raised' = raised
      BY <2>10 DEF Encode, handle, ending
    <3> QED
      BY <1>0, <2>0, <3>1 DEF StopInv
  <2> QED
    BY <1>2, <2>2, <2>3, <2>4, <2>5, <2>6, <2>7, <2>8, <2>9, <2>10, <2>11
    DEF Thread, Ensure, Frames
<1> QED
  BY <1>1, <1>2, CameraSplit

LEMMA CameraInit == SourcesInit => CameraInv
<1> SUFFICES ASSUME SourcesInit PROVE CameraInv
  OBVIOUS
<1>1. DeviceInv
  BY DEF SourcesInit, Init, DeviceInv, Working, Holding
<1>2. PipelineInv
  BY SizesAssumption DEF SourcesInit, Init, PipelineInv, InHand
<1>3. EndingTyped
  BY Zenon DEF SourcesInit, Init, EndingTyped
<1>4. ~stop /\ ~requested /\ pc = "check" /\ mainPc = "run" /\ late = 0
  BY Zenon DEF SourcesInit, Init
<1>5. StopInv
  BY <1>4 DEF StopInv, Over
<1> QED
  BY <1>1, <1>2, <1>3, <1>5 DEF CameraInv

\* The camera thread and its device, in every session of three sources.
LEMMA CameraInvariance == SourcesSpec => []CameraInv
<1>1. CameraInv /\ [SourcesNext]_sourceVars => CameraInv'
  BY EndingPreserved, DeviceStep, PipelineStep, StopStep DEF CameraInv
<1> QED
  BY <1>1, CameraInit, PTL DEF SourcesSpec

\* Whichever of the two threads comes first to close(), the device is released
\* at most once, and never under the camera thread.
THEOREM DeviceReleasedByOwner == SourcesSpec => []ReleasedByOwner
<1>1. CameraInv => ReleasedByOwner
  BY DEF CameraInv, DeviceInv, ReleasedByOwner, Working, Holding, Over
<1> QED
  BY <1>1, CameraInvariance, PTL

\* For every depth of the pipeline and every number of encoder threads, the
\* frames are delivered in the order of their capture and without a gap, all of
\* them unless something stopped the session.
THEOREM FramesAlwaysDelivered == SourcesSpec => []FramesDelivered
<1>1. CameraInv => FramesDelivered
  <2> SUFFICES ASSUME CameraInv PROVE FramesDelivered
    OBVIOUS
  <2>1. DOMAIN delivered = 1..Len(delivered)
    BY DEF CameraInv, PipelineInv
  <2> QED
    BY <2>1 DEF CameraInv, PipelineInv, StopInv, FramesDelivered, Over
<1> QED
  BY <1>1, CameraInvariance, PTL

\* At most one pipeline of frames is captured after the stop.
THEOREM StopAlwaysPrompt == SourcesSpec => []StopIsPrompt
<1>1. CameraInv => StopIsPrompt
  BY DEF CameraInv, PipelineInv, StopIsPrompt
<1> QED
  BY <1>1, CameraInvariance, PTL

-----------------------------------------------------------------------------
(* The end of a session. *)

LEMMA ControllerStep ==
  ControllerInv /\ [SourcesNext]_sourceVars => ControllerInv'
<1> SUFFICES ASSUME ControllerInv, [SourcesNext]_sourceVars
             PROVE  ControllerInv'
  OBVIOUS
<1> USE DEF ControllerInv
<1>1. CASE CameraThread
  <2>1. UNCHANGED <<xpc, xmainPc, dll, api>>
    BY <1>1 DEF CameraThread, controllerVars
  <2>2. Thread => joined' = joined /\ (pc = "dead" => pc' = "dead")
    BY DEF Thread, Ensure, CheckClosed, Create, Own, ClearRequest, Start,
       Frames, Loop, Capture, CaptureFails, Result, Deliver, Shutdown, Note,
       CloseByOwner, Release, Forget, Disown, Encode, main
  <2> QED
    BY <1>1, <2>1, <2>2 DEF CameraThread
<1>2. CASE ControllerThread
  <2>1. pc' = pc
    BY <1>2 DEF ControllerThread, cameraVars
  <2>2. \A from, to, fails : Controller!Step(from, to, fails)
          => xpc = from /\ joined' = joined
    BY DEF Controller!Step, Controller!main
  <2>3. Controller!Call => xpc = "call" /\ joined' = joined
    BY DEF Controller!Call, Controller!main
  <2>4. Controller!Thread => xpc # "dead" /\ joined' = joined
    <3> DEFINE From(f) == xpc = f /\ joined' = joined
    <3>1. \A f, to, fails : Controller!Step(f, to, fails) => From(f)
      BY <2>2
    <3> HIDE DEF From
    <3>2. /\ Controller!Ensure => From("ensure")
          /\ Controller!Test => From("test")
          /\ Controller!Load => From("load")
          /\ Controller!Resolve => From("resolve")
          /\ Controller!Prototype => From("prototype")
          /\ Controller!Yield => From("yield")
      BY <3>1, Zenon DEF Controller!Ensure, Controller!Test, Controller!Load,
         Controller!Resolve, Controller!Prototype, Controller!Yield
    <3>3. \A f \in {"ensure", "test", "load", "resolve", "prototype", "yield"} :
            From(f) => xpc # "dead" /\ joined' = joined
      BY DEF From
    <3>4. Controller!Note => xpc # "dead" /\ joined' = joined
      BY DEF Controller!Note, Controller!main
    <3> QED
      BY <2>3, <3>2, <3>3, <3>4 DEF Controller!Thread
  <2> QED
    BY <1>2, <2>1, <2>4 DEF ControllerThread
<1>3. CASE ReceiverThread
  <2>1. Receiver!Thread => joined' = joined
    BY DEF Receiver!Thread, Receiver!Test, Receiver!Create, Receiver!Assign,
       Receiver!Load, Receiver!Receive, Receiver!Note, Receiver!main
  <2> QED
    BY <1>3, <2>1 DEF ReceiverThread, cameraVars, controllerVars
<1>4. CASE BeginStop
  BY <1>4 DEF BeginStop, Stop, Controller!Begin
<1>5. CASE CloseCamera
  <2>1. Closing => UNCHANGED <<pc, joined>>
    BY DEF Closing, RequestStop, Find, TestOwner
  <2> QED
    BY <1>5, <2>1 DEF CloseCamera, controllerVars
<1>6. CASE CloseController
  <2>1. pc' = pc
    BY <1>6 DEF CloseController, cameraVars
  <2>2. CASE Controller!Forget
    BY <2>1, <2>2, Zenon DEF Controller!Forget
  <2>3. CASE Controller!Unload
    BY <2>1, <2>3, Zenon DEF Controller!Unload
  <2>4. CASE Controller!Mark
    BY <2>1, <2>4 DEF Controller!Mark
  <2> QED
    BY <1>6, <2>2, <2>3, <2>4 DEF CloseController, Controller!Closing
<1>7. CASE CloseReceiver
  <2>1. Receiver!Closing => joined' = joined
    BY DEF Receiver!Closing, Receiver!Find, Receiver!Close, Receiver!Forget
  <2> QED
    BY <1>7, <2>1 DEF CloseReceiver, cameraVars, controllerVars
<1>8. CASE JoinAll
  <2>1. joined' => pc = "dead" /\ xpc = "dead"
    BY <1>8, Zenon DEF JoinAll, Join, Controller!Join
  <2>2. pc' = pc /\ xpc' = xpc /\ xmainPc' = "forget"
    BY <1>8 DEF JoinAll, Join, Controller!Join
  <2> QED
    BY <2>1, <2>2
<1>9. CASE Terminated \/ UNCHANGED sourceVars
  <2>1. UNCHANGED <<cameraVars, controllerVars, shared>>
    BY <1>9 DEF Terminated, sourceVars
  <2> QED
    BY <2>1 DEF cameraVars, controllerVars, shared
<1> QED
  BY <1>1, <1>2, <1>3, <1>4, <1>5, <1>6, <1>7, <1>8, <1>9 DEF SourcesNext

\* A command that saw its threads end leaves no device, no socket and no DLL
\* behind, in whatever order the threads and the closings came.
THEOREM NothingStaysOpen == SourcesSpec => []NothingLeftOpen
<1>1. SourcesInit => ControllerInv
  BY Zenon DEF SourcesInit, Init, ControllerInv
<1>2. SourcesSpec => []ControllerInv
  BY <1>1, ControllerStep, PTL DEF SourcesSpec
<1>3. /\ ControllerInv /\ CameraInv
      /\ joined /\ rmainPc = "done" => bound = {}
      => NothingLeftOpen
  <2>1. joined /\ ControllerInv /\ CameraInv => device \in {"absent", "released"}
    BY DEF ControllerInv, CameraInv, DeviceInv
  <2> QED
    BY <2>1, Zenon DEF NothingLeftOpen, Ended, ControllerInv
<1> QED
  BY <1>2, <1>3, CameraInvariance, SocketsInSession, PTL

\* No exception that closing a source provokes in its thread is ever taken for a
\* fault, since every thread looks for the stop event first and stop() sets it
\* before it closes anything; and while the sources are being closed a fault is
\* noted only where ClosingIsNoFault says.
THEOREM ClosingNeverFaults == SourcesSpec => ClosingIsNoFault
<1> DEFINE Quiet == TakenForFault => mainPc = "run"
           Noted == fault' /\ ~fault => \/ "note" \in {pc, xpc, rpc}
                                       \/ pc = "release"
                                       \/ mainPc = "join"
<1>1. ASSUME CameraInv, [SourcesNext]_sourceVars PROVE Quiet
  <2> SUFFICES ASSUME mainPc # "run", TakenForFault PROVE FALSE
    OBVIOUS
  <2>1. stop
    BY <1>1 DEF CameraInv, StopInv
  <2>2. CASE CameraThread
    <3>1. UNCHANGED <<xpc, rpc>>
      BY <2>2 DEF CameraThread, controllerVars, receiverVars
    <3>2. pc' = "note" => Shutdown \/ pc' = pc
      BY <2>2 DEF CameraThread, Thread, Ensure, CheckClosed, Create, Own,
         ClearRequest, Start, Frames, Loop, AfterCapture, Capture,
         CaptureFails, Result, Raises, Deliver, Note, ClosedAtEnd,
         CloseByOwner, Release, Forget, Disown, Encode
    <3>3. Shutdown => pc' # "note"
      BY <2>1 DEF Shutdown, ClosedAtEnd
    <3> QED
      BY <3>1, <3>2, <3>3 DEF TakenForFault
  <2>3. CASE ControllerThread
    <3>1. UNCHANGED <<pc, rpc>>
      BY <2>3 DEF ControllerThread, cameraVars, receiverVars
    <3>2. Controller!Raises => xpc' # "note"
      BY <2>1 DEF Controller!Raises
    <3>3. \A from, to, fails :
            to # "note" /\ Controller!Step(from, to, fails) => xpc' # "note"
      BY <3>2 DEF Controller!Step
    <3>4. Controller!Call => xpc' # "note"
      BY <3>2 DEF Controller!Call
    <3>5. xpc' # "note"
      BY <2>3, <3>3, <3>4 DEF ControllerThread, Controller!Thread,
         Controller!Ensure, Controller!Test, Controller!Load,
         Controller!Resolve, Controller!Prototype, Controller!Yield,
         Controller!Note
    <3> QED
      BY <3>1, <3>5 DEF TakenForFault
  <2>4. CASE ReceiverThread
    <3>1. UNCHANGED <<pc, xpc>>
      BY <2>4 DEF ReceiverThread, cameraVars, controllerVars
    <3>2. rpc' # "note"
      BY <2>1, <2>4 DEF ReceiverThread, Receiver!Thread, Receiver!Test,
         Receiver!Create, Receiver!Assign, Receiver!Load, Receiver!Receive,
         Receiver!Note, Receiver!Raises
    <3> QED
      BY <3>1, <3>2 DEF TakenForFault
  <2>5. UNCHANGED <<pc, xpc, rpc>> => FALSE
    BY DEF TakenForFault
  <2>6. CASE BeginStop \/ JoinAll
    BY <2>5, <2>6 DEF BeginStop, Stop, Controller!Begin, Receiver!Begin,
       JoinAll, Join, Controller!Join, Receiver!Join, Receiver!thread
  <2>7. CASE CloseCamera
    BY <2>5, <2>7 DEF CloseCamera, Closing, RequestStop, Find, TestOwner,
       controllerVars, receiverVars
  <2>8. CASE CloseController
    BY <2>5, <2>8 DEF CloseController, Controller!Closing, Controller!Forget,
       Controller!Unload, Controller!Mark, cameraVars, receiverVars
  <2>9. CASE CloseReceiver
    BY <2>5, <2>9 DEF CloseReceiver, Receiver!Closing, Receiver!Find,
       Receiver!Close, Receiver!Forget, Receiver!thread, cameraVars,
       controllerVars
  <2>10. CASE Terminated \/ UNCHANGED sourceVars
    BY <2>5, <2>10 DEF Terminated, sourceVars, cameraVars, controllerVars,
       receiverVars
  <2> QED
    BY <1>1, <2>2, <2>3, <2>4, <2>6, <2>7, <2>8, <2>9, <2>10 DEF SourcesNext
<1>2. ASSUME [SourcesNext]_sourceVars PROVE Noted
  <2> SUFFICES ASSUME fault' # fault
               PROVE  \/ "note" \in {pc, xpc, rpc}
                      \/ pc = "release"
                      \/ mainPc = "join"
    OBVIOUS
  <2>2. CASE CameraThread
    <3>1. Note \/ Release \/ fault' = fault
      BY <2>2 DEF CameraThread, Thread, Ensure, CheckClosed, Create, Own,
         ClearRequest, Start, Frames, Loop, Capture, CaptureFails, Result,
         Deliver, Shutdown, CloseByOwner, Forget, Disown, Encode, ending
    <3> QED
      BY <3>1 DEF Note, Release
  <2>3. CASE ControllerThread
    <3>1. \A from, to, fails : Controller!Step(from, to, fails) => fault' = fault
      BY DEF Controller!Step, Controller!Raises
    <3>2. Controller!Call => fault' = fault
      BY DEF Controller!Call, Controller!Raises
    <3>3. Controller!Note
      BY <2>3, <3>1, <3>2 DEF ControllerThread, Controller!Thread,
         Controller!Ensure, Controller!Test, Controller!Load,
         Controller!Resolve, Controller!Prototype, Controller!Yield
    <3> QED
      BY <3>3 DEF Controller!Note
  <2>4. CASE ReceiverThread
    <3>1. Receiver!Note
      BY <2>4 DEF ReceiverThread, Receiver!Thread, Receiver!Test,
         Receiver!Create, Receiver!Assign, Receiver!Load, Receiver!Receive,
         Receiver!Raises
    <3> QED
      BY <3>1 DEF Receiver!Note
  <2>5. CASE BeginStop \/ CloseCamera
    BY <2>5 DEF BeginStop, Stop, CloseCamera, Closing, RequestStop, Find,
       TestOwner, ending
  <2>6. CASE JoinAll
    BY <2>6 DEF JoinAll, Join
  <2>7. CASE CloseController
    BY <2>7 DEF CloseController, Controller!Closing, Controller!Forget,
       Controller!Unload, Controller!Mark
  <2>8. CASE CloseReceiver
    BY <2>8 DEF CloseReceiver, Receiver!Closing, Receiver!Find,
       Receiver!Close, Receiver!Forget
  <2>9. CASE Terminated \/ UNCHANGED sourceVars
    <3>1. UNCHANGED shared
      BY <2>9 DEF Terminated, sourceVars
    <3> QED
      BY <3>1 DEF shared
  <2> QED
    BY <1>2, <2>2, <2>3, <2>4, <2>5, <2>6, <2>7, <2>8, <2>9 DEF SourcesNext
<1> QED
  BY <1>1, <1>2, CameraInvariance, PTL DEF SourcesSpec, ClosingIsNoFault
=============================================================================
