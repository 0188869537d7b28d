--------------------------- MODULE CaptureSources ---------------------------
(***************************************************************************)
(* The three sources of a session together: the camera (this module        *)
(* extends it), the controller and the UDP receiver, each polled by a      *)
(* thread of CaptureCoordinator and closed by the main thread.  They share *)
(* the stop event and the fault: an exception of one ends the others.      *)
(* stop() closes them in the order camera, controller, receiver; after     *)
(* join() the command closes them once more, in the opposite order.        *)
(***************************************************************************)
EXTENDS DXcamCamera

VARIABLES
  xpc, xmainPc, dll, api, xclosed, disconnects,          \* the controller
  rpc, rmainPc, socket, opened, bound, local, closing    \* the receiver

Controller == INSTANCE XInputController
                WITH pc <- xpc, mainPc <- xmainPc, closed <- xclosed

Receiver == INSTANCE UdpTelemetryReceiver WITH pc <- rpc, mainPc <- rmainPc

cameraVars == <<pc, mainPc, dxcam, handle, pipeline, raised>>
controllerVars == <<xpc, xmainPc, dll, api, xclosed, disconnects>>
receiverVars == <<rpc, rmainPc, socket, opened, bound, local, closing>>
shared == <<stop, fault, joined, round>>
sourceVars == <<cameraVars, controllerVars, receiverVars, shared>>

SourcesInit == Init /\ Controller!Init /\ Receiver!Init

CameraThread == Thread /\ UNCHANGED <<controllerVars, receiverVars>>

ControllerThread == Controller!Thread /\ UNCHANGED <<cameraVars, receiverVars>>

ReceiverThread == Receiver!Thread /\ UNCHANGED <<cameraVars, controllerVars>>

-----------------------------------------------------------------------------
(* The main thread. *)

\* A session ends: at its deadline, by a fault, when its threads have ended.
BeginStop == Stop /\ Controller!Begin /\ Receiver!Begin

\* A source of which nothing is left to do in this round.
CameraClosed == mainPc \in {"join", "done"}
ControllerClosed == xmainPc \in {"join", "done"}
ReceiverClosed == rmainPc \in {"join", "done"}

\* The order in which the sources are closed: stop() in the first round, the
\* finally clause of the command in the second.
CloseCamera == /\ round = 2 => ControllerClosed
               /\ Closing
               /\ UNCHANGED <<controllerVars, receiverVars>>

CloseController == /\ IF round = 1 THEN CameraClosed ELSE ReceiverClosed
                   /\ Controller!Closing
                   /\ UNCHANGED <<cameraVars, receiverVars>>

CloseReceiver == /\ round = 1 => ControllerClosed
                 /\ Receiver!Closing
                 /\ UNCHANGED <<cameraVars, controllerVars>>

\* One deadline for the three threads.
JoinAll == Join /\ Controller!Join /\ Receiver!Join

Ended == mainPc = "done" /\ xmainPc = "done" /\ rmainPc = "done"

Terminated == /\ Ended /\ pc = "dead" /\ xpc = "dead" /\ rpc = "dead"
              /\ UNCHANGED sourceVars

SourcesNext == CameraThread \/ ControllerThread \/ ReceiverThread \/ BeginStop
                 \/ CloseCamera \/ CloseController \/ CloseReceiver \/ JoinAll
                 \/ Terminated

SourcesSpec == SourcesInit /\ [][SourcesNext]_sourceVars

-----------------------------------------------------------------------------
(* Properties; those of the camera alone are in DXcamCamera. *)

\* The UDP port is never bound twice, although the thread may open a new socket
\* while close() is at work on the old one: a second bind would fail and end
\* the session.
OneSocket == Receiver!AtMostOneSocket

\* A thread takes its exception for a fault.
TakenForFault == \/ pc # "note" /\ pc' = "note"
                 \/ xpc # "note" /\ xpc' = "note"
                 \/ rpc # "note" /\ rpc' = "note"

\* The exceptions that closing a source under its thread provokes are never
\* taken for faults: that would turn a finished session into a failed one.  The
\* faults noted once the sources are being closed are those the threads met
\* before the stop, an error of the device when it is released, and a join that
\* gives up.
ClosingIsNoFault ==
  [][/\ TakenForFault => mainPc = "run"
     /\ fault' /\ ~fault => \/ "note" \in {pc, xpc, rpc}
                            \/ pc = "release"
                            \/ mainPc = "join"]_sourceVars

\* A command that saw the threads end leaves nothing of the sources behind: no
\* device, not even one created after close() had found none; no socket opened,
\* and no DLL loaded, after stop() had closed the source.
NothingLeftOpen == Ended /\ joined => /\ device \in {"absent", "released"}
                                      /\ bound = {}
                                      /\ ~dll /\ ~api
=============================================================================
