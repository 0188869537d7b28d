------------------------ MODULE MCCaptureCoordinator ------------------------
(* Small instances of CaptureCoordinator for TLC. *)
EXTENDS CaptureCoordinator

\* All queues hold one item: every second item meets a full queue.
CapacityOne == [s \in Streams |-> 1]
\* A camera queue of two items tells its oldest from its newest.
CapacityTwo == [CapacityOne EXCEPT !["camera"] = 2]
\* The telemetry queue holds two items, so that a pass of _drain may take one
\* item of a queue and leave another.
CapacityMixed == [camera |-> 1, controller |-> 1, telemetry |-> 2]

Items(camera, controller, telemetry) ==
  [s \in Streams |-> CASE s = "camera" -> camera
                       [] s = "controller" -> controller
                       [] s = "telemetry" -> telemetry]
Items300 == Items(3, 0, 0)
Items220 == Items(2, 2, 0)
Items002 == Items(0, 0, 2)
Items003 == Items(0, 0, 3)
=============================================================================
