----------------------------- MODULE DXcamCamera -----------------------------
(***************************************************************************)
(* capture/camera.py with the camera worker of CaptureCoordinator: the     *)
(* desktop duplication device, which only the thread that created it may   *)
(* use and release; the pipeline of frames being encoded by a pool of      *)
(* threads; and close(), which the worker calls when it ends, the main     *)
(* thread in stop(), and the command line once more after run().           *)
(*                                                                         *)
(* The camera has no lock.  close() asks the owner to stop through         *)
(* _stop_requested, but the owner clears that event when it has created    *)
(* the device: a request made before is lost, and only the stop event of   *)
(* the coordinator ends the capture.                                       *)
(***************************************************************************)
EXTENDS Integers, Sequences, FiniteSets

CONSTANTS MaxFrames,  \* the max_frames of the session
          Depth,      \* frames in the pipeline: 8 in the code
          Workers     \* encoder threads: 4 in the code

ASSUME SizesAssumption == {MaxFrames, Depth, Workers} \subseteq Nat \ {0}

VARIABLES
  pc,         \* where the camera thread is
  mainPc,     \* where the main thread is
  device,     \* the device itself: "absent", "created", "started", "released"
  releases,   \* how often it has been released
  camera,     \* _camera is not None
  owned,      \* _owner_thread_id is the camera thread's (else None)
  requested,  \* _stop_requested
  closed,     \* _closed
  captured,   \* captured_count
  pending,    \* the frames in the pipeline, oldest first
  encoded,    \* frames whose encoding has completed
  item,       \* the frame handed to the worker
  raised,     \* an exception is on its way out of frames()
  delivered,  \* the frames the worker has put into its queue
  stop,       \* the coordinator's stop event
  fault,      \* a fault has been noted
  joined,     \* join() has seen the threads end
  round,      \* 1: the close() of stop(); 2: that of the command
  late        \* history: frames captured since stop was set

dxcam == <<device, releases>>
handle == <<camera, owned, requested, closed>>
pipeline == <<captured, pending, encoded, item, delivered, late>>
ending == <<raised, stop, fault>>
main == <<mainPc, joined, round>>
vars == <<pc, dxcam, handle, pipeline, ending, main>>

NoFrame == -1

Init == /\ pc = "check" /\ mainPc = "run"
        /\ device = "absent" /\ releases = 0
        /\ camera = FALSE /\ owned = FALSE
        /\ requested = FALSE /\ closed = FALSE
        /\ captured = 0 /\ late = 0
        /\ pending = <<>> /\ encoded = {} /\ item = NoFrame /\ delivered = <<>>
        /\ raised = FALSE /\ stop = FALSE /\ fault = FALSE
        /\ joined = FALSE /\ round = 1

-----------------------------------------------------------------------------
(* The camera thread: _ensure_camera. *)

\* An exception leaves frames() through the pool, which waits for its threads.
Raises == pc' = "shutdown" /\ raised' = TRUE

CheckClosed == /\ pc = "check"
               /\ IF closed THEN Raises ELSE pc' = "create" /\ UNCHANGED raised
               /\ UNCHANGED <<dxcam, handle, pipeline, stop, fault, main>>

Create == /\ pc = "create"
          /\ \/ /\ device' = "created"
                /\ camera' = TRUE
                /\ pc' = "own"
                /\ UNCHANGED raised
             \/ Raises /\ UNCHANGED <<device, camera>>
          /\ UNCHANGED <<releases, owned, requested, closed, pipeline, stop,
                         fault, main>>

Own == /\ pc = "own"
       /\ owned' = TRUE
       /\ pc' = "clear"
       /\ UNCHANGED <<dxcam, camera, requested, closed, pipeline, ending, main>>

ClearRequest == /\ pc = "clear"
                /\ requested' = FALSE
                /\ pc' = "start"
                /\ UNCHANGED <<dxcam, camera, owned, closed, pipeline, ending,
                               main>>

Start == /\ pc = "start"
         /\ \/ device' = "started" /\ pc' = "loop" /\ UNCHANGED raised
            \/ Raises /\ UNCHANGED device
         /\ UNCHANGED <<releases, handle, pipeline, stop, fault, main>>

-----------------------------------------------------------------------------
(* The camera thread: frames() and the loop of _camera_worker. *)

\* Wrong: what is left in the pipeline at the end is forgotten.
RestForgotten == "shutdown"

AfterCapture == IF pending = <<>> THEN "shutdown" ELSE "result"

\* The condition of the loop.  Once false it stays false, so the second loop,
\* which empties the pipeline, is entered from here too.
Loop == /\ pc = "loop"
        /\ pc' = IF ~requested /\ captured < MaxFrames THEN "poll"
                                                       ELSE AfterCapture
        /\ UNCHANGED <<dxcam, handle, pipeline, ending, main>>

PipelineFull == Len(pending') >= Depth

\* get_latest_frame returns a frame, which is stamped and given to the pool.
Capture == /\ pc = "poll"
           /\ captured' = captured + 1
           /\ pending' = Append(pending, captured)
           /\ pc' = IF PipelineFull THEN "result" ELSE "loop"
           /\ late' = IF stop THEN late + 1 ELSE late
           /\ UNCHANGED <<dxcam, handle, encoded, item, delivered, ending,
                          main>>

\* It returns None; or it, the clock or the conversion of the time raises.
CaptureFails == /\ pc = "poll"
                /\ \/ pc' = "loop" /\ UNCHANGED raised
                   \/ Raises
                /\ UNCHANGED <<dxcam, handle, pipeline, stop, fault, main>>

\* Wrong: the first frame that is ready.
FirstReady == IF \E i \in DOMAIN pending : pending[i] \in encoded
                THEN CHOOSE i \in DOMAIN pending : pending[i] \in encoded
                ELSE 1

Oldest == 1

Without(s, i) == SubSeq(s, 1, i - 1) \o SubSeq(s, i + 1, Len(s))

\* result() of the oldest frame waits for its encoding, and returns or raises.
Result == /\ pc = "result"
          /\ pending[Oldest] \in encoded
          /\ \/ pc' = "yield" /\ item' = pending[Oldest] /\ UNCHANGED raised
             \/ Raises /\ UNCHANGED item
          /\ pending' = Without(pending, Oldest)
          /\ UNCHANGED <<dxcam, handle, captured, encoded, delivered, late,
                         stop, fault, main>>

\* Wrong: the worker relies on the camera's own event.
EventIgnored == FALSE

StopSeen == stop

\* The loop body of the worker: it breaks at a stop, puts the frame, and ends
\* the session when its time is over.
Deliver == /\ pc = "yield"
           /\ item' = NoFrame
           /\ \/ /\ StopSeen
                 /\ pc' = "shutdown"
                 /\ UNCHANGED <<delivered, stop>>
              \/ /\ ~StopSeen
                 /\ delivered' = Append(delivered, item)
                 /\ \/ pc' = "loop" /\ UNCHANGED stop
                    \/ pc' = "shutdown" /\ stop' = TRUE
           /\ UNCHANGED <<dxcam, handle, captured, pending, encoded, late,
                          raised, fault, main>>

\* Wrong: only a worker that ends by itself closes the camera.
ClosedUnlessRaised == IF raised THEN "dead" ELSE "release"

ClosedAtEnd == "release"

\* The pool waits for what it was given.  An exception is a fault unless the
\* session is ending: the worker looks for that here, and notes it later.
Shutdown == /\ pc = "shutdown"
            /\ \A i \in DOMAIN pending : pending[i] \in encoded
            /\ pc' = IF raised /\ ~stop THEN "note" ELSE ClosedAtEnd
            /\ UNCHANGED <<dxcam, handle, pipeline, ending, main>>

\* The fault is noted, and ends the session.  Then the worker calls close().
Note == /\ pc = "note"
        /\ fault' = TRUE
        /\ stop' = TRUE
        /\ pc' = ClosedAtEnd
        /\ UNCHANGED <<dxcam, handle, pipeline, raised, main>>

\* close() of the owner.  The device's own stop() may raise, which is a fault,
\* but the release follows all the same.
Release == /\ pc = "release"
           /\ requested' = TRUE
           /\ IF camera
                THEN /\ device' = "released"
                     /\ releases' = releases + 1
                     /\ \/ UNCHANGED <<fault, stop>>
                        \/ fault' = TRUE /\ stop' = TRUE
                     /\ pc' = "forget"
                     /\ UNCHANGED closed
                ELSE /\ closed' = TRUE
                     /\ pc' = "dead"
                     /\ UNCHANGED <<dxcam, fault, stop>>
           /\ UNCHANGED <<camera, owned, pipeline, raised, main>>

Forget == /\ pc = "forget"
          /\ camera' = FALSE
          /\ pc' = "disown"
          /\ UNCHANGED <<dxcam, owned, requested, closed, pipeline, ending,
                         main>>

Disown == /\ pc = "disown"
          /\ owned' = FALSE
          /\ closed' = TRUE
          /\ pc' = "dead"
          /\ UNCHANGED <<dxcam, camera, requested, pipeline, ending, main>>

-----------------------------------------------------------------------------
(* The encoder pool: Workers threads take the frames in order. *)

Encoding == LET waiting == {i \in DOMAIN pending : pending[i] \notin encoded}
            IN  {pending[i] : i \in {j \in waiting :
                   Cardinality({k \in waiting : k < j}) < Workers}}

Encode == \E f \in Encoding :
            /\ encoded' = encoded \cup {f}
            /\ UNCHANGED <<pc, dxcam, handle, captured, pending, item,
                           delivered, late, ending, main>>

-----------------------------------------------------------------------------
(* The main thread. *)

\* Wrong: the sources are closed before the event is set.
EventLate == UNCHANGED stop

EventFirst == stop' = TRUE

\* The session ends, and stop() calls close() after setting its event.
Stop == /\ mainPc = "run"
        /\ EventFirst
        /\ mainPc' = "request"
        /\ UNCHANGED <<pc, dxcam, handle, pipeline, raised, fault, joined,
                       round>>

RequestStop == /\ mainPc = "request"
               /\ requested' = TRUE
               /\ mainPc' = "find"
               /\ UNCHANGED <<pc, dxcam, camera, owned, closed, pipeline,
                              ending, joined, round>>

AfterClose == IF round = 1 THEN "join" ELSE "done"

\* Without a camera close() marks the object closed.
Find == /\ mainPc = "find"
        /\ closed' = (closed \/ ~camera)
        /\ mainPc' = IF camera THEN "owner" ELSE AfterClose
        /\ UNCHANGED <<pc, dxcam, camera, owned, requested, pipeline, ending,
                       joined, round>>

\* Wrong: a camera whose owner is not recorded yet is taken for one's own.
OwnerAssumed == ~owned

\* _owner_thread_id is the owner's or None, never the main thread's.
OwnedByMain == FALSE

\* Only its owner stops and releases the device.
TestOwner == /\ mainPc = "owner"
             /\ mainPc' = AfterClose
             /\ IF OwnedByMain
                  THEN /\ device' = "released"
                       /\ releases' = releases + 1
                       /\ camera' = FALSE
                       /\ closed' = TRUE
                  ELSE UNCHANGED <<dxcam, camera, closed>>
             /\ UNCHANGED <<pc, owned, requested, pipeline, ending, joined,
                            round>>

\* join() sees the thread end, or gives up at its deadline, which is a fault.
Join == /\ mainPc = "join"
        /\ joined' \in {FALSE, pc = "dead"}
        /\ fault' = (fault \/ ~joined')
        /\ round' = 2
        /\ mainPc' = "request"
        /\ UNCHANGED <<pc, dxcam, handle, pipeline, raised, stop>>

-----------------------------------------------------------------------------
Ensure == CheckClosed \/ Create \/ Own \/ ClearRequest \/ Start
Frames == Loop \/ Capture \/ CaptureFails \/ Result \/ Deliver \/ Shutdown
            \/ Note
CloseByOwner == Release \/ Forget \/ Disown

Thread == Ensure \/ Frames \/ CloseByOwner \/ Encode

Closing == RequestStop \/ Find \/ TestOwner

-----------------------------------------------------------------------------
(* Properties. *)

\* The device is released once, and never while the camera thread still works
\* with it, whichever of the two threads comes first to close().
ReleasedByOwner == /\ releases <= 1
                   /\ pc \in {"own", "clear", "start", "loop", "poll"}
                        => device # "released"

\* The worker gets the frames in the order of their capture and without a gap,
\* although the pool completes them in any order; and a thread that ended while
\* nothing had stopped the session has delivered all max_frames frames, those
\* still in the pipeline included.
FramesDelivered ==
  /\ \A i \in DOMAIN delivered : delivered[i] = i - 1
  /\ pc = "dead" /\ ~stop => Len(delivered) = MaxFrames

\* A stop lets at most one pipeline of frames be captured, also when
\* _ensure_camera has erased the request that close() made.
StopIsPrompt == late <= Depth
=============================================================================
