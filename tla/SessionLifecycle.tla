--------------------------- MODULE SessionLifecycle ---------------------------
(***************************************************************************)
(* capture/session.py: the bounded session object, called by threads of the*)
(* program that uses it.  start() and append_frame() hold its lock; the    *)
(* other methods do not, so their steps fall between those of any call.    *)
(* Of the recorder underneath it keeps the frame file, the other files as  *)
(* one, and the manifest.                                                  *)
(*                                                                         *)
(* A write or a flush of the frame file may fail (disk full).  That raises *)
(* out of append_frame(), and leaves the session recording: a record that  *)
(* was only not flushed stays in Python's buffer, and goes into the file   *)
(* with the next one; of a frame larger than the buffer a part may be in   *)
(* the file, and behind it no frame can be read.                           *)
(***************************************************************************)
EXTENDS Integers

CONSTANTS Callers,     \* the threads
          MaxFrames,   \* max_frames
          MaxFailures  \* bound: writes and flushes that fail

VARIABLES
  state,    \* SessionState
  frames,   \* _frames
  late,     \* the deadline has passed
  holder,   \* the thread that holds the lock, or "none"
  call,     \* of each thread: the method it is in
  pc,       \* of each thread: its next step
  written,  \* readable frames in the frame file
  buffered, \* frames waiting in Python's buffer
  torn,     \* a part of a frame is in the file
  openFrames, openRest,  \* the files of the recorder
  closed,   \* SessionRecorder._closed
  hashed,   \* frames in the file when finalize() hashed it, or -1
  sealed,   \* frames in the file a manifest vouches for, or -1
  failures  \* the bounded counter

frameFile == <<written, buffered, torn>>
files == <<frameFile, openFrames, openRest>>
publishing == <<hashed, sealed>>
vars == <<state, frames, late, holder, call, pc, files, closed, publishing,
          failures>>

Init == /\ state = "created" /\ frames = 0 /\ late = FALSE
        /\ holder = "none"
        /\ call = [t \in Callers |-> "none"]
        /\ pc = [t \in Callers |-> "idle"]
        /\ written = 0 /\ buffered = 0 /\ torn = FALSE
        /\ openFrames = TRUE /\ openRest = TRUE
        /\ closed = FALSE /\ hashed = -1 /\ sealed = -1
        /\ failures = 0

Goto(t, l) == pc' = [pc EXCEPT ![t] = l]

\* The call of t is over: it returned, or raised.
Over(t) == Goto(t, "idle") /\ UNCHANGED call

\* max_seconds have passed since start(), or since the object was made.
Expire == late' = TRUE /\ UNCHANGED <<state, frames, holder, call, pc, files,
                                      closed, publishing, failures>>

-----------------------------------------------------------------------------
(* start() and append_frame(). *)

\* Wrong: the lock is not taken.
NoLock(t) == holder' = holder

Acquire(t) == holder = "none" /\ holder' = t

Enter(t) == /\ pc[t] = "idle"
            /\ \/ /\ Acquire(t)
                  /\ \E m \in {"start", "append"} :
                       call' = [call EXCEPT ![t] = m] /\ Goto(t, "check")
               \/ /\ \E m \in {"finalize", "abort", "close"} :
                       call' = [call EXCEPT ![t] = m] /\ Goto(t, "enter")
                  /\ UNCHANGED holder
            /\ UNCHANGED <<state, frames, late, files, closed, publishing,
                           failures>>

Start(t) == /\ pc[t] = "check" /\ call[t] = "start"
            /\ IF state = "created"
                 THEN state' = "recording" /\ late' = FALSE
                 ELSE UNCHANGED <<state, late>>
            /\ holder' = "none"
            /\ Over(t)
            /\ UNCHANGED <<frames, files, closed, publishing, failures>>

\* append_frame() makes its three checks, and the recorder its own.
MayAppend == state = "recording" /\ frames < MaxFrames /\ ~late /\ ~closed

CheckAppend(t) == /\ pc[t] = "check" /\ call[t] = "append"
                  /\ IF MayAppend
                       THEN Goto(t, "write") /\ UNCHANGED <<holder, call>>
                       ELSE Over(t) /\ holder' = "none"
                  /\ UNCHANGED <<state, frames, late, files, closed,
                                 publishing, failures>>

\* What is buffered goes into the file, where it can be read unless a torn frame
\* is before it.
Flush == /\ written' = IF torn THEN written ELSE written + buffered
         /\ buffered' = 0

Fails == failures < MaxFailures /\ failures' = failures + 1

\* The call raises; it has counted nothing.
Rejected(t) == Over(t) /\ holder' = "none" /\ UNCHANGED frames

\* The frame is written.  A frame file that is closed raises, and so does one
\* that fails; a large frame that was begun when it did is torn.
WriteFrame(t) ==
  /\ pc[t] = "write"
  /\ \/ /\ openFrames
        /\ buffered' = buffered + 1
        /\ Goto(t, "count")
        /\ UNCHANGED <<call, holder, frames, written, torn, failures>>
     \/ ~openFrames /\ Rejected(t) /\ UNCHANGED <<frameFile, failures>>
     \/ /\ openFrames /\ Fails /\ Rejected(t)
        /\ \/ UNCHANGED frameFile
           \/ Flush /\ torn' = TRUE
  /\ UNCHANGED <<state, late, openFrames, openRest, closed, publishing>>

\* It is flushed and counted.  The flush raises if it fails, or if the file was
\* closed before it.
CountFrame(t) ==
  /\ pc[t] = "count"
  /\ \/ /\ frames' = frames + 1
        /\ Flush
        /\ Over(t) /\ holder' = "none"
        /\ UNCHANGED failures
     \/ openFrames /\ Fails /\ Rejected(t) /\ UNCHANGED <<written, buffered>>
     \/ ~openFrames /\ Rejected(t) /\ UNCHANGED <<written, buffered, failures>>
  /\ UNCHANGED <<state, late, torn, openFrames, openRest, closed, publishing>>

-----------------------------------------------------------------------------
(* finalize(), abort() and close(). *)

\* The state is looked at, and then whether the recorder is closed.  close()
\* is abort() unless the session has ended.
Check(t) == /\ pc[t] = "enter"
            /\ \/ /\ call[t] = "finalize"
                  /\ Goto(t, IF state = "recording" THEN "recorder" ELSE "idle")
               \/ /\ call[t] = "close"
                  /\ Goto(t, IF state \in {"finalized", "aborted"} THEN "idle"
                                                                   ELSE "abort")
               \/ call[t] = "abort" /\ Goto(t, "abort")
            /\ UNCHANGED <<state, frames, late, holder, call, files, closed,
                           publishing, failures>>

Abort(t) == /\ pc[t] = "abort"
            /\ Goto(t, IF state \in {"created", "recording"} THEN "recorder"
                                                             ELSE "end")
            /\ UNCHANGED <<state, frames, late, holder, call, files, closed,
                           publishing, failures>>

\* A closed recorder does nothing for close(), and raises for finalize().
Recorder(t) == /\ pc[t] = "recorder"
               /\ Goto(t, IF ~closed THEN "frames"
                          ELSE IF call[t] = "finalize" THEN "idle" ELSE "end")
               /\ UNCHANGED <<state, frames, late, holder, call, files, closed,
                              publishing, failures>>

\* The frame file is flushed, synced and closed; a closed one is left alone.
CloseFrames(t) == /\ pc[t] = "frames"
                  /\ openFrames' = FALSE
                  /\ Flush
                  /\ Goto(t, "rest")
                  /\ UNCHANGED <<state, frames, late, holder, call, torn,
                                 openRest, closed, publishing, failures>>

\* To sync a closed file raises.
CloseRest(t) == /\ pc[t] = "rest"
                /\ openRest' = FALSE
                /\ Goto(t, IF ~openRest THEN "idle"
                           ELSE IF call[t] = "finalize" THEN "hash"
                                                        ELSE "closed")
                /\ UNCHANGED <<state, frames, late, holder, call, frameFile,
                               openFrames, closed, publishing, failures>>

\* Wrong: what append_frame() counted is what the file holds.
AsCounted == frames

AsRead == written

Hash(t) == /\ pc[t] = "hash"
           /\ hashed' = AsRead
           /\ Goto(t, "publish")
           /\ UNCHANGED <<state, frames, late, holder, call, files, closed,
                          sealed, failures>>

Publish(t) == /\ pc[t] = "publish"
              /\ sealed' = hashed
              /\ Goto(t, "closed")
              /\ UNCHANGED <<state, frames, late, holder, call, files, closed,
                             hashed, failures>>

Closed(t) == /\ pc[t] = "closed"
             /\ closed' = TRUE
             /\ Goto(t, "end")
             /\ UNCHANGED <<state, frames, late, holder, call, files,
                            publishing, failures>>

\* Any step on the files may raise instead.
Raise(t) == /\ pc[t] \in {"frames", "rest", "hash", "publish"}
            /\ Over(t)
            /\ UNCHANGED <<state, frames, late, holder, files, closed,
                           publishing, failures>>

\* The last line of finalize(), or of abort().
End(t) == /\ pc[t] = "end"
          /\ state' = IF call[t] = "finalize" THEN "finalized" ELSE "aborted"
          /\ Over(t)
          /\ UNCHANGED <<frames, late, holder, files, closed, publishing,
                         failures>>

Next == \/ Expire
        \/ \E t \in Callers :
             \/ Enter(t) \/ Start(t) \/ CheckAppend(t) \/ WriteFrame(t)
             \/ CountFrame(t) \/ Check(t) \/ Abort(t) \/ Recorder(t)
             \/ CloseFrames(t) \/ CloseRest(t) \/ Hash(t) \/ Publish(t)
             \/ Closed(t) \/ Raise(t) \/ End(t)

Spec == Init /\ [][Next]_vars

-----------------------------------------------------------------------------
(* Properties. *)

\* Threads that append at the same time never write more frames than the session
\* may have, but for one with each write or flush that failed: "session
\* max_frames reached" (session.py:72) counts the frames that were acknowledged.
FramesBounded == written + buffered <= MaxFrames + failures

\* A manifest vouches for the frame file as it is and stays, whatever is called
\* while it is made and after it, an abort of the finalized session included;
\* it holds every frame whose append returned, unless one is torn.
ManifestKept == sealed # -1 => /\ sealed = written /\ buffered = 0
                               /\ ~torn => frames <= sealed
=============================================================================
