--------------------------- MODULE SessionRecorder ---------------------------
(***************************************************************************)
(* capture/recording.py and capture/telemetry.py: the five files of one    *)
(* session, their way to the disk, finalize() and close() as               *)
(* CaptureCoordinator.run() and the command line call them, a crash of the *)
(* process or of the machine, and recover_session().                       *)
(*                                                                         *)
(* A file is what a reader finds in it: so many readable records, and a    *)
(* tail of bytes that are no record.  The records are the first ones       *)
(* appended, in order, so their number is all that is kept of them.        *)
(*                                                                         *)
(* A write and the flush after it fail together (disk full).  The bytes of *)
(* a JSON line or a datagram then wait in Python's buffer for the next     *)
(* flush; a frame is larger than that buffer and stays torn for good.      *)
(* The health events are the drops of the two lossy workers, which share   *)
(* one counter and no lock; each other event has a counter and a thread of *)
(* its own.                                                                *)
(*                                                                         *)
(* The directory entries of the data files are taken to reach the disk     *)
(* before that of the manifest, as a journal keeps them.                   *)
(***************************************************************************)
EXTENDS Integers, Sequences

CONSTANTS MaxAppends,   \* bound: append calls and health events
          MaxFailures,  \* bound: file operations that fail
          MaxCrashes    \* bound: crashes

ASSUME BoundsAssumption == {MaxAppends, MaxFailures, MaxCrashes} \subseteq Nat

Files == {"frames", "controller", "binary", "sidecar", "health"}
Tails == {"clean", "short", "garbage"}
Workers == {"camera", "controller"}

VARIABLES
  phase,     \* "recording", "finalizing", "closing", "ended": the process;
             \* "down", "recovering", "recovered", "refused": after it
  step,      \* the next step of finalize(), close() or recover_session()
  failed,    \* run() has met an exception
  closed,    \* SessionRecorder._closed
  open,      \* files whose handle is open
  closes,    \* calls of close() that did any work
  half,      \* append_telemetry is between its two writes
  health,    \* HealthCounters.dropped
  noted,     \* what each worker has read of it, in _health_event
  file,      \* what each file holds
  manifest,  \* "none", "temporary", "renamed", or "durable"
  sums,      \* records of each file when it was hashed
  total,     \* the health counter written to the manifest
  acked,     \* history: appends that returned, of each file
  overlapped, \* history: two workers have been in _health_event at a time
  powerLost, \* history: the machine itself has crashed
  appends, failures, crashes  \* the bounded counters

counters == <<health, noted, overlapped>>
recorder == <<failed, closed, open, closes, half, counters>>
document == <<manifest, sums, total>>
history == <<acked, powerLost, appends, failures, crashes>>
vars == <<phase, step, recorder, file, document, history>>

None == -1

Init == /\ phase = "recording"
        /\ step = 1
        /\ failed = FALSE
        /\ closed = FALSE
        /\ open = Files
        /\ closes = 0
        /\ half = FALSE
        /\ health = 0
        /\ noted = [w \in Workers |-> None]
        /\ overlapped = FALSE
        /\ file = [f \in Files |->
                     [good |-> 0,      \* readable records
                      synced |-> 0,    \* how many of them are on disk
                      buffered |-> 0,  \* records waiting in Python's buffer
                      tail |-> "clean"]]
        /\ manifest = "none"
        /\ sums = [f \in Files |-> 0]
        /\ total = 0
        /\ acked = [f \in Files |-> 0]
        /\ powerLost = FALSE
        /\ appends = 0
        /\ failures = 0
        /\ crashes = 0

-----------------------------------------------------------------------------
(* Appending. *)

\* Behind a torn frame nothing is readable.
Torn(x) == x.tail # "clean" /\ x.buffered = 0

\* Wrong: the record stays in the buffer.
FlushForgotten(x, n) == [x EXCEPT !.buffered = @ + n]

\* n records more are written, and everything buffered is flushed.
Flushed(x, n) ==
  IF Torn(x)
    THEN [x EXCEPT !.tail = IF n = 0 THEN @ ELSE "garbage"]
    ELSE [x EXCEPT !.good = @ + x.buffered + n, !.buffered = 0,
                    !.tail = "clean"]

\* What a write that fails may leave behind.
HalfWritten(f) ==
  LET x == file[f]
      cut == [x EXCEPT !.tail = IF Torn(x) THEN "garbage" ELSE "short"]
  IN  IF f = "frames"
        THEN {x, cut}
        ELSE {[y EXCEPT !.buffered = @ + 1] : y \in {x, cut}}

Written(f) == /\ file' = [file EXCEPT ![f] = Flushed(@, 1)]
              /\ acked' = [acked EXCEPT ![f] = @ + 1]
              /\ UNCHANGED failures

WriteFails(f) == /\ failures < MaxFailures
                 /\ failures' = failures + 1
                 /\ \E x \in HalfWritten(f) : file' = [file EXCEPT ![f] = x]
                 /\ UNCHANGED acked

\* An append that raises is a fault of run(); its final drain appends on.
Append1(f) == \/ Written(f) /\ UNCHANGED failed
              \/ WriteFails(f) /\ failed' = TRUE

Begin == /\ phase = "recording"
         /\ ~half
         /\ appends < MaxAppends
         /\ appends' = appends + 1

\* append_frame and append_controller
AppendOne(f) == /\ f \in {"frames", "controller"}
                /\ Begin
                /\ Append1(f)
                /\ UNCHANGED <<phase, step, closed, open, closes, half,
                               counters, document, powerLost, crashes>>

\* Wrong: the JSON line first.
SidecarFirst == <<"sidecar", "binary">>

\* append_telemetry writes the datagram, then its JSON line.
TelemetryOrder == <<"binary", "sidecar">>

AppendTelemetry == /\ Begin
                   /\ Append1(TelemetryOrder[1])
                   /\ half' = (acked' # acked)
                   /\ UNCHANGED <<phase, step, closed, open, closes, counters,
                                  document, powerLost, crashes>>

AppendSidecar == /\ phase = "recording"
                 /\ half
                 /\ Append1(TelemetryOrder[2])
                 /\ half' = FALSE
                 /\ UNCHANGED <<phase, step, closed, open, closes, counters,
                                document, powerLost, appends, crashes>>

Counting(w) == noted[w] # None

\* _health_event of a worker reads the counter,
ReadCounter(w) ==
  /\ phase = "recording"
  /\ ~Counting(w)
  /\ appends < MaxAppends
  /\ appends' = appends + 1
  /\ noted' = [noted EXCEPT ![w] = health]
  /\ overlapped' = (overlapped \/ \E v \in Workers : Counting(v))
  /\ UNCHANGED <<phase, step, failed, closed, open, closes, half, health, file,
                 document, acked, powerLost, failures, crashes>>

\* Wrong: the counter is incremented after the line is written.
CountedLate(w) == IF acked' = acked THEN health ELSE noted[w] + 1

CountedFirst(w) == noted[w] + 1

\* writes it back incremented, whatever it is by then, and appends the line.  An
\* exception is a fault, but for a worker that finds the session stopped.
HealthEvent(w) ==
  /\ phase = "recording"
  /\ Counting(w)
  /\ \/ Written("health") /\ UNCHANGED failed
     \/ WriteFails("health") /\ failed' \in {failed, TRUE}
  /\ health' = CountedFirst(w)
  /\ noted' = [noted EXCEPT ![w] = None]
  /\ UNCHANGED <<phase, step, closed, open, closes, half, overlapped, document,
                 powerLost, appends, crashes>>

-----------------------------------------------------------------------------
(* finalize() and close(). *)

CloseOrder == <<"frames", "controller", "sidecar", "health", "binary">>

\* Wrong: a session that met an exception is finalized all the same.
FaultIgnored == FALSE

Faulted == failed

\* run() has drained the queues: without a fault, and then the workers have
\* ended, it finalizes the session.
EndRecording == /\ phase = "recording"
                /\ ~half
                /\ Faulted \/ \A w \in Workers : ~Counting(w)
                /\ phase' = IF Faulted THEN "closing" ELSE "finalizing"
                /\ closes' = IF Faulted THEN 1 ELSE 0
                /\ UNCHANGED <<step, failed, closed, open, half, counters, file,
                               document, history>>

\* Wrong: close() without fsync.
NotSynced(x) == Flushed(x, 0)

\* What flush and fsync make of a file.
Synced(x) == LET y == Flushed(x, 0) IN [y EXCEPT !.synced = y.good]

Closing == phase \in {"finalizing", "closing"} /\ step <= Len(CloseOrder)
Current == CloseOrder[step]

\* The two binary writers may be closed twice.
Reclosable == {"frames", "binary"}

CloseFile == /\ Closing
             /\ Current \in open \cup Reclosable
             /\ open' = open \ {Current}
             /\ file' = IF Current \in open
                          THEN [file EXCEPT ![Current] = Synced(@)] ELSE file
             /\ step' = step + 1
             /\ UNCHANGED <<phase, failed, closed, closes, half, counters,
                            document, history>>

\* An exception ends finalize(), and run() calls close(); it ends close(), and
\* the command line calls that once more.
Unwind == /\ failed' = TRUE
          /\ step' = 1
          /\ closes' = IF closes < 2 THEN closes + 1 ELSE closes
          /\ phase' = IF closes < 2 THEN "closing" ELSE "ended"

\* flush or fsync fails: the handle stays open.
CloseFails == /\ Closing
              /\ Current \in open
              /\ failures < MaxFailures
              /\ failures' = failures + 1
              /\ Unwind
              /\ UNCHANGED <<closed, open, half, counters, file, document,
                             acked, powerLost, appends, crashes>>

\* _fsync of a JSON file that is closed already raises ValueError.
CloseTwice == /\ Closing
              /\ Current \notin open \cup Reclosable
              /\ Unwind
              /\ UNCHANGED <<closed, open, half, counters, file, document,
                             history>>

\* The last line of close()
EndClose == /\ phase = "closing"
            /\ step > Len(CloseOrder)
            /\ closed' = TRUE
            /\ phase' = "ended"
            /\ UNCHANGED <<step, failed, open, closes, half, counters, file,
                           document, history>>

Publishing(n) == phase = "finalizing" /\ step = Len(CloseOrder) + n

\* The files are hashed and manifest.json.tmp is written and synced.
WriteManifest == /\ Publishing(1)
                 /\ sums' = [f \in Files |-> file[f].good]
                 /\ total' = health
                 /\ manifest' = "temporary"
                 /\ step' = step + 1
                 /\ UNCHANGED <<phase, recorder, file, history>>

\* os.replace
Rename == /\ Publishing(2)
          /\ manifest' = "renamed"
          /\ step' = step + 1
          /\ UNCHANGED <<phase, recorder, file, sums, total, history>>

\* The directory is synced, where the system can (OSError is ignored).
EndFinalize == /\ Publishing(3)
               /\ manifest' \in {"renamed", "durable"}
               /\ closed' = TRUE
               /\ phase' = "ended"
               /\ UNCHANGED <<step, failed, open, closes, half, counters, file,
                              sums, total, history>>

\* An exception (OSError, KeyboardInterrupt) between two of these steps.
PublishFails == /\ Publishing(1) \/ Publishing(2) \/ Publishing(3)
                /\ failures < MaxFailures
                /\ failures' = failures + 1
                /\ Unwind
                /\ UNCHANGED <<closed, open, half, counters, file, document,
                               acked, powerLost, appends, crashes>>

-----------------------------------------------------------------------------
(* Crashes, and recover_session. *)

Running == phase \in {"recording", "finalizing", "closing", "ended"}

Down == /\ phase' = "down"
        /\ step' = 1
        /\ open' = {}
        /\ half' = FALSE
        /\ UNCHANGED <<failed, closed, closes, counters, sums, total, acked,
                       appends, failures>>

\* The process is killed or exits: what Python had buffered is lost, and one
\* record may be cut short in its file.
Kill == /\ Running \/ phase = "recovering"
        /\ crashes < MaxCrashes
        /\ crashes' = crashes + 1
        /\ \E cut \in SUBSET open :
             /\ \A f, g \in cut : f = g
             /\ file' = [f \in Files |->
                  [file[f] EXCEPT
                     !.buffered = 0,
                     !.tail = IF f \in cut /\ @ = "clean" THEN "short" ELSE @]]
        /\ Down
        /\ UNCHANGED <<manifest, powerLost>>

\* What the disk may hold of a file after a power loss: everything synced, and
\* of the rest a prefix followed by anything.
Survivals(x) ==
  {[good |-> n, synced |-> n, buffered |-> 0, tail |-> t] :
     n \in x.synced..x.good, t \in Tails}
  \ (IF x.synced = x.good /\ x.tail = "clean" /\ x.buffered = 0
       THEN {[good |-> x.good, synced |-> x.good, buffered |-> 0, tail |-> t] :
               t \in {"short", "garbage"}}
       ELSE {})

PowerLoss == /\ Running
             /\ crashes < MaxCrashes
             /\ crashes' = crashes + 1
             /\ \E frames \in Survivals(file["frames"]),
                   controller \in Survivals(file["controller"]),
                   binary \in Survivals(file["binary"]),
                   sidecar \in Survivals(file["sidecar"]),
                   events \in Survivals(file["health"]) :
                  file' = [frames |-> frames, controller |-> controller,
                           binary |-> binary, sidecar |-> sidecar,
                           health |-> events]
             /\ manifest' \in {manifest,
                               IF manifest = "renamed" THEN "temporary"
                                                       ELSE manifest}
             /\ powerLost' = TRUE
             /\ Down

\* Wrong: health.jsonl is not recovered.
RecoverFour == <<"frames", "controller", "sidecar", "binary">>

RecoverOrder == <<"frames", "controller", "sidecar", "binary", "health">>

Recovers == phase \in {"down", "recovering"} /\ step <= Len(RecoverOrder)

\* The next file is cut back to its readable records.
RecoverFile == /\ Recovers
               /\ file' = [file EXCEPT ![RecoverOrder[step]].tail = "clean"]
               /\ step' = step + 1
               /\ phase' = IF step = Len(RecoverOrder) THEN "recovered"
                                                       ELSE "recovering"
               /\ UNCHANGED <<recorder, document, history>>

\* read_frame_chunks cuts a short record and one with a wrong checksum, but it
\* raises for one without marker or with a time that goes back.
RecoverRaises == /\ Recovers
                 /\ RecoverOrder[step] = "frames"
                 /\ file["frames"].tail = "garbage"
                 /\ phase' = "refused"
                 /\ UNCHANGED <<step, recorder, file, document, history>>

-----------------------------------------------------------------------------
Record == AppendOne("frames") \/ AppendOne("controller") \/ AppendTelemetry
            \/ AppendSidecar
            \/ \E w \in Workers : ReadCounter(w) \/ HealthEvent(w)
End == EndRecording \/ CloseFile \/ CloseFails \/ CloseTwice \/ EndClose
Publish == WriteManifest \/ Rename \/ EndFinalize \/ PublishFails
Recover == RecoverFile \/ RecoverRaises

\* The recording has ended, and its files have been recovered if need be.
Terminated == phase \in {"ended", "recovered", "refused"} /\ UNCHANGED vars

Next == Record \/ End \/ Publish \/ Kill \/ PowerLoss \/ Recover \/ Terminated

Spec == Init /\ [][Next]_vars

-----------------------------------------------------------------------------
(* Properties. *)

Sealed == manifest \in {"renamed", "durable"}

\* validate_manifest: every file is there with its checksum.  (A manifest that
\* was renamed is whole, and the identity in it is the session's own.)
Valid == /\ Sealed
         /\ \A f \in Files : file[f].good = sums[f] /\ file[f].tail = "clean"

\* "Publish a manifest only after final fsync": whatever crashes, a session
\* with a manifest is found valid, and has all that was appended.
ManifestTrue == Sealed => Valid /\ \A f \in Files : sums[f] >= acked[f]

\* A counter that two workers may have incremented at a time is never ahead of
\* the lines, and never silent about them; it is exact if none overlapped.
Accounts(counted, lines) == /\ counted <= lines
                            /\ lines > 0 => counted > 0
                            /\ ~overlapped => counted = lines

\* In a session with a manifest the streams written separately agree: the JSON
\* sidecar has a line for every datagram of the binary stream and no other, and
\* the health counter accounts for the lines in health.jsonl, also when writing
\* a line failed and no fault was noted.
StreamsAgree == Sealed => /\ sums["sidecar"] = sums["binary"]
                          /\ Accounts(total, sums["health"])

\* A kill of the process loses no record whose append has returned, although
\* nothing is synced while recording.
KillLosesNothing ==
  ~failed /\ ~powerLost => \A f \in Files : file[f].good >= acked[f]

\* As long as only the process is killed, the recovered sidecar misses at most
\* the line of the last datagram, and never has one the binary stream has not.
SidecarBehindBinary ==
  ~failed /\ ~powerLost =>
    file["binary"].good - file["sidecar"].good \in 0..1

\* When recover_session returns every stream is readable to its end, although
\* each one is left by the crash in a state of its own.
RecoveredReadable ==
  phase = "recovered" => \A f \in Files : file[f].tail = "clean"

\* "Recover complete tails from every stream" (recording.py:635): also a call
\* that raises over one stream has recovered the others.
RecoversEveryStream ==
  phase \in {"recovered", "refused"} =>
    \A f \in Files \ {"frames"} : file[f].tail = "clean"
=============================================================================
