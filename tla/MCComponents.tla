---------------------------- MODULE MCComponents ----------------------------
(***************************************************************************)
(* The parts of the system that meet none of the others while they work,   *)
(* checked together: a behaviour is one of the part that `which` names, and*)
(* the other parts stay as they began.                                     *)
(***************************************************************************)
EXTENDS TimestampContinuity, TLC

CONSTANTS
  Neutral, Controls, Reasons, Blank,
  FileRecords, FileBytes, FileTime, FileAppends,
  Callers, MaxFrames, MaxFailures,
  ReplayTime, ReplayRecords,
  LapModulus, MaxLap, MaxRace, GameSteps, MaxFalls, LapPackets

ASSUME BoundsAssumption ==
         /\ {FileRecords, FileBytes, FileTime, FileAppends} \subseteq Nat
         /\ {MaxFrames, MaxFailures, ReplayTime, ReplayRecords} \subseteq Nat

\* The value of `holder` when no thread holds the lock is not a thread.
ASSUME CallersAssumption == "none" \notin Callers

\* The threads differ in nothing but what they call.
CallerSymmetry == Permutations(Callers)

VARIABLES
  which,  \* the part at work
  arming, output, backendClosed, supervisorCall,
  header, disk, torn, durable, writer, buffer, count, latest, calls, acked,
  stage, frames, late, holder, call, pc, written, buffered, cut, openFrames,
  openRest, recorderClosed, hashed, sealed, failures,
  session, read, heap, todo, out, ended,
  connected, pressed, phase, requested, slot, found, armed, always, ever, moved,
  active, boundarySeen, lap, lapStart, lapStartRace, game, race, candidates,
  lapPackets

supervisorVars == <<arming, output, backendClosed, supervisorCall>>
fileVars == <<header, disk, torn, durable, writer, buffer, count, latest, calls,
              acked>>
lifecycleVars == <<stage, frames, late, holder, call, pc, written, buffered,
                   cut, openFrames, openRest, recorderClosed, hashed, sealed,
                   failures>>
replayVars == <<session, read, heap, todo, out, ended>>
selectionVars == <<connected, pressed, phase, requested, slot, found, armed,
                   always, ever, moved>>
lapVars == <<active, boundarySeen, lap, lapStart, lapStartRace, game, race,
             candidates, lapPackets>>
continuityVars == vars

Supervisor == INSTANCE SafetySupervisor
                WITH state <- arming, last <- output, closed <- backendClosed,
                     call <- supervisorCall

File == INSTANCE CaptureFile
          WITH MaxRecords <- FileRecords, MaxBytes <- FileBytes,
               MaxTime <- FileTime, MaxAppends <- FileAppends, last <- latest

Lifecycle == INSTANCE SessionLifecycle
               WITH state <- stage, closed <- recorderClosed, torn <- cut

Replay == INSTANCE SessionReplay
            WITH MaxTime <- ReplayTime, MaxRecords <- ReplayRecords

Selection == INSTANCE ControllerSelection

Laps == INSTANCE LapStateMachine
          WITH Modulus <- LapModulus, MaxPackets <- LapPackets,
               packets <- lapPackets

ASSUME LapConstants == Laps!LapAssumption

PartsInit == /\ which \in {"continuity", "supervisor", "file", "lifecycle",
                           "replay", "selection", "laps"}
             /\ Init
             /\ Supervisor!Init
             /\ File!Init
             /\ Lifecycle!Init
             /\ Replay!Init
             /\ Selection!Init
             /\ Laps!Init

ContinuityStep ==
  /\ which = "continuity"
  /\ Next
  /\ UNCHANGED <<which, supervisorVars, fileVars, lifecycleVars, replayVars,
                 selectionVars, lapVars>>

SupervisorStep ==
  /\ which = "supervisor"
  /\ Supervisor!Next
  /\ UNCHANGED <<which, continuityVars, fileVars, lifecycleVars, replayVars,
                 selectionVars, lapVars>>

FileStep ==
  /\ which = "file"
  /\ File!Next
  /\ UNCHANGED <<which, continuityVars, supervisorVars, lifecycleVars,
                 replayVars, selectionVars, lapVars>>

LifecycleStep ==
  /\ which = "lifecycle"
  /\ Lifecycle!Next
  /\ UNCHANGED <<which, continuityVars, supervisorVars, fileVars, replayVars,
                 selectionVars, lapVars>>

ReplayStep ==
  /\ which = "replay"
  /\ Replay!Next
  /\ UNCHANGED <<which, continuityVars, supervisorVars, fileVars, lifecycleVars,
                 selectionVars, lapVars>>

SelectionStep ==
  /\ which = "selection"
  /\ Selection!Next
  /\ UNCHANGED <<which, continuityVars, supervisorVars, fileVars, lifecycleVars,
                 replayVars, lapVars>>

LapStep ==
  /\ which = "laps"
  /\ Laps!Next
  /\ UNCHANGED <<which, continuityVars, supervisorVars, fileVars, lifecycleVars,
                 replayVars, selectionVars>>

PartsNext == \/ ContinuityStep \/ SupervisorStep \/ FileStep
             \/ LifecycleStep \/ ReplayStep \/ SelectionStep
             \/ LapStep

PartsSpec == PartsInit /\ [][PartsNext]_<<which, continuityVars, supervisorVars,
                             fileVars, lifecycleVars, replayVars, selectionVars,
                             lapVars>>

-----------------------------------------------------------------------------
(* The properties, as the modules state them.                              *)

\* Controls are held only while the supervisor is armed.
NeutralUnlessArmed == Supervisor!NeutralUnlessArmed

\* An acknowledged datagram is never lost, doubled or moved.
AckedRecovered == File!AckedRecovered

\* max_bytes bounds the file, whatever fails.
BytesRespected == File!BytesRespected

\* A writer does not continue behind a torn record.
TornNeverExtended == File!TornNeverExtended

\* The strict reader accepts what the writer acknowledged.
ClosedReadable == File!ClosedReadable

\* max_frames, and the writes that failed, bound the frames of threads that
\* append together.
FramesBounded == Lifecycle!FramesBounded

\* A manifest vouches for the frames as they are and stay.
ManifestKept == Lifecycle!ManifestKept

\* A replay is the merge of the streams, and whole or refused.
ReplayFaithful == Replay!ReplayFaithful

\* The controller is chosen, and the start given, for a reason.
StartJustified == Selection!StartJustified

\* The candidates are the laps driven from one boundary through the next.
CandidatesAreWholeLaps == Laps!CandidatesAreWholeLaps
=============================================================================
