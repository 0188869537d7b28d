----------------------- MODULE StreamingSessionAdapter -----------------------
(***************************************************************************)
(* dataset/session.py: validate() reads the telemetry of a session and     *)
(* splits it into race segments, keeps the substantial ones, then reads    *)
(* the frames and aligns each one with the nearest telemetry packet and    *)
(* controller sample, all three files in one sweep.                        *)
(*                                                                         *)
(* Times are session times, in any unit.  Of a packet only its time, the   *)
(* race flag, and whether the game's clock jumped or went back since the   *)
(* packet before it are kept.  Laps and statistics are left out: the lap   *)
(* machine of a segment is LapStateMachine, its tracker                    *)
(* TimestampContinuity.                                                    *)
(***************************************************************************)
EXTENDS Integers, Sequences, FiniteSets, SequencesExt

CONSTANTS Align,            \* max_alignment_ns
          MinPercent,       \* _MIN_RACE_SEGMENT_FRACTION
          TolerancePercent, \* MAX_MISALIGNED_FRACTION
          MaxSegments,      \* _MAX_RACE_SEGMENTS
          MaxTime,          \* bound: times
          MaxPackets,       \* bound: telemetry packets
          MaxSamples,       \* bound: controller samples
          MaxFrames         \* bound: frames

ASSUME ParametersAssumption ==
  {Align, MinPercent, TolerancePercent, MaxSegments, MaxTime, MaxPackets,
   MaxSamples, MaxFrames} \subseteq Nat

VARIABLES
  phase,    \* "telemetry", "frames", "done", or "error"
  packets,  \* the packets read so far
  active,   \* the segment that is open, or NoSegment
  segments, \* raw_race_segments
  samples,  \* the times of the controller samples
  damaged,  \* the first controller record that is malformed, or NoMatch
  tread,    \* the telemetry cursor: the index of its previous packet
  cread,    \* the controller cursor
  frames    \* the frames read so far, with what became of them

streams == <<packets, samples, damaged>>
vars == <<phase, streams, active, segments, tread, cread, frames>>

Times == 0..MaxTime
Packet == [at: Times, on: BOOLEAN, gap: BOOLEAN]
NoSegment == [start |-> -1, gaps |-> 0]
NoMatch == 0

Init == /\ phase = "telemetry"
        /\ packets = <<>>
        /\ active = NoSegment
        /\ segments = <<>>
        /\ samples = <<>>
        /\ damaged = NoMatch
        /\ tread = 0 /\ cread = 0
        /\ frames = <<>>

-----------------------------------------------------------------------------
(* The first pass: race segments. *)

\* finish_race_segment
FinishSegment(end) ==
  IF active = NoSegment
    THEN UNCHANGED <<phase, active, segments>>
    ELSE IF Len(segments) >= MaxSegments
      THEN phase' = "error" /\ UNCHANGED <<active, segments>>
      ELSE /\ segments' = Append(segments, [start |-> active.start, end |-> end,
                                            gaps |-> active.gaps])
           /\ active' = NoSegment
           /\ UNCHANGED phase

\* Wrong: the tracker of the segment before carries on.
TrackerKept(p) == [start |-> p.at, gaps |-> IF p.gap THEN 1 ELSE 0]

\* A new segment has a tracker of its own, which has no baseline yet.
NewSegment(p) == [start |-> p.at, gaps |-> 0]

\* telemetry_seen
TelemetrySeen(p) ==
  IF ~p.on
    THEN FinishSegment(p.at)
    ELSE /\ active' = IF active = NoSegment
                        THEN NewSegment(p)
                        ELSE [active EXCEPT !.gaps = IF p.gap THEN @ + 1 ELSE @]
         /\ UNCHANGED <<phase, segments>>

\* The next packet of telemetry.jsonl: session times do not decrease.
ReadPacket ==
  /\ phase = "telemetry"
  /\ Len(packets) < MaxPackets
  /\ \E p \in Packet :
       /\ packets # <<>> => p.at >= packets[Len(packets)].at
       /\ p.gap => p.on
       /\ packets' = Append(packets, p)
       /\ TelemetrySeen(p)
  /\ UNCHANGED <<samples, damaged, tread, cread, frames>>

\* A record that raises: one that is malformed, or not that of the binary
\* file, or without a counterpart there, or with a clock that goes back.
RejectPacket == /\ phase = "telemetry"
                /\ phase' = "error"
                /\ UNCHANGED <<streams, active, segments, tread, cread, frames>>

\* Wrong: the open segment takes in one time too many.
TailIncluded(last) == last + Align + 2

OpenEnd(last) == last + Align + 1

Sorted(n) == {s \in UNION {[1..k -> Times] : k \in 0..n} :
                \A i \in 2..Len(s) : s[i - 1] <= s[i]}

\* The end of the telemetry closes the open segment; the other files follow.
EndOfTelemetry ==
  /\ phase = "telemetry"
  /\ \/ /\ active # NoSegment /\ Len(segments) >= MaxSegments
        /\ phase' = "error"
        /\ UNCHANGED <<active, segments, samples, damaged>>
     \/ /\ active = NoSegment \/ Len(segments) < MaxSegments
        /\ phase' = "frames"
        /\ samples' \in Sorted(MaxSamples)
        /\ damaged' \in {NoMatch} \cup DOMAIN samples'
        /\ active' = NoSegment
        /\ segments' = IF active = NoSegment
                         THEN segments
                         ELSE Append(segments,
                                [start |-> active.start,
                                 end |-> OpenEnd(packets[Len(packets)].at),
                                 gaps |-> active.gaps])
  /\ UNCHANGED <<packets, tread, cread, frames>>

Span == IF packets = <<>> THEN 0 ELSE packets[Len(packets)].at - packets[1].at

Substantial(s) == s.end - s.start >= (Span * MinPercent) \div 100

\* selected_race_segments
Selected == {segments[i] : i \in {j \in DOMAIN segments : Substantial(segments[j])}}

-----------------------------------------------------------------------------
(* The second pass: alignment. *)

PacketTimes == [i \in DOMAIN packets |-> packets[i].at]

\* _NearestCursor moves on while its current value is not after the target.
Advanced(times, read, target) ==
  CHOOSE n \in read..Len(times) :
    /\ \A i \in read + 1..n : times[i] <= target
    /\ n < Len(times) => times[n + 1] > target

Distance(a, b) == IF a < b THEN b - a ELSE a - b

\* Wrong: the value after the target is not considered.
PreviousOnly(times, read, target) == read

\* The nearer one of the previous and the current value, the earlier if both
\* are as near.
Nearest(times, read, target) ==
  CASE read = 0 /\ times = <<>> -> NoMatch
    [] read = 0 /\ times # <<>> -> 1
    [] read = Len(times) /\ times # <<>> -> read
    [] OTHER -> IF Distance(times[read + 1], target) < Distance(times[read], target)
                  THEN read + 1 ELSE read

\* Wrong: frames just before the first packet of a segment are left out.
InSegmentProper(at, s) == at >= s.start /\ at < s.end

InSegment(at, s) == at + Align >= s.start /\ at < s.end

Verdict(at, t, c) ==
  IF \A s \in Selected : ~InSegment(at, s)
    THEN "excluded"
    ELSE IF /\ t # NoMatch /\ c # NoMatch
            /\ Distance(samples[c], at) <= Align
            /\ Distance(packets[t].at, at) <= Align
            /\ packets[t].on
           THEN "aligned" ELSE "rejected"

\* The controller cursor is one record ahead of the previous one.
Met(read) == damaged # NoMatch /\ damaged <= read + 1

\* One round of _aligned_pass and of the loop of validate().
ReadFrame ==
  /\ phase = "frames"
  /\ Len(frames) < MaxFrames
  /\ \E at \in Times :
       /\ frames # <<>> => at >= frames[Len(frames)].at
       /\ tread' = Advanced(PacketTimes, tread, at)
       /\ cread' = Advanced(samples, cread, at)
       /\ LET t == Nearest(PacketTimes, tread', at)
              c == Nearest(samples, cread', at)
          IN  IF Met(cread')
                THEN phase' = "error" /\ UNCHANGED frames
                ELSE /\ frames' = Append(frames,
                          [at |-> at, telemetry |-> t, sample |-> c,
                           verdict |-> Verdict(at, t, c)])
                     /\ UNCHANGED phase
  /\ UNCHANGED <<streams, active, segments>>

\* A frame that raises: torn, no JPEG, or with a clock that goes back.
RejectFrame == /\ phase = "frames"
               /\ phase' = "error"
               /\ UNCHANGED <<streams, active, segments, tread, cread, frames>>

\* Wrong: what lies behind the cursor is not read.
ReadSoFar == Met(cread)

\* drain(): also what no frame needed is read.
ReadToTheEnd == damaged # NoMatch

EndOfFrames == /\ phase = "frames"
               /\ phase' = IF ReadToTheEnd THEN "error" ELSE "done"
               /\ UNCHANGED <<streams, active, segments, tread, cread, frames>>

\* continuity_diagnostics, of the selected segments
Gaps ==
  LET counted(s) == IF Substantial(s) THEN s.gaps ELSE 0
      total[i \in 0..Len(segments)] ==
        IF i = 0 THEN 0 ELSE total[i - 1] + counted(segments[i])
  IN  total[Len(segments)]

Having(verdict) == Cardinality({i \in DOMAIN frames : frames[i].verdict = verdict})

\* No reason is found to reject the session.
Accepted == /\ Selected # {}
            /\ Having("aligned") > 0
            /\ 100 * Having("rejected")
                 <= TolerancePercent * (Having("aligned") + Having("rejected"))
            /\ Gaps = 0

\* validate() has returned, or raised.
Terminated == phase \in {"done", "error"} /\ UNCHANGED vars

Next == \/ ReadPacket \/ RejectPacket \/ EndOfTelemetry
        \/ ReadFrame \/ RejectFrame \/ EndOfFrames
        \/ Terminated

Spec == Init /\ [][Next]_vars

-----------------------------------------------------------------------------
(* Properties. *)

Read == phase \in {"frames", "done"}

\* The number of the run of race packets to which packet k belongs.
Run(k) == Cardinality({j \in 1..k : packets[j].on /\ (j > 1 => ~packets[j - 1].on)})

RaceOn(k) == k # NoMatch /\ packets[k].on /\ Substantial(segments[Run(k)])

\* The streaming cursors, which look one record ahead, match every frame as
\* align_nearest would with all records at hand: none is nearer, and of two
\* that are as near the match is not the later one.
NearestIsClosest ==
  LET closest(times, m, at) ==
        \A k \in DOMAIN times :
          /\ m # NoMatch
          /\ Distance(times[m], at) <= Distance(times[k], at)
          /\ Distance(times[m], at) = Distance(times[k], at) => times[m] <= times[k]
  IN  \A i \in DOMAIN frames :
        /\ closest(PacketTimes, frames[i].telemetry, frames[i].at)
        /\ closest(samples, frames[i].sample, frames[i].at)

\* A frame whose nearest packet is of a substantial race segment and, like its
\* controller sample, within the alignment bound is in the dataset, whatever
\* the segments around it: none is lost at the start or the end of a segment.
NoRaceFrameLost ==
  \A i \in DOMAIN frames :
    LET f == frames[i]
    IN  /\ RaceOn(f.telemetry)
        /\ Distance(packets[f.telemetry].at, f.at) <= Align
        /\ f.sample # NoMatch
        /\ Distance(samples[f.sample], f.at) <= Align
        => f.verdict = "aligned"

\* "Open race segments end at the last telemetry timestamp plus the alignment
\* allowance" (project_diary.md:31): a frame after it neither enters the dataset
\* nor counts as a failed alignment.
TailsExcluded ==
  \A i \in DOMAIN frames :
    frames[i].verdict # "excluded" => frames[i].at <= packets[Len(packets)].at + Align

\* Only the gaps between two packets of one substantial segment are held against
\* the session: not those over a pause, and not those of a transient.
GapsOfRaceOnly ==
  Read => Gaps = Cardinality({k \in 2..Len(packets) :
                                packets[k].gap /\ packets[k - 1].on /\ RaceOn(k)})

\* A session is not accepted with a stream that is damaged anywhere, behind the
\* last record that any frame needed included.
DamageFound == phase = "done" => damaged = NoMatch

\* README.md:93 and latest_session_work.md:13: validation "excludes short
\* transients": no frame of an accepted session is in the dataset with a packet
\* of a transient.
TransientsExcluded ==
  phase = "done" /\ Accepted =>
    \A i \in DOMAIN frames :
      frames[i].verdict = "aligned" => RaceOn(frames[i].telemetry)
=============================================================================
