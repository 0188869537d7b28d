-------------------- MODULE StreamingSessionAdapterProofs --------------------
(* What the two passes of validate() guarantee for files of any length, any   *)
(* alignment bound and any limits.                                            *)
EXTENDS StreamingSessionAdapter, FiniteSetTheorems, SequenceTheorems,
        WellFoundedInduction, TLAPS

-----------------------------------------------------------------------------
(* The cursors.                                                              *)

Ordered(times) == \A i, j \in DOMAIN times : i <= j => times[i] <= times[j]

\* What the cursor has read is not after the target,
Behind(times, read, target) ==
  /\ read \in 0..Len(times)
  /\ \A i \in 1..read : times[i] <= target

\* and it has read all of that.
Reached(times, read, target) ==
  /\ Behind(times, read, target)
  /\ read < Len(times) => times[read + 1] > target

\* No value is nearer, and of two as near the match is not the later one.
Closest(times, match, target) ==
  \A k \in DOMAIN times :
    /\ match # NoMatch
    /\ Distance(times[match], target) <= Distance(times[k], target)
    /\ Distance(times[match], target) = Distance(times[k], target)
         => times[match] <= times[k]

LEMMA SmallestExists ==
  ASSUME NEW T, T \subseteq Nat, T # {}
  PROVE  \E x \in T : \A y \in T : x <= y
<1>1. IsWellFoundedOn(OpToRel(<, Nat), Nat)
  BY NatLessThanWellFounded
<1>2. PICK R : R = {ss \in Nat \X Nat : ss[1] < ss[2]}
  OBVIOUS
<1>3. R = OpToRel(<, Nat)
  BY <1>2 DEF OpToRel
<1>4. IsWellFoundedOn(R, Nat)
  BY <1>1, <1>3, Zenon
<1>5. PICK x \in T : \A y \in T : <<y, x>> \notin R
  BY <1>4, WFMin
<1>6. ASSUME NEW y \in T PROVE x <= y
  <2>1. <<y, x>> \notin R /\ x \in Nat /\ y \in Nat
    BY <1>5
  <2> QED
    BY <1>2, <2>1
<1> QED
  BY <1>6

\* A cursor that is behind the target reads on until it has reached it.
LEMMA AdvancedReaches ==
  ASSUME NEW times \in Seq(Nat), Ordered(times), NEW target \in Nat, NEW read,
         Behind(times, read, target)
  PROVE  Reached(times, Advanced(times, read, target), target)
<1> DEFINE Stops(n) == /\ \A i \in read + 1..n : times[i] <= target
                       /\ n < Len(times) => times[n + 1] > target
           T == {n \in read..Len(times) :
                   n < Len(times) => times[n + 1] > target}
<1>1. /\ Len(times) \in Nat /\ read \in 0..Len(times)
      /\ \A i \in 1..Len(times) : times[i] \in Nat
      /\ \A i \in 1..read : times[i] <= target
  BY DEF Behind
<1>2. PICK n \in T : \A y \in T : n <= y
  <2>1. T \subseteq Nat /\ Len(times) \in T
    BY <1>1
  <2> HIDE DEF T
  <2> QED
    BY <2>1, SmallestExists
<1>3. n \in read..Len(times) /\ Stops(n)
  <2>1. n \in read..Len(times) /\ (n < Len(times) => times[n + 1] > target)
    BY <1>2
  <2>2. ASSUME NEW i \in read + 1..n PROVE times[i] <= target
    <3>1. /\ i - 1 \in read..Len(times) /\ ~(n <= i - 1) /\ (i - 1) + 1 = i
          /\ i - 1 < Len(times) /\ i \in 1..Len(times)
      BY <1>1, <2>1, <2>2
    <3>2. i - 1 \notin T
      BY <1>2, <3>1
    <3>3. ~(times[i] > target)
      BY <3>1, <3>2
    <3> QED
      BY <1>1, <3>1, <3>3
  <2> QED
    BY <2>1, <2>2
<1> HIDE DEF T
<1>4. PICK a : a = Advanced(times, read, target)
  OBVIOUS
<1>5. a \in read..Len(times) /\ Stops(a)
  BY <1>3, <1>4 DEF Advanced
<1>6. a \in 0..Len(times)
  BY <1>1, <1>5
<1>7. ASSUME NEW i \in 1..a PROVE times[i] <= target
  BY <1>1, <1>5, <1>7
<1> HIDE DEF Stops
<1>8. a < Len(times) => times[a + 1] > target
  BY <1>5 DEF Stops
<1> QED
  BY <1>4, <1>6, <1>7, <1>8 DEF Reached, Behind

\* The cursor looks at no more than two values, and these are enough.
LEMMA NearestIsNear ==
  ASSUME NEW times \in Seq(Nat), Ordered(times), NEW target \in Nat, NEW read,
         Reached(times, read, target)
  PROVE  /\ Closest(times, Nearest(times, read, target), target)
         /\ IF times = <<>>
              THEN Nearest(times, read, target) = NoMatch
              ELSE /\ Nearest(times, read, target) \in 1..Len(times)
                   /\ Nearest(times, read, target) >= read
<1>1. /\ Len(times) \in Nat /\ read \in 0..Len(times)
      /\ DOMAIN times = 1..Len(times)
      /\ \A i \in 1..Len(times) : times[i] \in Nat
      /\ \A i \in 1..read : times[i] <= target
      /\ read < Len(times) => times[read + 1] > target
  BY DEF Reached, Behind
<1>2. \A i, j \in 1..Len(times) : i <= j => times[i] <= times[j]
  BY <1>1 DEF Ordered
<1>3. times # <<>> <=> Len(times) > 0
  BY <1>1, EmptySeq
<1>4. CASE times = <<>>
  <2>1. read = 0
    BY <1>1, <1>3, <1>4
  <2>2. Nearest(times, read, target) = NoMatch
    BY <1>4, <2>1, Zenon DEF Nearest
  <2> QED
    BY <1>1, <1>3, <1>4, <2>2 DEF Closest
<1> DEFINE m == Nearest(times, read, target)
<1>5. CASE times # <<>> /\ read = 0
  <2>1. m = 1
    BY <1>1, <1>3, <1>5 DEF Nearest
  <2>2. ASSUME NEW k \in 1..Len(times)
        PROVE  /\ Distance(times[1], target) <= Distance(times[k], target)
               /\ times[1] <= times[k]
    <3>1. times[1] <= times[k] /\ times[1] > target
          /\ times[1] \in Nat /\ times[k] \in Nat
      BY <1>1, <1>2, <1>3, <1>5, <2>2
    <3> QED
      BY <3>1 DEF Distance
  <2> QED
    BY <1>1, <1>3, <1>5, <2>1, <2>2 DEF Closest, NoMatch
<1>6. CASE times # <<>> /\ read = Len(times) /\ read > 0
  <2>1. m = read
    BY <1>1, <1>3, <1>6 DEF Nearest
  <2>2. ASSUME NEW k \in 1..Len(times)
        PROVE  /\ Distance(times[read], target) <= Distance(times[k], target)
               /\ Distance(times[read], target) = Distance(times[k], target)
                    => times[read] <= times[k]
    <3>1. times[k] <= times[read] /\ times[read] <= target
          /\ times[read] \in Nat /\ times[k] \in Nat
      BY <1>1, <1>2, <1>6, <2>2
    <3> QED
      BY <3>1 DEF Distance
  <2> QED
    BY <1>1, <1>6, <2>1, <2>2 DEF Closest, NoMatch
<1>7. CASE read > 0 /\ read < Len(times)
  <2>1. m = IF Distance(times[read + 1], target) < Distance(times[read], target)
              THEN read + 1 ELSE read
    BY <1>1, <1>3, <1>7 DEF Nearest
  <2>2. /\ read \in 1..Len(times) /\ read + 1 \in 1..Len(times)
        /\ times[read] \in Nat /\ times[read + 1] \in Nat
        /\ times[read] <= target /\ target < times[read + 1]
    BY <1>1, <1>7
  <2>3. m \in {read, read + 1}
    BY <2>1
  <2>4. ASSUME NEW k \in 1..Len(times)
        PROVE  /\ Distance(times[m], target) <= Distance(times[k], target)
               /\ Distance(times[m], target) = Distance(times[k], target)
                    => times[m] <= times[k]
    <3>1. /\ times[k] \in Nat
          /\ times[k] <= times[read] \/ times[k] >= times[read + 1]
      BY <1>1, <1>2, <2>2, <2>4
    <3>2. PICK a, b, c, d : /\ a = times[read] /\ b = times[read + 1]
                            /\ c = times[k] /\ d = times[m]
      OBVIOUS
    <3>3. d = IF Distance(b, target) < Distance(a, target) THEN b ELSE a
      BY <2>1, <3>2, Zenon
    <3> HIDE DEF m
    <3>4. /\ a \in Nat /\ b \in Nat /\ c \in Nat /\ target \in Nat
          /\ a <= target /\ target < b /\ (c <= a \/ c >= b)
      BY <2>2, <3>1, <3>2
    <3>5. /\ Distance(d, target) <= Distance(c, target)
          /\ Distance(d, target) = Distance(c, target) => d <= c
      <4>1. CASE Distance(b, target) < Distance(a, target)
        BY <3>3, <3>4, <4>1 DEF Distance
      <4>2. CASE ~(Distance(b, target) < Distance(a, target))
        BY <3>3, <3>4, <4>2 DEF Distance
      <4> QED
        BY <4>1, <4>2
    <3> QED
      BY <3>2, <3>5, Zenon
  <2> HIDE DEF m
  <2>5. m # NoMatch /\ m \in 1..Len(times) /\ m >= read
    BY <1>1, <1>7, <2>2, <2>3 DEF NoMatch
  <2>6. Closest(times, m, target)
    BY <1>1, <2>4, <2>5 DEF Closest
  <2> QED
    BY <2>5, <2>6 DEF m
<1>8. \/ times = <<>>
      \/ times # <<>> /\ read = 0
      \/ times # <<>> /\ read = Len(times) /\ read > 0
      \/ read > 0 /\ read < Len(times)
  <2>1. PICK n : n = Len(times)
    OBVIOUS
  <2>2. n \in Nat /\ read \in 0..n
    BY <1>1, <2>1
  <2>3. \/ read = 0
        \/ read = n /\ read > 0
        \/ read > 0 /\ read < n
    BY <2>2
  <2> QED
    BY <1>3, <2>1, <2>3, Zenon
<1> QED
  BY <1>4, <1>5, <1>6, <1>7, <1>8, Zenon

-----------------------------------------------------------------------------
(* The inductive invariant.                                                  *)

Newest == packets[Len(packets)].at

StreamsInv ==
  /\ packets \in Seq(Packet) /\ samples \in Seq(Times)
  /\ Ordered(PacketTimes) /\ Ordered(samples)

\* The run of packet k is a segment that a packet after it has closed, or the
\* one that is open.
ClosedRun(k) ==
  /\ Run(k) \in 1..Len(segments)
  /\ segments[Run(k)].start <= packets[k].at
  /\ \E m \in (k + 1)..Len(packets) : /\ ~packets[m].on
                                      /\ segments[Run(k)].end = packets[m].at

OpenRun(k) ==
  /\ active # NoSegment
  /\ Run(k) = Len(segments) + 1
  /\ active.start <= packets[k].at

\* The end of the telemetry has closed it.
EndedRun(k) ==
  /\ Run(k) \in 1..Len(segments)
  /\ segments[Run(k)].start <= packets[k].at
  /\ segments[Run(k)].end = OpenEnd(Newest)

RunsInv ==
  /\ active # NoSegment <=> packets # <<>> /\ packets[Len(packets)].on
  /\ packets = <<>> => segments = <<>>
  /\ packets # <<>> =>
       Run(Len(packets)) = Len(segments) + (IF active = NoSegment THEN 0 ELSE 1)
  /\ \A k \in DOMAIN packets : packets[k].on => ClosedRun(k) \/ OpenRun(k)

Segment == [start : Nat, end : Nat, gaps : Nat]
Opened == [start : Nat, gaps : Nat]

SegmentsInv ==
  /\ segments \in Seq(Segment)
  /\ active \in {NoSegment} \cup Opened
  /\ segments # <<>> => packets # <<>>
  /\ \A i \in DOMAIN segments : segments[i].end <= OpenEnd(Newest)
  /\ phase = "telemetry" => RunsInv
  /\ phase = "frames" =>
       \A k \in DOMAIN packets : packets[k].on => ClosedRun(k) \/ EndedRun(k)

CursorsInv ==
  /\ phase = "telemetry" => frames = <<>> /\ tread = 0 /\ cread = 0
  /\ phase = "frames" =>
       /\ tread \in 0..Len(packets) /\ cread \in 0..Len(samples)
       /\ frames = <<>> => tread = 0 /\ cread = 0
       /\ frames # <<>> =>
            /\ Behind(PacketTimes, tread, frames[Len(frames)].at)
            /\ Behind(samples, cread, frames[Len(frames)].at)

\* What holds of a frame that has been read.
Kept(f) == /\ RaceOn(f.telemetry)
           /\ Distance(packets[f.telemetry].at, f.at) <= Align
           /\ f.sample # NoMatch
           /\ Distance(samples[f.sample], f.at) <= Align
           => f.verdict = "aligned"

FrameInv(f) ==
  /\ f.at \in Times
  /\ Closest(PacketTimes, f.telemetry, f.at)
  /\ Closest(samples, f.sample, f.at)
  /\ Kept(f)
  /\ f.verdict # "excluded" => f.at <= Newest + Align

Frame == [at : Times, telemetry : Nat, sample : Nat,
          verdict : {"aligned", "rejected", "excluded"}]

FramesInv == /\ frames \in Seq(Frame)
             /\ \A i \in DOMAIN frames : FrameInv(frames[i])

AdapterInv == /\ StreamsInv
              /\ SegmentsInv
              /\ CursorsInv
              /\ FramesInv

-----------------------------------------------------------------------------
(* The first pass.                                                           *)

LEMMA Constants ==
  /\ Align \in Nat /\ MaxTime \in Nat /\ MaxSegments \in Nat
  /\ Times \subseteq Nat
BY ParametersAssumption DEF Times

LEMMA TimesAreNumbers ==
  ASSUME NEW s \in Seq(Times)
  PROVE  s \in Seq(Nat)
<1>1. PICK n : n = Len(s)
  OBVIOUS
<1>2. n \in Nat /\ s \in [1..n -> Times]
  BY <1>1
<1>3. s \in [1..n -> Nat]
  BY <1>2, Constants
<1> QED
  BY <1>2, <1>3

LEMMA PacketAppended ==
  ASSUME packets \in Seq(Packet), NEW p \in Packet,
         packets' = Append(packets, p), NEW n, n = Len(packets)
  PROVE  /\ packets' \in Seq(Packet) /\ packets' # <<>>
         /\ n \in Nat /\ Len(packets') = n + 1 /\ packets'[n + 1] = p
         /\ DOMAIN packets = 1..n /\ DOMAIN packets' = 1..(n + 1)
         /\ \A k \in 1..n : packets'[k] = packets[k] /\ packets[k] \in Packet
         /\ packets = <<>> <=> n = 0
<1>1. /\ packets' \in Seq(Packet)
      /\ Len(packets) \in Nat /\ Len(packets') = Len(packets) + 1
      /\ packets'[Len(packets) + 1] = p
      /\ DOMAIN packets = 1..Len(packets)
      /\ DOMAIN packets' = 1..(Len(packets) + 1)
      /\ \A k \in 1..Len(packets) :
           packets'[k] = packets[k] /\ packets[k] \in Packet
  OBVIOUS
<1>2. packets = <<>> <=> Len(packets) = 0
  BY EmptySeq
<1>3. packets' # <<>>
  BY <1>1
<1> QED
  BY <1>1, <1>2, <1>3, Zenon

\* Where a run begins.
Begins(j) == packets[j].on /\ (j > 1 => ~packets[j - 1].on)

LEMMA RunCounts ==
  ASSUME NEW k \in Nat
  PROVE  /\ Run(k) = Cardinality({j \in 1..k : Begins(j)})
         /\ IsFiniteSet({j \in 1..k : Begins(j)})
         /\ Run(k) \in Nat
<1>1. IsFiniteSet(1..k)
  <2>1. 1 \in Int /\ k \in Int
    OBVIOUS
  <2> QED
    BY <2>1, FS_Interval
<1>2. IsFiniteSet({j \in 1..k : Begins(j)})
  <2>1. {j \in 1..k : Begins(j)} \subseteq 1..k
    OBVIOUS
  <2> QED
    BY <1>1, <2>1, FS_Subset
<1>3. Run(k) = Cardinality({j \in 1..k : Begins(j)})
  BY Zenon DEF Run, Begins
<1> QED
  BY <1>2, <1>3, FS_CardinalityType

\* The number of a run does not change when another packet is read; the new
\* packet begins one or belongs to the last.
LEMMA RunAppended ==
  ASSUME packets \in Seq(Packet), NEW p \in Packet,
         packets' = Append(packets, p), NEW n, n = Len(packets)
  PROVE  /\ \A k \in 0..n : Run(k)' = Run(k)
         /\ Run(n + 1)' = IF p.on /\ (n > 0 => ~packets[n].on)
                            THEN Run(n) + 1 ELSE Run(n)
<1>1. /\ n \in Nat /\ packets'[n + 1] = p
      /\ \A k \in 1..n : packets'[k] = packets[k]
  BY PacketAppended
<1>2. ASSUME NEW j \in 1..n PROVE Begins(j)' <=> Begins(j)
  <2>1. packets'[j] = packets[j]
    BY <1>1, <1>2
  <2>2. j > 1 => packets'[j - 1] = packets[j - 1]
    <3>1. j > 1 => j - 1 \in 1..n
      BY <1>1, <1>2
    <3> QED
      BY <1>1, <3>1
  <2> QED
    BY <2>1, <2>2 DEF Begins
<1>3. Begins(n + 1)' <=> p.on /\ (n > 0 => ~packets[n].on)
  <2>1. (n + 1 > 1 <=> n > 0) /\ (n + 1) - 1 = n
    BY <1>1
  <2>2. n > 0 => packets'[n] = packets[n]
    <3>1. n > 0 => n \in 1..n
      BY <1>1
    <3> QED
      BY <1>1, <3>1
  <2> QED
    BY <1>1, <2>1, <2>2 DEF Begins
<1>4. ASSUME NEW k \in 0..n
      PROVE  {j \in 1..k : Begins(j)'} = {j \in 1..k : Begins(j)}
  <2>1. \A j \in 1..k : j \in 1..n
    BY <1>1, <1>4
  <2> QED
    BY <1>2, <2>1
<1>5. ASSUME NEW k \in Nat
      PROVE  Run(k)' = Cardinality({j \in 1..k : Begins(j)'})
  BY Zenon DEF Run, Begins
<1>6. ASSUME NEW k \in 0..n PROVE Run(k)' = Run(k)
  <2>1. k \in Nat
    BY <1>1, <1>6
  <2> QED
    BY <1>4, <1>5, <1>6, <2>1, RunCounts
<1>7. Run(n + 1)' = IF p.on /\ (n > 0 => ~packets[n].on)
                      THEN Run(n) + 1 ELSE Run(n)
  <2> DEFINE B == {j \in 1..n : Begins(j)}
             C == {j \in 1..(n + 1) : Begins(j)'}
  <2>1. Run(n) = Cardinality(B) /\ IsFiniteSet(B) /\ n \in 0..n
    BY <1>1, RunCounts
  <2>2. Run(n + 1)' = Cardinality(C)
    BY <1>1, <1>5
  <2>3. \A j \in 1..(n + 1) : j \in 1..n \/ j = n + 1
    BY <1>1
  <2>4. C = IF Begins(n + 1)' THEN B \cup {n + 1} ELSE B
    <3>1. n + 1 \in 1..(n + 1) /\ \A j \in 1..n : j \in 1..(n + 1)
      BY <1>1
    <3> QED
      BY <1>2, <2>3, <3>1
  <2>5. n + 1 \notin B
    BY <1>1
  <2> HIDE DEF B, C
  <2>6. Cardinality(B \cup {n + 1}) = Cardinality(B) + 1
    BY <2>1, <2>5, FS_AddElement
  <2> QED
    BY <1>3, <2>1, <2>2, <2>4, <2>6
<1> QED
  BY <1>6, <1>7

\* A run that is closed stays so.
LEMMA ClosedStays ==
  ASSUME packets \in Seq(Packet), NEW p \in Packet,
         packets' = Append(packets, p), segments \in Seq(Segment),
         segments' \in Seq(Segment), Len(segments) <= Len(segments'),
         \A i \in 1..Len(segments) : segments'[i] = segments[i],
         NEW k \in 1..Len(packets), ClosedRun(k)
  PROVE  ClosedRun(k)'
<1>1. PICK n : n = Len(packets)
  OBVIOUS
<1>2. /\ n \in Nat /\ Len(packets') = n + 1
      /\ \A j \in 1..n : packets'[j] = packets[j]
  BY <1>1, PacketAppended
<1>3. Run(k)' = Run(k) /\ packets'[k] = packets[k]
  <2>1. k \in 0..n /\ k \in 1..n
    BY <1>1, <1>2
  <2> QED
    BY <1>1, <1>2, <2>1, RunAppended
<1>4. PICK m \in (k + 1)..n :
        ~packets[m].on /\ segments[Run(k)].end = packets[m].at
  BY <1>1 DEF ClosedRun
<1>5. m \in (k + 1)..Len(packets') /\ packets'[m] = packets[m]
  BY <1>1, <1>2, <1>4
<1>6. /\ Run(k) \in 1..Len(segments) /\ Run(k) \in 1..Len(segments')
      /\ segments'[Run(k)] = segments[Run(k)]
      /\ segments[Run(k)].start <= packets[k].at
  BY DEF ClosedRun
<1> QED
  BY <1>3, <1>4, <1>5, <1>6 DEF ClosedRun

\* What telemetry_seen() does with a packet, in five cases.
LEMMA SeenKinds ==
  ASSUME NEW p \in Packet, TelemetrySeen(p),
         segments \in Seq(Segment), active \in {NoSegment} \cup Opened
  PROVE  \/ /\ ~p.on /\ active = NoSegment
            /\ UNCHANGED <<phase, active, segments>>
         \/ /\ ~p.on /\ phase' = "error" /\ UNCHANGED <<active, segments>>
         \/ /\ ~p.on /\ active # NoSegment /\ active' = NoSegment
            /\ segments' = Append(segments, [start |-> active.start,
                                             end |-> p.at,
                                             gaps |-> active.gaps])
            /\ phase' = phase
         \/ /\ p.on /\ active = NoSegment /\ active' = NewSegment(p)
            /\ UNCHANGED <<phase, segments>>
         \/ /\ p.on /\ active # NoSegment /\ active' # NoSegment
            /\ active' \in Opened /\ active'.start = active.start
            /\ UNCHANGED <<phase, segments>>
<1>1. CASE ~p.on
  BY <1>1, Zenon DEF TelemetrySeen, FinishSegment
<1>2. CASE p.on /\ active = NoSegment
  BY <1>2, Zenon DEF TelemetrySeen
<1>3. CASE p.on /\ active # NoSegment
  <2>1. /\ active' = [active EXCEPT !.gaps = IF p.gap THEN @ + 1 ELSE @]
        /\ UNCHANGED <<phase, segments>>
    BY <1>3, Zenon DEF TelemetrySeen
  <2>2. active \in Opened
    BY <1>3
  <2>3. active' \in Opened /\ active'.start = active.start
    <3>1. active' \in {[active EXCEPT !.gaps = @ + 1], active}
      BY <2>1, <2>2 DEF Opened
    <3>2. active.gaps \in Nat /\ active.start \in Nat
      BY <2>2 DEF Opened
    <3> QED
      BY <2>2, <3>1, <3>2 DEF Opened
  <2>4. active' # NoSegment
    BY <2>3 DEF Opened, NoSegment
  <2> QED
    BY <1>3, <2>1, <2>3, <2>4, Zenon
<1> QED
  BY <1>1, <1>2, <1>3, Zenon

LEMMA NoRunYet == Run(0) = 0
<1>1. {j \in 1..0 : Begins(j)} = {}
  OBVIOUS
<1> QED
  BY <1>1, RunCounts, FS_EmptySet

\* What RunsInv says of the packet read last.
LEMMA LastRun ==
  ASSUME packets \in Seq(Packet), RunsInv, segments \in Seq(Segment),
         NEW n, n = Len(packets)
  PROVE  /\ active # NoSegment <=> n > 0 /\ packets[n].on
         /\ Run(n) = Len(segments) + (IF active = NoSegment THEN 0 ELSE 1)
         /\ active # NoSegment => OpenRun(n)
<1>1. n \in Nat /\ (packets = <<>> <=> n = 0) /\ DOMAIN packets = 1..n
  BY EmptySeq
<1>2. n > 0 <=> packets # <<>>
  BY <1>1
<1>3. active # NoSegment <=> n > 0 /\ packets[n].on
  BY <1>2, Zenon DEF RunsInv
<1>4. Run(n) = Len(segments) + (IF active = NoSegment THEN 0 ELSE 1)
  <2>1. CASE n = 0
    <3>1. active = NoSegment /\ segments = <<>>
      BY <1>1, <1>2, <1>3, <2>1, Zenon DEF RunsInv
    <3> QED
      BY <2>1, <3>1, NoRunYet
  <2>2. CASE n # 0
    BY <1>1, <2>2, Zenon DEF RunsInv
  <2> QED
    BY <2>1, <2>2
<1>5. ASSUME active # NoSegment PROVE OpenRun(n)
  <2>1. n \in DOMAIN packets /\ packets[n].on
    <3>1. n > 0 /\ packets[n].on
      BY <1>3, <1>5, Zenon
    <3>2. n \in 1..n
      BY <1>1, <3>1
    <3> QED
      BY <1>1, <3>1, <3>2, Zenon
  <2>2. ~ClosedRun(n)
    <3>1. (n + 1)..Len(packets) = {}
      BY <1>1
    <3> QED
      BY <3>1 DEF ClosedRun
  <2> QED
    BY <2>1, <2>2, Zenon DEF RunsInv
<1> QED
  BY <1>3, <1>4, <1>5, Zenon

\* What is to be shown of each kind of packet.
LEMMA RunsFrom ==
  ASSUME packets \in Seq(Packet), NEW p \in Packet,
         packets' = Append(packets, p), NEW n, n = Len(packets),
         active' # NoSegment <=> p.on,
         Run(n + 1)' = Len(segments') + (IF active' = NoSegment THEN 0 ELSE 1),
         \A k \in 1..n : packets[k].on => ClosedRun(k)' \/ OpenRun(k)',
         p.on => OpenRun(n + 1)'
  PROVE  RunsInv'
<1>1. /\ n \in Nat /\ Len(packets') = n + 1 /\ packets'[n + 1] = p
      /\ DOMAIN packets' = 1..(n + 1) /\ packets' # <<>>
      /\ \A k \in 1..n : packets'[k] = packets[k]
  BY PacketAppended
<1>2. active' # NoSegment <=> packets'[Len(packets')].on
  BY <1>1
<1>3. Run(Len(packets))'
        = Len(segments') + (IF active' = NoSegment THEN 0 ELSE 1)
  BY <1>1
<1>4. ASSUME NEW k \in 1..(n + 1), packets'[k].on
      PROVE  ClosedRun(k)' \/ OpenRun(k)'
  <2>1. CASE k \in 1..n
    BY <1>1, <1>4, <2>1, Zenon
  <2>2. CASE k = n + 1
    BY <1>1, <1>4, <2>2
  <2> QED
    BY <1>1, <1>4, <2>1, <2>2
<1> QED
  BY <1>1, <1>2, <1>3, <1>4, Zenon DEF RunsInv

LEMMA RunsGoOn ==
  ASSUME packets \in Seq(Packet), NEW p \in Packet,
         packets' = Append(packets, p),
         packets # <<>> => p.at >= Newest,
         segments \in Seq(Segment), active \in {NoSegment} \cup Opened,
         RunsInv, TelemetrySeen(p), phase' # "error"
  PROVE  RunsInv'
<1>1. PICK n : n = Len(packets)
  OBVIOUS
<1>2. /\ n \in Nat /\ Len(packets') = n + 1 /\ packets'[n + 1] = p
      /\ DOMAIN packets = 1..n /\ \A k \in 1..n : packets'[k] = packets[k]
      /\ \A k \in 1..n : packets[k] \in Packet
      /\ packets = <<>> <=> n = 0
  BY <1>1, PacketAppended
<1>3. /\ active # NoSegment <=> n > 0 /\ packets[n].on
      /\ Run(n) = Len(segments) + (IF active = NoSegment THEN 0 ELSE 1)
      /\ active # NoSegment => OpenRun(n)
  BY <1>1, LastRun, Zenon
<1>4. /\ \A k \in 1..n : Run(k)' = Run(k)
      /\ Run(n + 1)' = IF p.on /\ (n > 0 => ~packets[n].on)
                         THEN Run(n) + 1 ELSE Run(n)
  <2>1. \A k \in 1..n : k \in 0..n
    BY <1>2
  <2> QED
    BY <1>1, <2>1, RunAppended
<1>5. \A k \in 1..n : packets[k].on => ClosedRun(k) \/ OpenRun(k)
  BY <1>2, Zenon DEF RunsInv
<1>6. p.at \in Nat /\ \A k \in 1..n : packets[k].at \in Nat
  BY <1>2, Constants DEF Packet
<1>7. Len(segments) \in Nat
  OBVIOUS
<1>8. \A k \in 1..n : ClosedRun(k) /\ segments' = segments => ClosedRun(k)'
  BY <1>1, ClosedStays
<1>9. CASE ~p.on /\ active = NoSegment /\ UNCHANGED <<phase, active, segments>>
  <2>1. \A k \in 1..n : packets[k].on => ClosedRun(k)'
    <3>1. \A k \in 1..n : ~OpenRun(k)
      BY <1>9 DEF OpenRun
    <3>2. segments' = segments
      BY <1>9
    <3> QED
      BY <1>5, <1>8, <3>1, <3>2, Zenon
  <2>2. active' = NoSegment /\ segments' = segments
    BY <1>9
  <2>3. Run(n + 1)' = Run(n)
    BY <1>4, <1>9, Zenon
  <2>4. Run(n + 1)' = Len(segments') + (IF active' = NoSegment THEN 0 ELSE 1)
    BY <1>3, <1>9, <2>2, <2>3
  <2> QED
    BY <1>1, <1>9, <2>1, <2>2, <2>4, RunsFrom, Zenon
<1>10. CASE /\ ~p.on /\ active # NoSegment /\ active' = NoSegment
            /\ segments' = Append(segments, [start |-> active.start,
                                             end |-> p.at,
                                             gaps |-> active.gaps])
  <2>1. PICK m : m = Len(segments)
    OBVIOUS
  <2>2. active \in Opened /\ m \in Nat
    BY <1>7, <1>10, <2>1
  <2>3. [start |-> active.start, end |-> p.at, gaps |-> active.gaps] \in Segment
    BY <1>6, <2>2 DEF Opened, Segment
  <2>4. /\ segments' \in Seq(Segment) /\ Len(segments') = m + 1
        /\ \A i \in 1..m : segments'[i] = segments[i]
        /\ segments'[m + 1] = [start |-> active.start, end |-> p.at,
                               gaps |-> active.gaps]
    BY <1>10, <2>1, <2>3
  <2>5. segments'[m + 1].start = active.start /\ segments'[m + 1].end = p.at
    BY <2>4
  <2>6. ASSUME NEW k \in 1..n, OpenRun(k)
        PROVE  ClosedRun(k)'
    <3>1. Run(k)' = m + 1 /\ active.start <= packets[k].at
      BY <1>4, <2>1, <2>6 DEF OpenRun
    <3>2. Run(k)' \in 1..Len(segments') /\ packets'[k] = packets[k]
      BY <1>2, <2>2, <2>4, <2>6, <3>1
    <3>3. n + 1 \in (k + 1)..Len(packets')
      BY <1>2, <2>6
    <3>4. ~packets'[n + 1].on /\ segments'[Run(k)'].end = packets'[n + 1].at
      BY <1>2, <1>10, <2>5, <3>1, Zenon
    <3>5. segments'[Run(k)'].start <= packets'[k].at
      BY <2>5, <3>1, <3>2, Zenon
    <3> QED
      BY <3>2, <3>3, <3>4, <3>5, Zenon DEF ClosedRun
  <2>7. ASSUME NEW k \in 1..n, ClosedRun(k)
        PROVE  ClosedRun(k)'
    <3>1. /\ Len(segments) <= Len(segments')
          /\ \A i \in 1..Len(segments) : segments'[i] = segments[i]
          /\ k \in 1..Len(packets)
      BY <1>1, <2>1, <2>2, <2>4, <2>7
    <3> QED
      BY <2>4, <2>7, <3>1, ClosedStays, Zenon
  <2>8. \A k \in 1..n : packets[k].on => ClosedRun(k)'
    BY <1>5, <2>6, <2>7, Zenon
  <2>9. Run(n + 1)' = Run(n)
    BY <1>4, <1>10, Zenon
  <2>10. Run(n + 1)' = Len(segments') + (IF active' = NoSegment THEN 0 ELSE 1)
    BY <1>3, <1>10, <2>1, <2>2, <2>4, <2>9
  <2> QED
    BY <1>1, <1>10, <2>8, <2>10, RunsFrom, Zenon
<1>11. CASE /\ p.on /\ active = NoSegment /\ active' = NewSegment(p)
            /\ UNCHANGED <<phase, segments>>
  <2>1. segments' = segments
    BY <1>11
  <2>2. \A k \in 1..n : packets[k].on => ClosedRun(k)'
    <3>1. \A k \in 1..n : ~OpenRun(k)
      BY <1>11 DEF OpenRun
    <3> QED
      BY <1>5, <1>8, <2>1, <3>1, Zenon
  <2>3. active' # NoSegment /\ active'.start = p.at
    BY <1>6, <1>11 DEF NewSegment, NoSegment
  <2>4. Run(n + 1)' = Run(n) + 1
    BY <1>3, <1>4, <1>11, Zenon
  <2>5. Run(n + 1)' = Len(segments') + 1
    BY <1>3, <1>7, <1>11, <2>1, <2>4
  <2>6. active'.start <= packets'[n + 1].at
    <3>1. packets'[n + 1].at = p.at
      BY <1>2, Zenon
    <3> QED
      BY <1>6, <2>3, <3>1
  <2>7. OpenRun(n + 1)'
    BY <2>3, <2>5, <2>6, Zenon DEF OpenRun
  <2>8. Run(n + 1)' = Len(segments') + (IF active' = NoSegment THEN 0 ELSE 1)
    BY <2>3, <2>5, Zenon
  <2> QED
    BY <1>1, <1>11, <2>2, <2>3, <2>7, <2>8, RunsFrom, Zenon
<1>12. CASE /\ p.on /\ active # NoSegment /\ active' # NoSegment
            /\ active' \in Opened /\ active'.start = active.start
            /\ UNCHANGED <<phase, segments>>
  <2>1. segments' = segments
    BY <1>12
  <2>2. \A k \in 1..n : OpenRun(k) => OpenRun(k)'
    <3> SUFFICES ASSUME NEW k \in 1..n, OpenRun(k) PROVE OpenRun(k)'
      OBVIOUS
    <3>1. Run(k)' = Len(segments') + 1
      BY <1>4, <2>1, Zenon DEF OpenRun
    <3>2. active'.start <= packets'[k].at
      BY <1>2, <1>12, Zenon DEF OpenRun
    <3> QED
      BY <1>12, <3>1, <3>2, Zenon DEF OpenRun
  <2>3. \A k \in 1..n : packets[k].on => ClosedRun(k)' \/ OpenRun(k)'
    BY <1>5, <1>8, <2>1, <2>2, Zenon
  <2>4. n > 0 /\ packets[n].on /\ OpenRun(n)
    BY <1>3, <1>12, Zenon
  <2>5. Run(n + 1)' = Run(n)
    BY <1>4, <2>4, Zenon
  <2>6. Run(n + 1)' = Len(segments') + 1
    BY <2>1, <2>4, <2>5, Zenon DEF OpenRun
  <2>7. active'.start <= packets'[n + 1].at
    <3>1. packets'[n + 1].at = p.at
      BY <1>2, Zenon
    <3>2. active.start <= packets[n].at /\ active.start \in Nat
      <4>1. active \in Opened
        BY <1>12
      <4>2. active.start \in Nat
        BY <4>1 DEF Opened
      <4> QED
        BY <2>4, <4>2 DEF OpenRun
    <3>3. p.at >= packets[n].at /\ packets[n].at \in Nat
      <4>1. n \in 1..n /\ packets # <<>>
        BY <1>2, <2>4
      <4> QED
        BY <1>1, <1>6, <4>1, Zenon DEF Newest
    <3> QED
      BY <1>6, <1>12, <3>1, <3>2, <3>3
  <2>8. OpenRun(n + 1)'
    BY <1>12, <2>6, <2>7, Zenon DEF OpenRun
  <2>9. Run(n + 1)' = Len(segments') + (IF active' = NoSegment THEN 0 ELSE 1)
    BY <1>12, <2>6, Zenon
  <2> QED
    BY <1>1, <1>12, <2>3, <2>8, <2>9, RunsFrom, Zenon
<1> QED
  BY <1>9, <1>10, <1>11, <1>12, SeenKinds, Zenon


TimesOf(ps) == [i \in DOMAIN ps |-> ps[i].at]

LEMMA TimesTyped ==
  ASSUME NEW ps \in Seq(Packet)
  PROVE  /\ TimesOf(ps) \in Seq(Nat) /\ Len(TimesOf(ps)) = Len(ps)
         /\ DOMAIN TimesOf(ps) = 1..Len(ps)
         /\ \A i \in 1..Len(ps) : /\ TimesOf(ps)[i] = ps[i].at
                                  /\ ps[i].at \in Nat
         /\ TimesOf(ps) = <<>> <=> ps = <<>>
<1>1. PICK n : n = Len(ps)
  OBVIOUS
<1>2. n \in Nat /\ DOMAIN ps = 1..n /\ \A i \in 1..n : ps[i] \in Packet
  BY <1>1
<1>3. \A i \in 1..n : ps[i].at \in Nat
  BY <1>2, Constants DEF Packet
<1>4. /\ DOMAIN TimesOf(ps) = 1..n
      /\ \A i \in 1..n : TimesOf(ps)[i] = ps[i].at
      /\ TimesOf(ps) \in [1..n -> Nat]
  BY <1>2, <1>3 DEF TimesOf
<1>5. TimesOf(ps) \in Seq(Nat)
  BY <1>2, <1>4
<1>6. Len(TimesOf(ps)) = n
  BY <1>2, <1>4, <1>5
<1> QED
  BY <1>1, <1>3, <1>4, <1>5, <1>6, EmptySeq

LEMMA TimesAre == PacketTimes = TimesOf(packets)
BY DEF PacketTimes, TimesOf

LEMMA TimesGrow ==
  ASSUME packets \in Seq(Packet), NEW p \in Packet,
         packets' = Append(packets, p), Ordered(PacketTimes),
         packets # <<>> => p.at >= Newest
  PROVE  /\ Ordered(PacketTimes)' /\ Newest' = p.at
         /\ p.at \in Nat
         /\ packets # <<>> => Newest \in Nat /\ p.at >= Newest
<1>1. PICK n : n = Len(packets)
  OBVIOUS
<1>2. /\ n \in Nat /\ Len(packets') = n + 1 /\ packets'[n + 1] = p
      /\ packets' \in Seq(Packet)
      /\ \A k \in 1..n : packets'[k] = packets[k]
      /\ packets = <<>> <=> n = 0
  BY <1>1, PacketAppended
<1>3. p.at \in Nat
  BY Constants DEF Packet
<1>4. /\ DOMAIN PacketTimes = 1..n
      /\ \A i \in 1..n : PacketTimes[i] = packets[i].at /\ packets[i].at \in Nat
  BY <1>1, TimesTyped, TimesAre
<1>5. /\ DOMAIN PacketTimes' = 1..(n + 1)
      /\ \A i \in 1..(n + 1) : PacketTimes'[i] = packets'[i].at
  <2>1. PacketTimes' = TimesOf(packets')
    BY DEF PacketTimes, TimesOf
  <2> QED
    BY <1>2, <2>1, TimesTyped
<1>6. \A i, j \in 1..n : i <= j => packets[i].at <= packets[j].at
  BY <1>4 DEF Ordered
<1>7. n > 0 => p.at >= packets[n].at
  BY <1>1, <1>2 DEF Newest
<1>8. ASSUME NEW i \in 1..n PROVE packets[i].at <= p.at
  <2>1. n > 0 /\ i <= n /\ n \in 1..n
    BY <1>2, <1>8
  <2>2. packets[i].at <= packets[n].at /\ p.at >= packets[n].at
    BY <1>6, <1>7, <1>8, <2>1
  <2>3. packets[i].at \in Nat /\ packets[n].at \in Nat
    BY <1>4, <1>8, <2>1
  <2> QED
    BY <1>3, <2>2, <2>3
<1>9. ASSUME NEW i \in 1..(n + 1), NEW j \in 1..(n + 1), i <= j
      PROVE  PacketTimes'[i] <= PacketTimes'[j]
  <2>1. CASE j \in 1..n
    <3>1. i \in 1..n
      BY <1>2, <1>9, <2>1
    <3>2. /\ packets'[i] = packets[i] /\ packets'[j] = packets[j]
          /\ packets[i].at <= packets[j].at
      BY <1>2, <1>6, <1>9, <2>1, <3>1
    <3> QED
      BY <1>5, <1>9, <3>2
  <2>2. CASE j = n + 1 /\ i \in 1..n
    <3>1. packets'[i] = packets[i] /\ packets'[j] = p
      BY <1>2, <2>2
    <3> QED
      BY <1>5, <1>8, <1>9, <2>2, <3>1
  <2>3. CASE j = n + 1 /\ i = n + 1
    <3>1. /\ PacketTimes'[i] = packets'[n + 1].at
          /\ PacketTimes'[j] = PacketTimes'[i]
      BY <1>5, <1>9, <2>3, Zenon
    <3>2. PacketTimes'[i] = p.at
      BY <1>2, <3>1, Zenon
    <3> QED
      BY <1>3, <3>1, <3>2
  <2>4. \/ j \in 1..n
        \/ j = n + 1 /\ i \in 1..n
        \/ j = n + 1 /\ i = n + 1
    BY <1>2, <1>9
  <2> QED
    BY <2>1, <2>2, <2>3, <2>4
<1>10. Ordered(PacketTimes)'
  BY <1>5, <1>9 DEF Ordered
<1>11. Newest' = p.at
  BY <1>2, Zenon DEF Newest
<1>12. packets # <<>> => Newest \in Nat /\ p.at >= Newest
  <2>1. packets # <<>> => n \in 1..n
    BY <1>2
  <2> QED
    BY <1>1, <1>4, <2>1 DEF Newest
<1> QED
  BY <1>3, <1>10, <1>11, <1>12

LEMMA ReadPacketStep == AdapterInv /\ ReadPacket => AdapterInv'
<1> SUFFICES ASSUME AdapterInv, ReadPacket PROVE AdapterInv'
  OBVIOUS
<1>1. /\ packets \in Seq(Packet) /\ samples \in Seq(Times)
      /\ Ordered(PacketTimes) /\ Ordered(samples)
      /\ segments \in Seq(Segment) /\ active \in {NoSegment} \cup Opened
      /\ segments # <<>> => packets # <<>>
      /\ \A i \in DOMAIN segments : segments[i].end <= OpenEnd(Newest)
  BY Zenon DEF AdapterInv, StreamsInv, SegmentsInv
<1>2. /\ phase = "telemetry"
      /\ UNCHANGED <<samples, damaged, tread, cread, frames>>
  BY Zenon DEF ReadPacket
<1>3. PICK p \in Packet : /\ packets # <<>> => p.at >= packets[Len(packets)].at
                          /\ packets' = Append(packets, p)
                          /\ TelemetrySeen(p)
  BY Zenon DEF ReadPacket
<1>4. RunsInv /\ frames = <<>> /\ tread = 0 /\ cread = 0
  BY <1>2, Zenon DEF AdapterInv, SegmentsInv, CursorsInv
<1>5. packets # <<>> => p.at >= Newest
  BY <1>3, Zenon DEF Newest
<1>6. packets' \in Seq(Packet) /\ packets' # <<>>
  <2>1. PICK n : n = Len(packets)
    OBVIOUS
  <2> QED
    BY <1>1, <1>3, <2>1, PacketAppended, Zenon
<1>7. /\ Ordered(PacketTimes)' /\ Newest' = p.at /\ p.at \in Nat
      /\ packets # <<>> => Newest \in Nat /\ p.at >= Newest
  BY <1>1, <1>3, <1>5, TimesGrow, Zenon
<1>8. \/ /\ phase' \in {"telemetry", "error"}
         /\ active' \in {NoSegment} \cup Opened
         /\ segments' = segments
      \/ /\ phase' = "telemetry" /\ active' = NoSegment
         /\ active \in Opened
         /\ segments' = Append(segments, [start |-> active.start, end |-> p.at,
                                          gaps |-> active.gaps])
  <2>1. NewSegment(p) \in Opened
    BY <1>7 DEF NewSegment, Opened
  <2> QED
    BY <1>1, <1>2, <1>3, <2>1, SeenKinds
<1>9. /\ segments' \in Seq(Segment)
      /\ active' \in {NoSegment} \cup Opened
      /\ \A i \in DOMAIN segments' : segments'[i].end <= OpenEnd(Newest)'
  <2>1. ASSUME NEW i \in DOMAIN segments
        PROVE  segments[i].end \in Nat /\ segments[i].end <= p.at + Align + 1
    <3>1. segments[i].end \in Nat /\ segments # <<>>
      <4>1. segments[i] \in Segment /\ Len(segments) > 0
        BY <1>1, <2>1
      <4> QED
        BY <1>1, <4>1, EmptySeq DEF Segment
    <3>2. /\ segments[i].end <= Newest + Align + 1
          /\ Newest \in Nat /\ p.at >= Newest
      BY <1>1, <1>7, <2>1, <3>1 DEF OpenEnd
    <3> QED
      BY <1>7, <3>1, <3>2, Constants
  <2>2. OpenEnd(Newest)' = p.at + Align + 1
    BY <1>7 DEF OpenEnd
  <2>3. CASE segments' = segments
    BY <1>1, <1>8, <2>1, <2>2, <2>3
  <2>4. CASE /\ active' = NoSegment /\ active \in Opened
             /\ segments' = Append(segments, [start |-> active.start,
                                              end |-> p.at,
                                              gaps |-> active.gaps])
    <3>1. [start |-> active.start, end |-> p.at, gaps |-> active.gaps]
            \in Segment
      BY <1>7, <2>4 DEF Opened, Segment
    <3>2. PICK m : m = Len(segments)
      OBVIOUS
    <3>3. /\ segments' \in Seq(Segment) /\ m \in Nat
          /\ DOMAIN segments' = 1..(m + 1) /\ DOMAIN segments = 1..m
          /\ \A i \in 1..m : segments'[i] = segments[i]
          /\ segments'[m + 1] = [start |-> active.start, end |-> p.at,
                                 gaps |-> active.gaps]
      BY <1>1, <2>4, <3>1, <3>2
    <3>4. segments'[m + 1].end = p.at /\ p.at <= p.at + Align + 1
      BY <1>7, <3>3, Constants
    <3>5. ASSUME NEW i \in 1..(m + 1) PROVE segments'[i].end <= p.at + Align + 1
      <4>1. CASE i \in 1..m
        BY <2>1, <3>3, <4>1
      <4>2. CASE i = m + 1
        BY <3>4, <4>2
      <4> QED
        BY <3>3, <3>5, <4>1, <4>2
    <3> QED
      BY <2>2, <2>4, <3>3, <3>5
  <2> QED
    BY <1>8, <2>3, <2>4, Zenon
<1>10. phase' = "telemetry" => RunsInv'
  <2>1. phase' = "telemetry" => phase' # "error"
    OBVIOUS
  <2> QED
    BY <1>1, <1>3, <1>4, <1>5, <2>1, RunsGoOn, Zenon
<1>11. phase' \in {"telemetry", "error"}
  BY <1>8, Zenon
<1>12. phase' # "frames"
  BY <1>11
<1>13. StreamsInv'
  BY <1>1, <1>2, <1>6, <1>7 DEF StreamsInv
<1>14. SegmentsInv'
  BY <1>6, <1>9, <1>10, <1>12, Zenon DEF SegmentsInv
<1>15. CursorsInv'
  BY <1>2, <1>4, <1>12 DEF CursorsInv
<1>16. FramesInv'
  BY <1>2, <1>4 DEF FramesInv
<1> QED
  BY <1>13, <1>14, <1>15, <1>16, Zenon DEF AdapterInv

LEMMA SortedIsOrdered ==
  ASSUME NEW n \in Nat, NEW s \in Sorted(n)
  PROVE  s \in Seq(Times) /\ Ordered(s)
<1>1. PICK k \in 0..n : s \in [1..k -> Times]
  BY DEF Sorted
<1>2. \A i \in 2..Len(s) : s[i - 1] <= s[i]
  BY DEF Sorted
<1>3. k \in Nat /\ s \in Seq(Times) /\ Len(s) = k /\ DOMAIN s = 1..k
      /\ \A i \in 1..k : s[i] \in Nat
  <2>1. k \in Nat
    OBVIOUS
  <2>2. s \in Seq(Times) /\ Len(s) = k /\ DOMAIN s = 1..k
    BY <1>1, <2>1
  <2>3. \A i \in 1..k : s[i] \in Nat
    BY <1>1, Constants
  <2> QED
    BY <2>1, <2>2, <2>3
<1>4. ASSUME NEW i \in 1..k, NEW j \in 1..k, i <= j, ~(s[i] <= s[j])
      PROVE  FALSE
  <2> DEFINE T == {x \in i..k : ~(s[i] <= s[x])}
  <2>1. T \subseteq Nat /\ j \in T
    BY <1>3, <1>4
  <2>2. PICK x \in T : \A y \in T : x <= y
    <3> HIDE DEF T
    <3> QED
      BY <2>1, SmallestExists
  <2>3. x \in i..k /\ ~(s[i] <= s[x])
    BY <2>2
  <2>4. x # i
    BY <1>3, <1>4, <2>3
  <2>5. x - 1 \in i..k /\ x \in 2..k /\ ~(x <= x - 1)
    BY <1>3, <1>4, <2>3, <2>4
  <2>6. x - 1 \notin T
    BY <2>2, <2>5
  <2>7. s[i] <= s[x - 1] /\ s[x - 1] <= s[x]
    BY <1>2, <1>3, <2>5, <2>6
  <2>8. x - 1 \in 1..k /\ x \in 1..k
    BY <1>3, <1>4, <2>5
  <2> QED
    BY <1>3, <1>4, <2>3, <2>7, <2>8
<1> QED
  BY <1>3, <1>4 DEF Ordered


\* The end of the telemetry closes the last run.
LEMMA EndOfTelemetryStep == AdapterInv /\ EndOfTelemetry => AdapterInv'
<1> SUFFICES ASSUME AdapterInv, EndOfTelemetry PROVE AdapterInv'
  OBVIOUS
<1>1. /\ packets \in Seq(Packet) /\ samples \in Seq(Times)
      /\ Ordered(PacketTimes) /\ Ordered(samples)
      /\ segments \in Seq(Segment) /\ active \in {NoSegment} \cup Opened
      /\ segments # <<>> => packets # <<>>
      /\ \A i \in DOMAIN segments : segments[i].end <= OpenEnd(Newest)
  BY Zenon DEF AdapterInv, StreamsInv, SegmentsInv
<1>2. phase = "telemetry" /\ UNCHANGED <<packets, tread, cread, frames>>
  BY Zenon DEF EndOfTelemetry
<1>3. RunsInv /\ frames = <<>> /\ tread = 0 /\ cread = 0
  BY <1>2, Zenon DEF AdapterInv, SegmentsInv, CursorsInv
<1>4. packets' = packets
  BY <1>2
<1>5. /\ PacketTimes' = PacketTimes /\ Newest' = Newest
      /\ \A k : Run(k)' = Run(k)
      /\ OpenEnd(Newest)' = OpenEnd(Newest)
  <2>1. PacketTimes' = PacketTimes /\ Newest' = Newest
    BY <1>4, Zenon DEF PacketTimes, Newest
  <2>2. \A k : Run(k)' = Run(k)
    BY <1>4, Zenon DEF Run
  <2>3. OpenEnd(Newest)' = OpenEnd(Newest)
    BY <2>1 DEF OpenEnd
  <2> QED
    BY <2>1, <2>2, <2>3
<1>6. FramesInv'
  BY <1>2, <1>3 DEF FramesInv
<1>7. CASE phase' = "error" /\ UNCHANGED <<active, segments, samples, damaged>>
  <2>1. StreamsInv'
    BY <1>1, <1>4, <1>5, <1>7 DEF StreamsInv
  <2>2. segments' = segments /\ active' = active
        /\ phase' # "telemetry" /\ phase' # "frames"
    BY <1>7
  <2>3. SegmentsInv'
    BY <1>1, <1>4, <1>5, <2>2, Zenon DEF SegmentsInv
  <2>4. CursorsInv'
    BY <2>2, Zenon DEF CursorsInv
  <2> QED
    BY <1>6, <2>1, <2>3, <2>4, Zenon DEF AdapterInv
<1>8. CASE /\ phase' = "frames" /\ samples' \in Sorted(MaxSamples)
           /\ active' = NoSegment
           /\ segments' = IF active = NoSegment
                            THEN segments
                            ELSE Append(segments,
                                   [start |-> active.start,
                                    end |-> OpenEnd(packets[Len(packets)].at),
                                    gaps |-> active.gaps])
  <2>1. StreamsInv'
    <3>1. MaxSamples \in Nat
      BY ParametersAssumption
    <3>2. samples' \in Seq(Times) /\ Ordered(samples')
      BY <1>8, <3>1, SortedIsOrdered, Zenon
    <3>3. Ordered(PacketTimes)'
      BY <1>1, <1>5, Zenon DEF Ordered
    <3>4. Ordered(samples)'
      BY <3>2 DEF Ordered
    <3> QED
      BY <1>1, <1>4, <3>2, <3>3, <3>4, Zenon DEF StreamsInv
  <2>2. /\ segments' \in Seq(Segment)
        /\ segments' # <<>> => packets' # <<>>
        /\ \A i \in DOMAIN segments' : segments'[i].end <= OpenEnd(Newest)
        /\ \A k \in DOMAIN packets : packets[k].on =>
             ClosedRun(k)' \/ EndedRun(k)'
    <3>1. \A k \in DOMAIN packets : packets[k].on => ClosedRun(k) \/ OpenRun(k)
      BY <1>3, Zenon DEF RunsInv
    <3>2. CASE active = NoSegment
      <4>1. segments' = segments
        BY <1>8, <3>2
      <4>2. \A k \in DOMAIN packets : packets[k].on => ClosedRun(k)'
        BY <1>4, <1>5, <3>1, <3>2, <4>1, Zenon DEF ClosedRun, OpenRun
      <4> QED
        BY <1>1, <1>4, <4>1, <4>2, Zenon
    <3>3. CASE active # NoSegment
      <4>1. active \in Opened /\ packets # <<>>
        BY <1>1, <1>3, <3>3 DEF RunsInv
      <4> DEFINE last == [start |-> active.start, end |-> OpenEnd(Newest),
                          gaps |-> active.gaps]
      <4>2. segments' = Append(segments, last)
        BY <1>8, <3>3, Zenon DEF Newest
      <4>3. OpenEnd(Newest) \in Nat
        <5>1. PICK n : n = Len(packets)
          OBVIOUS
        <5>2. n \in 1..n
          BY <1>1, <4>1, <5>1, EmptySeq
        <5>3. Newest \in Nat
          BY <1>1, <5>1, <5>2, TimesTyped DEF Newest
        <5> QED
          BY <5>3, Constants DEF OpenEnd
      <4>4. last \in Segment
        BY <4>1, <4>3 DEF Opened, Segment
      <4>5. PICK m : m = Len(segments)
        OBVIOUS
      <4>6. last.start = active.start /\ last.end = OpenEnd(Newest)
        OBVIOUS
      <4> HIDE DEF last
      <4>7. /\ segments' \in Seq(Segment) /\ m \in Nat /\ Len(segments') = m + 1
            /\ DOMAIN segments = 1..m /\ DOMAIN segments' = 1..(m + 1)
            /\ \A i \in 1..m : segments'[i] = segments[i]
            /\ segments'[m + 1] = last
        BY <1>1, <4>2, <4>4, <4>5
      <4>8. ASSUME NEW i \in 1..(m + 1)
            PROVE  segments'[i].end <= OpenEnd(Newest)
        <5>1. CASE i \in 1..m
          BY <1>1, <4>7, <5>1, Zenon
        <5>2. CASE i = m + 1
          BY <4>3, <4>6, <4>7, <5>2
        <5> QED
          BY <4>7, <4>8, <5>1, <5>2
      <4>9. ASSUME NEW k \in DOMAIN packets, ClosedRun(k)
            PROVE  ClosedRun(k)'
        <5>1. /\ Run(k) \in 1..m /\ segments[Run(k)].start <= packets[k].at
              /\ \E j \in (k + 1)..Len(packets) :
                    ~packets[j].on /\ segments[Run(k)].end = packets[j].at
          BY <4>5, <4>9, Zenon DEF ClosedRun
        <5>2. Run(k) \in 1..(m + 1) /\ segments'[Run(k)] = segments[Run(k)]
          BY <4>7, <5>1
        <5> QED
          BY <1>4, <1>5, <4>7, <5>1, <5>2, Zenon DEF ClosedRun
      <4>10. ASSUME NEW k \in DOMAIN packets, OpenRun(k)
             PROVE  EndedRun(k)'
        <5>1. Run(k) = m + 1 /\ active.start <= packets[k].at
          BY <4>5, <4>10, Zenon DEF OpenRun
        <5>2. m + 1 \in 1..(m + 1)
          BY <4>7
        <5> QED
          BY <1>4, <1>5, <4>6, <4>7, <5>1, <5>2, Zenon DEF EndedRun
      <4> QED
        BY <1>4, <3>1, <4>1, <4>7, <4>8, <4>9, <4>10, Zenon
    <3> QED
      BY <3>2, <3>3
  <2>3. phase' # "telemetry" /\ active' = NoSegment /\ phase' = "frames"
    BY <1>8
  <2>4. SegmentsInv'
    BY <1>4, <1>5, <2>2, <2>3, Zenon DEF SegmentsInv
  <2>5. CursorsInv'
    <3>1. frames' = <<>> /\ tread' = 0 /\ cread' = 0
      BY <1>2, <1>3
    <3>2. Len(packets') \in Nat /\ Len(samples') \in Nat
      BY <2>1 DEF StreamsInv
    <3>3. 0 \in 0..Len(packets') /\ 0 \in 0..Len(samples')
      BY <3>2
    <3> QED
      BY <2>3, <3>1, <3>3, Zenon DEF CursorsInv
  <2> QED
    BY <1>6, <2>1, <2>4, <2>5, Zenon DEF AdapterInv
<1> QED
  BY <1>7, <1>8, Zenon DEF EndOfTelemetry


-----------------------------------------------------------------------------
(* The second pass.                                                          *)

\* What is known of a frame depends on the first pass alone.
LEMMA FramesKept ==
  ASSUME NEW f, FrameInv(f), UNCHANGED <<packets, samples, segments>>
  PROVE  FrameInv(f)'
<1>1. packets' = packets /\ samples' = samples /\ segments' = segments
  OBVIOUS
<1>2. PacketTimes' = PacketTimes /\ Newest' = Newest
  BY <1>1, Zenon DEF PacketTimes, Newest
<1>3. RaceOn(f.telemetry)' <=> RaceOn(f.telemetry)
  BY <1>1, Zenon DEF RaceOn, Run, Substantial, Span
<1>4. Kept(f)'
  BY <1>1, <1>3, Zenon DEF FrameInv, Kept
<1> QED
  BY <1>1, <1>2, <1>4, Zenon DEF FrameInv

\* A frame near a packet of a substantial segment is in the segment: a packet
\* behind the segment would be nearer than one in it.
LEMMA InItsSegment ==
  ASSUME packets \in Seq(Packet), segments \in Seq(Segment),
         Ordered(PacketTimes), NEW at \in Nat, NEW read,
         Reached(PacketTimes, read, at),
         NEW k \in 1..Len(packets), k >= read,
         ClosedRun(k) \/ EndedRun(k),
         Distance(packets[k].at, at) <= Align
  PROVE  /\ Run(k) \in DOMAIN segments
         /\ InSegment(at, segments[Run(k)])
<1>1. PICK n : n = Len(packets)
  OBVIOUS
<1>2. /\ n \in Nat /\ Len(PacketTimes) = n /\ DOMAIN PacketTimes = 1..n
      /\ \A i \in 1..n : PacketTimes[i] = packets[i].at /\ packets[i].at \in Nat
  BY <1>1, TimesTyped, TimesAre
<1>3. \A i, j \in 1..n : i <= j => packets[i].at <= packets[j].at
  BY <1>2 DEF Ordered
<1>4. read \in 0..n /\ (read < n => packets[read + 1].at > at)
  BY <1>2 DEF Reached, Behind
<1>5. PICK s : s = segments[Run(k)]
  OBVIOUS
<1>6. Run(k) \in 1..Len(segments) /\ s.start <= packets[k].at
  BY <1>5, Zenon DEF ClosedRun, EndedRun
<1>7. s \in Segment /\ Run(k) \in DOMAIN segments
  BY <1>5, <1>6
<1>8. s.start \in Nat /\ s.end \in Nat /\ packets[k].at \in Nat /\ Align \in Nat
  BY <1>1, <1>2, <1>7, Constants DEF Segment
<1>9. at + Align >= packets[k].at /\ at <= packets[k].at + Align
  BY <1>8 DEF Distance
<1>10. at + Align >= s.start
  BY <1>6, <1>8, <1>9
<1>11. CASE ClosedRun(k)
  <2>1. PICK m \in (k + 1)..n : s.end = packets[m].at
    BY <1>1, <1>5, <1>11, Zenon DEF ClosedRun
  <2>2. /\ read + 1 <= m /\ read + 1 \in 1..n /\ m \in 1..n /\ read < n
    BY <1>1, <1>2, <1>4, <2>1
  <2>3. /\ packets[read + 1].at <= packets[m].at
        /\ packets[read + 1].at \in Nat /\ packets[m].at \in Nat
    BY <1>2, <1>3, <2>2
  <2>4. packets[read + 1].at > at
    BY <1>4, <2>2
  <2>5. at < s.end
    BY <2>1, <2>3, <2>4
  <2> QED
    BY <1>5, <1>7, <1>10, <2>5 DEF InSegment
<1>12. CASE EndedRun(k)
  <2>1. s.end = Newest + Align + 1
    BY <1>5, <1>12 DEF EndedRun, OpenEnd
  <2>2. packets[k].at <= Newest /\ Newest \in Nat
    BY <1>1, <1>2, <1>3 DEF Newest
  <2>3. at < s.end
    BY <1>8, <1>9, <2>1, <2>2
  <2> QED
    BY <1>5, <1>7, <1>10, <2>3 DEF InSegment
<1> QED
  BY <1>11, <1>12

LEMMA NewFrame ==
  ASSUME AdapterInv, phase = "frames", NEW at \in Times,
         NEW t, NEW c, NEW tr, NEW cr,
         Reached(PacketTimes, tr, at), Reached(samples, cr, at),
         t = Nearest(PacketTimes, tr, at), c = Nearest(samples, cr, at)
  PROVE  LET f == [at |-> at, telemetry |-> t, sample |-> c,
                   verdict |-> Verdict(at, t, c)]
         IN  f \in Frame /\ FrameInv(f)
<1>1. /\ packets \in Seq(Packet) /\ samples \in Seq(Times)
      /\ Ordered(PacketTimes) /\ Ordered(samples)
      /\ segments \in Seq(Segment)
      /\ segments # <<>> => packets # <<>>
      /\ \A i \in DOMAIN segments : segments[i].end <= OpenEnd(Newest)
      /\ \A k \in DOMAIN packets : packets[k].on => ClosedRun(k) \/ EndedRun(k)
  BY Zenon DEF AdapterInv, StreamsInv, SegmentsInv
<1>2. at \in Nat /\ Align \in Nat
  BY Constants
<1>3. /\ PacketTimes \in Seq(Nat) /\ Len(PacketTimes) = Len(packets)
      /\ PacketTimes = <<>> <=> packets = <<>>
  BY <1>1, TimesTyped, TimesAre
<1>4. samples \in Seq(Nat)
  BY <1>1, TimesAreNumbers
<1>5. /\ Closest(PacketTimes, t, at)
      /\ IF PacketTimes = <<>> THEN t = NoMatch
                               ELSE t \in 1..Len(packets) /\ t >= tr
  BY <1>1, <1>2, <1>3, NearestIsNear
<1>6. /\ Closest(samples, c, at)
      /\ IF samples = <<>> THEN c = NoMatch ELSE c \in 1..Len(samples)
  BY <1>1, <1>2, <1>4, NearestIsNear
<1>7. ASSUME RaceOn(t), Distance(packets[t].at, at) <= Align,
             c # NoMatch, Distance(samples[c], at) <= Align
      PROVE  Verdict(at, t, c) = "aligned"
  <2>1. t # NoMatch /\ packets[t].on /\ Substantial(segments[Run(t)])
    BY <1>7, Zenon DEF RaceOn
  <2>2. t \in 1..Len(packets) /\ t >= tr
    BY <1>5, <2>1, Zenon
  <2>3. DOMAIN packets = 1..Len(packets)
    BY <1>1
  <2>4. ClosedRun(t) \/ EndedRun(t)
    BY <1>1, <2>1, <2>2, <2>3, Zenon
  <2>5. /\ Run(t) \in DOMAIN segments
        /\ InSegment(at, segments[Run(t)])
    BY <1>1, <1>2, <1>7, <2>2, <2>4, InItsSegment
  <2>6. segments[Run(t)] \in Selected
    BY <2>1, <2>5, Zenon DEF Selected
  <2> QED
    BY <1>7, <2>1, <2>5, <2>6, Zenon DEF Verdict
<1>8. ASSUME Verdict(at, t, c) # "excluded"
      PROVE  at <= Newest + Align
  <2>1. PICK s \in Selected : InSegment(at, s)
    BY <1>8, Zenon DEF Verdict
  <2>2. PICK i \in DOMAIN segments : s = segments[i]
    BY <2>1, Zenon DEF Selected
  <2>3. s.end \in Nat /\ s.end <= OpenEnd(Newest) /\ packets # <<>>
    <3>1. segments[i] \in Segment /\ Len(segments) > 0
      BY <1>1, <2>2
    <3> QED
      BY <1>1, <2>2, <3>1, EmptySeq DEF Segment
  <2>4. Newest \in Nat
    <3>1. PICK n : n = Len(packets)
      OBVIOUS
    <3>2. n \in 1..n
      BY <1>1, <2>3, <3>1, EmptySeq
    <3> QED
      BY <1>1, <3>1, <3>2, TimesTyped DEF Newest
  <2>5. at < s.end
    BY <2>1 DEF InSegment
  <2> QED
    BY <1>2, <2>3, <2>4, <2>5 DEF OpenEnd
<1> DEFINE f == [at |-> at, telemetry |-> t, sample |-> c,
                 verdict |-> Verdict(at, t, c)]
<1>9. /\ f.at = at /\ f.telemetry = t /\ f.sample = c
      /\ f.verdict = Verdict(at, t, c)
  OBVIOUS
<1>10. f \in Frame
  <2>1. t \in Nat /\ c \in Nat
    <3>1. Len(packets) \in Nat /\ Len(samples) \in Nat
      BY <1>1
    <3>2. t \in Nat
      BY <1>5, <3>1 DEF NoMatch
    <3>3. c \in Nat
      BY <1>6, <3>1 DEF NoMatch
    <3> QED
      BY <3>2, <3>3
  <2>2. Verdict(at, t, c) \in {"aligned", "rejected", "excluded"}
    BY DEF Verdict
  <2> QED
    BY <2>1, <2>2 DEF Frame
<1> HIDE DEF f
<1>11. Kept(f)
  BY <1>7, <1>9, Zenon DEF Kept
<1>12. FrameInv(f)
  BY <1>5, <1>6, <1>8, <1>9, <1>11, Zenon DEF FrameInv
<1> QED
  BY <1>10, <1>12 DEF f


LEMMA ReadFrameStep == AdapterInv /\ ReadFrame => AdapterInv'
<1> SUFFICES ASSUME AdapterInv, ReadFrame PROVE AdapterInv'
  OBVIOUS
<1>1. phase = "frames" /\ UNCHANGED <<streams, active, segments>>
  BY Zenon DEF ReadFrame
<1>2. /\ packets' = packets /\ samples' = samples
      /\ segments' = segments /\ active' = active
  BY <1>1 DEF streams
<1>3. PICK at \in Times :
        /\ frames # <<>> => at >= frames[Len(frames)].at
        /\ tread' = Advanced(PacketTimes, tread, at)
        /\ cread' = Advanced(samples, cread, at)
        /\ LET t == Nearest(PacketTimes, tread', at)
               c == Nearest(samples, cread', at)
           IN  IF Met(cread')
                 THEN phase' = "error" /\ UNCHANGED frames
                 ELSE /\ frames' = Append(frames,
                           [at |-> at, telemetry |-> t, sample |-> c,
                            verdict |-> Verdict(at, t, c)])
                      /\ UNCHANGED phase
  BY Zenon DEF ReadFrame
<1> DEFINE f == [at |-> at, telemetry |-> Nearest(PacketTimes, tread', at),
                 sample |-> Nearest(samples, cread', at),
                 verdict |-> Verdict(at, Nearest(PacketTimes, tread', at),
                                     Nearest(samples, cread', at))]
<1>4. \/ phase' = "error" /\ frames' = frames
      \/ phase' = "frames" /\ frames' = Append(frames, f)
  BY <1>1, <1>3
<1>5. f.at = at
  OBVIOUS
<1>6. /\ packets \in Seq(Packet)
      /\ samples \in Seq(Times) /\ samples \in Seq(Nat)
      /\ Ordered(PacketTimes) /\ Ordered(samples)
      /\ PacketTimes \in Seq(Nat) /\ Len(PacketTimes) = Len(packets)
      /\ at \in Nat /\ tread \in 0..Len(packets) /\ cread \in 0..Len(samples)
  <2>1. /\ packets \in Seq(Packet) /\ samples \in Seq(Times)
        /\ Ordered(PacketTimes) /\ Ordered(samples)
        /\ tread \in 0..Len(packets) /\ cread \in 0..Len(samples)
    BY <1>1, Zenon DEF AdapterInv, StreamsInv, CursorsInv
  <2>2. at \in Nat /\ samples \in Seq(Nat)
    BY <2>1, Constants, TimesAreNumbers
  <2> QED
    BY <2>1, <2>2, TimesTyped, TimesAre
<1>7. frames \in Seq(Frame)
  BY Zenon DEF AdapterInv, FramesInv
<1>8. Behind(PacketTimes, tread, at) /\ Behind(samples, cread, at)
  <2>1. CASE frames = <<>>
    <3>1. tread = 0 /\ cread = 0
      BY <1>1, <2>1, Zenon DEF AdapterInv, CursorsInv
    <3> QED
      BY <1>6, <3>1 DEF Behind
  <2>2. CASE frames # <<>>
    <3>1. PICK b : b = frames[Len(frames)].at
      OBVIOUS
    <3>2. Behind(PacketTimes, tread, b) /\ Behind(samples, cread, b)
      BY <1>1, <2>2, <3>1, Zenon DEF AdapterInv, CursorsInv
    <3>3. b \in Nat /\ at >= b
      <4>1. PICK n : n = Len(frames)
        OBVIOUS
      <4>2. n \in DOMAIN frames
        BY <1>7, <2>2, <4>1, EmptySeq
      <4>3. frames[n].at \in Times
        BY <4>2, Zenon DEF AdapterInv, FramesInv, FrameInv
      <4> QED
        BY <1>3, <2>2, <3>1, <4>1, <4>3, Constants
    <3>4. ASSUME NEW ts \in Seq(Nat), NEW r, Behind(ts, r, b)
          PROVE  Behind(ts, r, at)
      <4>1. /\ Len(ts) \in Nat /\ r \in 0..Len(ts)
            /\ \A i \in 1..Len(ts) : ts[i] \in Nat
            /\ \A i \in 1..r : ts[i] <= b
        BY <3>4 DEF Behind
      <4>2. ASSUME NEW i \in 1..r PROVE ts[i] <= at
        <5>1. i \in 1..Len(ts)
          BY <4>1, <4>2
        <5>2. ts[i] \in Nat /\ ts[i] <= b
          BY <4>1, <4>2, <5>1
        <5> QED
          BY <1>6, <3>3, <5>2
      <4> QED
        BY <4>1, <4>2 DEF Behind
    <3> QED
      BY <1>6, <3>2, <3>4
  <2> QED
    BY <2>1, <2>2
<1>9. Reached(PacketTimes, tread', at) /\ Reached(samples, cread', at)
  BY <1>3, <1>6, <1>8, AdvancedReaches
<1>10. f \in Frame /\ FrameInv(f)
  BY <1>1, <1>9, NewFrame
<1> HIDE DEF f
<1>11. PacketTimes' = PacketTimes /\ Newest' = Newest
  BY <1>2, Zenon DEF PacketTimes, Newest
<1>12. StreamsInv'
  BY <1>2, <1>6, <1>11, Zenon DEF StreamsInv, Ordered
<1>13. SegmentsInv'
  <2>1. /\ segments \in Seq(Segment)
        /\ active \in {NoSegment} \cup Opened
        /\ segments # <<>> => packets # <<>>
        /\ \A i \in DOMAIN segments : segments[i].end <= OpenEnd(Newest)
        /\ \A k \in DOMAIN packets :
             packets[k].on => ClosedRun(k) \/ EndedRun(k)
    BY <1>1, Zenon DEF AdapterInv, SegmentsInv
  <2>2. OpenEnd(Newest)' = OpenEnd(Newest)
    BY <1>11, Zenon DEF OpenEnd
  <2>3. \A k : /\ ClosedRun(k) => ClosedRun(k)'
               /\ EndedRun(k) => EndedRun(k)'
    <3>1. \A k : Run(k)' = Run(k)
      BY <1>2, Zenon DEF Run
    <3> QED
      BY <1>2, <2>2, <3>1, Zenon DEF ClosedRun, EndedRun
  <2>4. phase' # "telemetry"
    BY <1>4
  <2> QED
    BY <1>2, <2>1, <2>2, <2>3, <2>4, Zenon DEF SegmentsInv
<1>14. CursorsInv'
  <2>1. CASE phase' = "error"
    <3>1. phase' # "telemetry" /\ phase' # "frames"
      BY <2>1
    <3> QED
      BY <3>1, Zenon DEF CursorsInv
  <2>2. CASE phase' = "frames" /\ frames' = Append(frames, f)
    <3>1. frames' # <<>> /\ frames'[Len(frames')] = f
      BY <1>7, <1>10, <2>2
    <3>2. frames'[Len(frames')].at = at
      BY <1>5, <3>1, Zenon
    <3>3. /\ Behind(PacketTimes, tread', at) /\ Behind(samples, cread', at)
          /\ tread' \in 0..Len(packets) /\ cread' \in 0..Len(samples)
      BY <1>6, <1>9, Zenon DEF Reached, Behind
    <3>4. phase' # "telemetry"
      BY <2>2
    <3> QED
      BY <1>2, <1>11, <3>1, <3>2, <3>3, <3>4, Zenon DEF CursorsInv, Behind
  <2> QED
    BY <1>4, <2>1, <2>2
<1>15. FramesInv'
  <2>1. \A i \in DOMAIN frames : FrameInv(frames[i])
    BY Zenon DEF AdapterInv, FramesInv
  <2>2. \A g : FrameInv(g) => FrameInv(g)'
    BY <1>2, FramesKept
  <2>3. CASE frames' = frames
    BY <1>7, <2>1, <2>2, <2>3, Zenon DEF FramesInv
  <2>4. CASE frames' = Append(frames, f)
    <3>1. PICK n : n = Len(frames)
      OBVIOUS
    <3>2. /\ n \in Nat /\ DOMAIN frames = 1..n /\ DOMAIN frames' = 1..(n + 1)
          /\ \A i \in 1..n : frames'[i] = frames[i]
          /\ frames'[n + 1] = f /\ frames' \in Seq(Frame)
      BY <1>7, <1>10, <2>4, <3>1
    <3>3. ASSUME NEW i \in 1..(n + 1)
          PROVE  FrameInv(frames[i])'
      <4>1. i \in 1..n \/ i = n + 1
        BY <3>2, <3>3
      <4>2. PICK g : g = frames'[i]
        OBVIOUS
      <4>3. FrameInv(g)
        BY <1>10, <2>1, <3>2, <4>1, <4>2, Zenon
      <4>4. FrameInv(g)'
        BY <2>2, <4>3, Zenon
      <4> QED
        BY <4>2, <4>4, Zenon DEF FrameInv, Kept
    <3> QED
      BY <3>2, <3>3, Zenon DEF FramesInv
  <2> QED
    BY <1>4, <2>3, <2>4
<1> QED
  BY <1>12, <1>13, <1>14, <1>15, Zenon DEF AdapterInv


\* A step that reads nothing and does not begin another pass.
LEMMA NothingRead ==
  ASSUME AdapterInv,
         UNCHANGED <<streams, active, segments, tread, cread, frames>>,
         phase' = phase \/ phase' \in {"error", "done"}
  PROVE  AdapterInv'
<1>1. /\ packets' = packets /\ samples' = samples /\ segments' = segments
      /\ active' = active
      /\ tread' = tread /\ cread' = cread /\ frames' = frames
  BY DEF streams
<1>2. PacketTimes' = PacketTimes /\ Newest' = Newest /\ \A k : Run(k)' = Run(k)
  BY <1>1, Zenon DEF PacketTimes, Newest, Run
<1>3. OpenEnd(Newest)' = OpenEnd(Newest)
  BY <1>2, Zenon DEF OpenEnd
<1>4. StreamsInv'
  BY <1>1, <1>2, Zenon DEF AdapterInv, StreamsInv, Ordered
<1>5. phase' = phase \/ phase' \notin {"telemetry", "frames"}
  OBVIOUS
<1>6. \A k : /\ ClosedRun(k) => ClosedRun(k)'
             /\ OpenRun(k) => OpenRun(k)'
             /\ EndedRun(k) => EndedRun(k)'
  BY <1>1, <1>2, <1>3, Zenon DEF ClosedRun, OpenRun, EndedRun
<1>7. RunsInv => RunsInv'
  BY <1>1, <1>2, <1>6, Zenon DEF RunsInv
<1>8. phase' = "telemetry" => phase = "telemetry"
  BY <1>5
<1>9. phase' = "frames" => phase = "frames"
  BY <1>5
<1>10. SegmentsInv'
  BY <1>1, <1>2, <1>3, <1>6, <1>7, <1>8, <1>9, Zenon DEF AdapterInv, SegmentsInv
<1>11. CursorsInv'
  BY <1>1, <1>2, <1>8, <1>9, Zenon DEF AdapterInv, CursorsInv, Behind
<1>12. FramesInv'
  <2>1. \A g : FrameInv(g) => FrameInv(g)'
    BY <1>1, FramesKept
  <2> QED
    BY <1>1, <2>1, Zenon DEF AdapterInv, FramesInv
<1> QED
  BY <1>4, <1>10, <1>11, <1>12, Zenon DEF AdapterInv

LEMMA NothingReadYet == Init => AdapterInv
<1> SUFFICES ASSUME Init PROVE AdapterInv
  OBVIOUS
<1>1. /\ phase = "telemetry" /\ packets = <<>> /\ active = NoSegment
      /\ segments = <<>> /\ samples = <<>> /\ tread = 0 /\ cread = 0
      /\ frames = <<>>
  BY DEF Init
<1>2. PacketTimes = <<>> /\ DOMAIN packets = {}
  BY <1>1 DEF PacketTimes
<1>3. StreamsInv
  BY <1>1, <1>2 DEF StreamsInv, Ordered
<1>4. RunsInv
  BY <1>1, <1>2, Zenon DEF RunsInv
<1>5. phase # "frames"
  BY <1>1
<1>6. segments \in Seq(Segment) /\ DOMAIN segments = {}
  BY <1>1
<1>7. SegmentsInv
  BY <1>1, <1>4, <1>5, <1>6, Zenon DEF SegmentsInv
<1>8. CursorsInv
  BY <1>1, <1>5, Zenon DEF CursorsInv
<1>9. FramesInv
  BY <1>1 DEF FramesInv
<1> QED
  BY <1>3, <1>7, <1>8, <1>9 DEF AdapterInv

\* AdapterInv holds in every reachable state.
THEOREM AdapterInvariance == Spec => []AdapterInv
<1>1. Init => AdapterInv
  BY NothingReadYet
<1>2. AdapterInv /\ [Next]_vars => AdapterInv'
  <2> SUFFICES ASSUME AdapterInv, [Next]_vars PROVE AdapterInv'
    OBVIOUS
  <2>1. CASE ReadPacket
    BY <2>1, ReadPacketStep
  <2>2. CASE RejectPacket
    BY <2>2, NothingRead DEF RejectPacket
  <2>3. CASE EndOfTelemetry
    BY <2>3, EndOfTelemetryStep
  <2>4. CASE ReadFrame
    BY <2>4, ReadFrameStep
  <2>5. CASE RejectFrame
    BY <2>5, NothingRead DEF RejectFrame
  <2>6. CASE EndOfFrames
    <3>1. phase' \in {"error", "done"}
      BY <2>6 DEF EndOfFrames
    <3> QED
      BY <2>6, <3>1, NothingRead DEF EndOfFrames
  <2>7. CASE UNCHANGED vars
    BY <2>7, NothingRead DEF vars
  <2> QED
    BY <2>1, <2>2, <2>3, <2>4, <2>5, <2>6, <2>7 DEF Next, Terminated
<1> QED
  BY <1>1, <1>2, PTL DEF Spec

\* NearestIsClosest: the cursors of _NearestCursor, which look one record ahead,
\* match every frame as align_nearest() would, for files of any length.
THEOREM MatchesAlwaysClosest == Spec => []NearestIsClosest
<1>1. AdapterInv => NearestIsClosest
  BY Zenon DEF AdapterInv, FramesInv, FrameInv, NearestIsClosest, Closest
<1> QED
  BY <1>1, AdapterInvariance, PTL

\* NoRaceFrameLost: no frame that validate() reads beside a substantial segment
\* of the race is counted as excluded or rejected.
THEOREM RaceFramesAlwaysKept == Spec => []NoRaceFrameLost
<1>1. AdapterInv => NoRaceFrameLost
  BY Zenon DEF AdapterInv, FramesInv, FrameInv, Kept, NoRaceFrameLost
<1> QED
  BY <1>1, AdapterInvariance, PTL

\* TailsExcluded: frames behind the telemetry are excluded, also when the
\* telemetry ends within a race.
THEOREM TailsAlwaysExcluded == Spec => []TailsExcluded
<1>1. AdapterInv => TailsExcluded
  BY Zenon DEF AdapterInv, FramesInv, FrameInv, TailsExcluded, Newest
<1> QED
  BY <1>1, AdapterInvariance, PTL

\* DamageFound: validate() does not come to its end over a controller file with
\* a damaged record.
THEOREM DamageAlwaysFound == Spec => []DamageFound
<1>1. Init => DamageFound
  BY DEF Init, DamageFound
<1>2. DamageFound /\ [Next]_vars => DamageFound'
  <2> SUFFICES ASSUME DamageFound, [Next]_vars, phase' = "done"
               PROVE  damaged' = NoMatch
    BY DEF DamageFound
  <2>1. CASE EndOfFrames
    BY <2>1 DEF EndOfFrames, ReadToTheEnd, streams
  <2>2. CASE UNCHANGED vars
    BY <2>2 DEF vars, streams, DamageFound
  <2>3. CASE ReadPacket
    <3>1. phase = "telemetry"
      BY <2>3 DEF ReadPacket
    <3>2. phase' = phase \/ phase' = "error"
      BY <2>3 DEF ReadPacket, TelemetrySeen, FinishSegment
    <3> QED
      BY <3>1, <3>2
  <2>4. CASE ReadFrame
    <3>1. phase = "frames" /\ (phase' = phase \/ phase' = "error")
      BY <2>4, Zenon DEF ReadFrame
    <3> QED
      BY <3>1
  <2>5. ~RejectPacket /\ ~EndOfTelemetry /\ ~RejectFrame
    BY DEF RejectPacket, EndOfTelemetry, RejectFrame
  <2> QED
    BY <2>1, <2>2, <2>3, <2>4, <2>5 DEF Next, Terminated
<1> QED
  BY <1>1, <1>2, PTL DEF Spec

-----------------------------------------------------------------------------
(* The gaps of the runs.                                                     *)

\* The gaps between two packets of run r.
GapsIn(r) == {k \in 2..Len(packets) : /\ packets[k].gap /\ packets[k - 1].on
                                      /\ packets[k].on /\ Run(k) = r}

\* The inductive invariant: the tracker of a segment has counted the gaps of
\* its run, and when the telemetry is read every run has a segment.
GapsInv ==
  /\ phase # "error" =>
       \A r \in 1..Len(segments) : segments[r].gaps = Cardinality(GapsIn(r))
  /\ phase = "telemetry" /\ active # NoSegment =>
       active.gaps = Cardinality(GapsIn(Len(segments) + 1))
  /\ phase \in {"frames", "done"} =>
       \A k \in DOMAIN packets : packets[k].on => Run(k) \in 1..Len(segments)

LEMMA GapsFinite ==
  ASSUME NEW r, packets \in Seq(Packet)
  PROVE  IsFiniteSet(GapsIn(r)) /\ Cardinality(GapsIn(r)) \in Nat
<1>1. PICK n : n = Len(packets)
  OBVIOUS
<1>2. IsFiniteSet(2..n)
  <2>1. 2 \in Int /\ n \in Int
    BY <1>1
  <2> QED
    BY <2>1, FS_Interval
<1>3. GapsIn(r) \subseteq 2..n
  BY <1>1 DEF GapsIn
<1>4. IsFiniteSet(GapsIn(r))
  BY <1>2, <1>3, FS_Subset
<1> QED
  BY <1>4, FS_CardinalityType

\* Another packet adds a gap to the run it belongs to, and to no other.
LEMMA GapAppended ==
  ASSUME packets \in Seq(Packet), NEW p \in Packet,
         packets' = Append(packets, p), NEW n, n = Len(packets), NEW r,
         NEW fresh,
         fresh <=> /\ n > 0 /\ p.gap /\ packets[n].on /\ p.on
                   /\ Run(n + 1)' = r
  PROVE  /\ fresh => Cardinality(GapsIn(r)') = Cardinality(GapsIn(r)) + 1
         /\ ~fresh => GapsIn(r)' = GapsIn(r)
<1>1. /\ n \in Nat /\ Len(packets') = n + 1 /\ packets'[n + 1] = p
      /\ \A k \in 1..n : packets'[k] = packets[k]
  BY PacketAppended
<1>2. \A k \in 0..n : Run(k)' = Run(k)
  BY RunAppended
<1> DEFINE In(k) == /\ packets[k].gap /\ packets[k - 1].on
                    /\ packets[k].on /\ Run(k) = r
<1>3. ASSUME NEW k \in 2..n PROVE In(k)' <=> In(k)
  <2>1. k \in 1..n /\ k - 1 \in 1..n /\ k \in 0..n
    BY <1>1, <1>3
  <2>2. /\ packets'[k] = packets[k] /\ packets'[k - 1] = packets[k - 1]
        /\ Run(k)' = Run(k)
    BY <1>1, <1>2, <2>1
  <2> QED
    BY <2>2
<1>4. n > 0 => (In(n + 1)' <=> fresh)
  <2> SUFFICES ASSUME n > 0 PROVE In(n + 1)' <=> fresh
    OBVIOUS
  <2>1. (n + 1) - 1 = n /\ n \in 1..n
    BY <1>1
  <2>2. packets'[n] = packets[n] /\ packets'[(n + 1) - 1] = packets[n]
    BY <1>1, <2>1
  <2> QED
    BY <1>1, <2>2
<1>5. /\ GapsIn(r) = {k \in 2..n : In(k)}
      /\ GapsIn(r)' = {k \in 2..(n + 1) : In(k)'}
  <2>1. GapsIn(r) = {k \in 2..n : In(k)}
    BY Zenon DEF GapsIn
  <2>2. GapsIn(r)' = {k \in 2..Len(packets') : In(k)'}
    BY Zenon DEF GapsIn
  <2> QED
    BY <1>1, <2>1, <2>2
<1>6. \A k \in 2..(n + 1) : k \in 2..n \/ (k = n + 1 /\ n > 0)
  BY <1>1
<1>7. \A k \in 2..n : k \in 2..(n + 1)
  BY <1>1
<1>8. n > 0 => n + 1 \in 2..(n + 1)
  BY <1>1
<1>9. n + 1 \notin 2..n
  BY <1>1
<1> HIDE DEF In
<1>10. ASSUME fresh PROVE GapsIn(r)' = GapsIn(r) \cup {n + 1}
  BY <1>3, <1>4, <1>5, <1>6, <1>7, <1>8, <1>10
<1>11. ASSUME ~fresh PROVE GapsIn(r)' = GapsIn(r)
  BY <1>3, <1>4, <1>5, <1>6, <1>7, <1>11
<1>12. n + 1 \notin GapsIn(r)
  BY <1>5, <1>9
<1>13. Cardinality(GapsIn(r) \cup {n + 1}) = Cardinality(GapsIn(r)) + 1
  BY <1>12, GapsFinite, FS_AddElement
<1> QED
  BY <1>10, <1>11, <1>13

\* The first gap of a run is behind its first packet.
LEMMA NoGapYet ==
  ASSUME packets \in Seq(Packet), segments \in Seq(Segment), RunsInv,
         active = NoSegment
  PROVE  GapsIn(Len(segments) + 1) = {}
<1>1. SUFFICES ASSUME NEW k \in GapsIn(Len(segments) + 1) PROVE FALSE
  OBVIOUS
<1>2. k \in 2..Len(packets) /\ packets[k].on /\ Run(k) = Len(segments) + 1
  BY <1>1 DEF GapsIn
<1>3. k \in DOMAIN packets
  BY <1>2
<1>4. ClosedRun(k) \/ OpenRun(k)
  BY <1>2, <1>3 DEF RunsInv
<1>5. Run(k) \in 1..Len(segments)
  BY <1>4 DEF ClosedRun, OpenRun
<1>6. Len(segments) \in Nat
  OBVIOUS
<1> QED
  BY <1>2, <1>5, <1>6

LEMMA GapsReadPacket == AdapterInv /\ GapsInv /\ ReadPacket => GapsInv'
<1> SUFFICES ASSUME AdapterInv, GapsInv, ReadPacket PROVE GapsInv'
  OBVIOUS
<1>1. /\ packets \in Seq(Packet) /\ segments \in Seq(Segment)
      /\ active \in {NoSegment} \cup Opened
  BY Zenon DEF AdapterInv, StreamsInv, SegmentsInv
<1>2. phase = "telemetry" /\ RunsInv
  BY Zenon DEF ReadPacket, AdapterInv, SegmentsInv
<1>3. PICK p \in Packet : packets' = Append(packets, p) /\ TelemetrySeen(p)
  BY Zenon DEF ReadPacket
<1>4. PICK n, m : n = Len(packets) /\ m = Len(segments)
  OBVIOUS
<1>5. /\ active # NoSegment <=> n > 0 /\ packets[n].on
      /\ Run(n) = m + (IF active = NoSegment THEN 0 ELSE 1)
  BY <1>1, <1>2, <1>4, LastRun, Zenon
<1>6. Run(n + 1)' = IF p.on /\ (n > 0 => ~packets[n].on)
                      THEN Run(n) + 1 ELSE Run(n)
  BY <1>1, <1>3, <1>4, RunAppended
<1>7. /\ \A r \in 1..m : segments[r].gaps = Cardinality(GapsIn(r))
      /\ active # NoSegment => active.gaps = Cardinality(GapsIn(m + 1))
  <2>1. phase # "error"
    BY <1>2
  <2> QED
    BY <1>2, <1>4, <2>1, Zenon DEF GapsInv
<1>8. m \in Nat /\ DOMAIN segments = 1..m
  BY <1>1, <1>4
<1>9. phase' \in {"telemetry", "error"}
  BY <1>1, <1>2, <1>3, SeenKinds
<1>10. phase' \notin {"frames", "done"}
  BY <1>9
<1>11. ASSUME NEW r, NEW fresh,
              fresh <=> /\ n > 0 /\ p.gap /\ packets[n].on /\ p.on
                        /\ Run(n + 1)' = r
       PROVE  /\ fresh => Cardinality(GapsIn(r)') = Cardinality(GapsIn(r)) + 1
              /\ ~fresh => GapsIn(r)' = GapsIn(r)
  BY <1>1, <1>3, <1>4, <1>11, GapAppended
<1>12. ASSUME NEW r,
              ~(p.gap /\ p.on /\ active # NoSegment /\ r = m + 1)
       PROVE  GapsIn(r)' = GapsIn(r)
  <2>1. ~(/\ n > 0 /\ p.gap /\ packets[n].on /\ p.on /\ Run(n + 1)' = r)
    <3>1. ASSUME n > 0, packets[n].on
          PROVE  active # NoSegment /\ Run(n + 1)' = m + 1
      BY <1>5, <1>6, <3>1, Zenon
    <3> QED
      BY <1>12, <3>1, Zenon
  <2> QED
    BY <1>11, <2>1, Zenon
<1>13. CASE ~p.on /\ segments' = segments /\ active' = active /\ phase' = phase
  <2>1. \A r : GapsIn(r)' = GapsIn(r)
    BY <1>12, <1>13, Zenon
  <2> QED
    BY <1>4, <1>7, <1>10, <1>13, <2>1, Zenon DEF GapsInv
<1>14. CASE phase' = "error"
  BY <1>14 DEF GapsInv
<1>15. CASE /\ ~p.on /\ active # NoSegment /\ active' = NoSegment
            /\ segments' = Append(segments, [start |-> active.start,
                                             end |-> p.at,
                                             gaps |-> active.gaps])
  <2>1. \A r : GapsIn(r)' = GapsIn(r)
    BY <1>12, <1>15, Zenon
  <2>2. PICK x : x = [start |-> active.start, end |-> p.at,
                      gaps |-> active.gaps]
    OBVIOUS
  <2>3. x.gaps = active.gaps
    BY <2>2
  <2>4. /\ Len(segments') = m + 1 /\ segments'[m + 1] = x
        /\ \A i \in 1..m : segments'[i] = segments[i]
    <3>1. segments' = Append(segments, x)
      BY <1>15, <2>2
    <3> QED
      BY <1>1, <1>4, <3>1
  <2>5. ASSUME NEW r \in 1..(m + 1)
        PROVE  segments'[r].gaps = Cardinality(GapsIn(r)')
    <3>1. r \in 1..m \/ r = m + 1
      BY <1>8
    <3> QED
      BY <1>7, <1>15, <2>1, <2>3, <2>4, <3>1, Zenon
  <2> QED
    BY <1>10, <1>15, <2>4, <2>5, Zenon DEF GapsInv
<1>16. CASE /\ p.on /\ active = NoSegment /\ active' = NewSegment(p)
            /\ segments' = segments
  <2>1. \A r : GapsIn(r)' = GapsIn(r)
    BY <1>12, <1>16, Zenon
  <2>2. active'.gaps = 0
    BY <1>16 DEF NewSegment
  <2>3. Cardinality(GapsIn(m + 1)) = 0
    BY <1>1, <1>2, <1>4, <1>16, NoGapYet, FS_EmptySet
  <2> QED
    BY <1>4, <1>7, <1>10, <1>16, <2>1, <2>2, <2>3, Zenon DEF GapsInv
<1>17. CASE /\ p.on /\ active # NoSegment /\ segments' = segments
            /\ active' = [active EXCEPT !.gaps = IF p.gap THEN @ + 1 ELSE @]
  <2>1. active \in Opened
    BY <1>1, <1>17
  <2>2. active'.gaps = IF p.gap THEN active.gaps + 1 ELSE active.gaps
    BY <1>17, <2>1 DEF Opened
  <2>3. n > 0 /\ packets[n].on /\ Run(n + 1)' = m + 1
    BY <1>5, <1>6, <1>17, Zenon
  <2>4. Cardinality(GapsIn(m + 1)') = IF p.gap
                                        THEN Cardinality(GapsIn(m + 1)) + 1
                                        ELSE Cardinality(GapsIn(m + 1))
    <3>1. CASE p.gap
      BY <1>11, <1>17, <2>3, <3>1, Zenon
    <3>2. CASE ~p.gap
      BY <1>12, <3>2, Zenon
    <3> QED
      BY <3>1, <3>2, Zenon
  <2>5. active'.gaps = Cardinality(GapsIn(m + 1)')
    BY <1>7, <1>17, <2>2, <2>4, Zenon
  <2>6. ASSUME NEW r \in 1..m PROVE GapsIn(r)' = GapsIn(r)
    <3>1. r # m + 1
      BY <1>8
    <3> QED
      BY <1>12, <3>1, Zenon
  <2>7. \A r \in 1..m : segments[r].gaps = Cardinality(GapsIn(r)')
    BY <1>7, <2>6, Zenon
  <2> QED
    BY <1>4, <1>10, <1>17, <2>5, <2>7, Zenon DEF GapsInv
<1> QED
  <2>1. CASE ~p.on
    BY <1>3, <1>13, <1>14, <1>15, <2>1 DEF TelemetrySeen, FinishSegment
  <2>2. CASE p.on
    BY <1>3, <1>16, <1>17, <2>2 DEF TelemetrySeen
  <2> QED
    BY <2>1, <2>2

LEMMA GapsEndOfTelemetry == AdapterInv /\ GapsInv /\ EndOfTelemetry => GapsInv'
<1> SUFFICES ASSUME AdapterInv, GapsInv, EndOfTelemetry PROVE GapsInv'
  OBVIOUS
<1>1. /\ packets \in Seq(Packet) /\ segments \in Seq(Segment)
  BY Zenon DEF AdapterInv, StreamsInv, SegmentsInv
<1>2. phase = "telemetry" /\ packets' = packets /\ RunsInv
  BY Zenon DEF EndOfTelemetry, AdapterInv, SegmentsInv
<1>3. PICK m : m = Len(segments)
  OBVIOUS
<1>4. /\ m \in Nat
      /\ \A r \in 1..m : segments[r].gaps = Cardinality(GapsIn(r))
      /\ active # NoSegment => active.gaps = Cardinality(GapsIn(m + 1))
  <2>1. phase # "error" /\ m \in Nat
    BY <1>1, <1>2, <1>3
  <2> QED
    BY <1>2, <1>3, <2>1, Zenon DEF GapsInv
<1>5. /\ \A k : Run(k)' = Run(k) /\ \A r : GapsIn(r)' = GapsIn(r)
  BY <1>2, Zenon DEF Run, GapsIn
<1>6. \A k \in DOMAIN packets : packets[k].on =>
        \/ Run(k) \in 1..m
        \/ active # NoSegment /\ Run(k) = m + 1
  BY <1>2, <1>3, Zenon DEF RunsInv, ClosedRun, OpenRun
<1>7. CASE phase' = "error"
  BY <1>7 DEF GapsInv
<1>8. CASE phase' = "frames" /\ active = NoSegment /\ segments' = segments
  <2>1. phase' # "telemetry"
    BY <1>8
  <2> QED
    BY <1>2, <1>3, <1>4, <1>5, <1>6, <1>8, <2>1, Zenon DEF GapsInv
<1>9. CASE /\ phase' = "frames" /\ active # NoSegment
           /\ segments' = Append(segments,
                                 [start |-> active.start,
                                  end |-> OpenEnd(packets[Len(packets)].at),
                                  gaps |-> active.gaps])
  <2>1. PICK x : x = [start |-> active.start,
                      end |-> OpenEnd(packets[Len(packets)].at),
                      gaps |-> active.gaps]
    OBVIOUS
  <2>2. x.gaps = active.gaps
    BY <2>1
  <2>3. /\ Len(segments') = m + 1 /\ segments'[m + 1] = x
        /\ \A i \in 1..m : segments'[i] = segments[i]
    <3>1. segments' = Append(segments, x)
      BY <1>9, <2>1
    <3> QED
      BY <1>1, <1>3, <3>1
  <2>4. ASSUME NEW r \in 1..(m + 1)
        PROVE  segments'[r].gaps = Cardinality(GapsIn(r)')
    <3>1. r \in 1..m \/ r = m + 1
      BY <1>4
    <3> QED
      BY <1>4, <1>5, <1>9, <2>2, <2>3, <3>1, Zenon
  <2>5. \A k \in DOMAIN packets : packets[k].on => Run(k) \in 1..(m + 1)
    <3>1. \A i \in 1..m : i \in 1..(m + 1)
      BY <1>4
    <3>2. m + 1 \in 1..(m + 1)
      BY <1>4
    <3> QED
      BY <1>6, <3>1, <3>2, Zenon
  <2>6. phase' # "telemetry"
    BY <1>9
  <2> QED
    BY <1>2, <1>5, <2>3, <2>4, <2>5, <2>6, Zenon DEF GapsInv
<1> QED
  BY <1>7, <1>8, <1>9 DEF EndOfTelemetry

LEMMA GapsUntouched ==
  ASSUME GapsInv, UNCHANGED <<packets, active, segments>>,
         \/ phase' \in {phase, "error"}
         \/ phase = "frames" /\ phase' = "done"
  PROVE  GapsInv'
<1>1. /\ packets' = packets /\ active' = active /\ segments' = segments
      /\ \A k : Run(k)' = Run(k) /\ \A r : GapsIn(r)' = GapsIn(r)
  BY Zenon DEF Run, GapsIn
<1>2. CASE phase' = "error"
  BY <1>2 DEF GapsInv
<1>3. CASE phase' = phase
  BY <1>1, <1>3, Zenon DEF GapsInv
<1>4. CASE phase = "frames" /\ phase' = "done"
  <2>1. phase # "error" /\ phase' # "telemetry" /\ phase \in {"frames", "done"}
    BY <1>4
  <2> QED
    BY <1>1, <2>1, Zenon DEF GapsInv
<1> QED
  BY <1>2, <1>3, <1>4

LEMMA GapsCounted == Spec => []GapsInv
<1>1. Init => GapsInv
  <2> SUFFICES ASSUME Init PROVE GapsInv
    OBVIOUS
  <2>1. phase = "telemetry" /\ segments = <<>> /\ active = NoSegment
    BY DEF Init
  <2>2. 1..Len(segments) = {} /\ phase \notin {"frames", "done"}
    BY <2>1
  <2> QED
    BY <2>1, <2>2 DEF GapsInv
<1>2. AdapterInv /\ GapsInv /\ [Next]_vars => GapsInv'
  <2> SUFFICES ASSUME AdapterInv, GapsInv, [Next]_vars PROVE GapsInv'
    OBVIOUS
  <2>1. CASE ReadPacket
    BY <2>1, GapsReadPacket
  <2>2. CASE EndOfTelemetry
    BY <2>2, GapsEndOfTelemetry
  <2>3. CASE ReadFrame
    <3>1. phase' = phase \/ phase' = "error"
      BY <2>3, Zenon DEF ReadFrame
    <3>2. packets' = packets /\ active' = active /\ segments' = segments
      BY <2>3, Zenon DEF ReadFrame, streams
    <3> QED
      BY <3>1, <3>2, GapsUntouched
  <2>4. CASE RejectPacket \/ RejectFrame \/ EndOfFrames
    <3>1. \/ phase' \in {phase, "error"}
          \/ phase = "frames" /\ phase' = "done"
      BY <2>4 DEF RejectPacket, RejectFrame, EndOfFrames
    <3>2. packets' = packets /\ active' = active /\ segments' = segments
      BY <2>4 DEF RejectPacket, RejectFrame, EndOfFrames, streams
    <3> QED
      BY <3>1, <3>2, GapsUntouched
  <2>5. CASE UNCHANGED vars
    BY <2>5, GapsUntouched DEF vars, streams
  <2> QED
    BY <2>1, <2>2, <2>3, <2>4, <2>5 DEF Next, Terminated
<1> QED
  BY <1>1, <1>2, AdapterInvariance, PTL DEF Spec

\* The sum over the segments, by what it is after each of them.
LEMMA GapsAre ==
  ASSUME NEW m \in Nat, m = Len(segments), NEW f \in [0..m -> Nat], f[0] = 0,
         \A i \in 1..m : f[i] = f[i - 1] + (IF Substantial(segments[i])
                                              THEN segments[i].gaps ELSE 0)
  PROVE  Gaps = f[m]
<1> DEFINE counted(i) == IF Substantial(segments[i])
                           THEN segments[i].gaps ELSE 0
           Fits(g) == g = [i \in 0..m |-> IF i = 0 THEN 0
                                          ELSE g[i - 1] + counted(i)]
<1>1. PICK c : c = [i \in 1..m |-> counted(i)]
  OBVIOUS
<1>2. \A i \in 1..m : c[i] = counted(i) /\ f[i] = f[i - 1] + c[i]
  BY <1>1
<1>3. \A i \in 0..m : i # 0 => i \in 1..m
  OBVIOUS
<1>4. Fits(f)
  <2>1. f = [i \in 0..m |-> f[i]]
    OBVIOUS
  <2>2. \A i \in 0..m : f[i] = IF i = 0 THEN 0 ELSE f[i - 1] + counted(i)
    BY <1>2, <1>3, Zenon
  <2> HIDE DEF counted
  <2> QED
    BY <2>1, <2>2
<1>5. PICK g : g = CHOOSE h : Fits(h)
  OBVIOUS
<1>6. Fits(g)
  BY <1>4, <1>5, Zenon
<1>7. g[0] = 0 /\ \A i \in 1..m : g[i] = g[i - 1] + c[i]
  <2> HIDE DEF counted
  <2>1. \A i \in 0..m : g[i] = IF i = 0 THEN 0 ELSE g[i - 1] + counted(i)
    BY <1>6
  <2>2. 0 \in 0..m /\ \A i \in 1..m : i \in 0..m /\ i # 0
    OBVIOUS
  <2> QED
    BY <1>2, <2>1, <2>2, Zenon
<1>8. ASSUME NEW i \in 0..m, g[i] # f[i] PROVE FALSE
  <2> DEFINE T == {x \in 0..m : g[x] # f[x]}
  <2>1. PICK x \in T : \A y \in T : x <= y
    <3>1. T \subseteq Nat /\ i \in T
      BY <1>8
    <3> HIDE DEF T
    <3> QED
      BY <3>1, SmallestExists
  <2>2. x \in 0..m /\ g[x] # f[x] /\ x # 0
    BY <1>7, <2>1
  <2>3. x \in 1..m /\ x - 1 \in 0..m /\ ~(x <= x - 1)
    BY <2>2
  <2>4. g[x - 1] = f[x - 1]
    BY <2>1, <2>3
  <2> QED
    BY <1>2, <1>7, <2>2, <2>3, <2>4, Zenon
<1>9. Gaps = g[m]
  BY <1>5, Zenon DEF Gaps
<1> QED
  BY <1>8, <1>9

\* GapsOfRaceOnly: continuity_diagnostics of the selected segments are the gaps
\* between two packets of one substantial run: none over a pause and none of a
\* transient, for telemetry of any length.
THEOREM RaceGapsCounted == Spec => []GapsOfRaceOnly
<1>1. AdapterInv /\ GapsInv => GapsOfRaceOnly
  <2> SUFFICES ASSUME AdapterInv, GapsInv, Read
               PROVE  Gaps = Cardinality({k \in 2..Len(packets) :
                               /\ packets[k].gap /\ packets[k - 1].on
                               /\ RaceOn(k)})
    BY Zenon DEF GapsOfRaceOnly
  <2>1. PICK n, m : n = Len(packets) /\ m = Len(segments)
    OBVIOUS
  <2>2. /\ packets \in Seq(Packet) /\ segments \in Seq(Segment)
        /\ n \in Nat /\ m \in Nat /\ DOMAIN packets = 1..n
        /\ \A i \in 1..m : segments[i].gaps \in Nat
    <3>1. packets \in Seq(Packet) /\ segments \in Seq(Segment)
      BY Zenon DEF AdapterInv, StreamsInv, SegmentsInv
    <3>2. \A i \in 1..m : segments[i] \in Segment
      BY <2>1, <3>1
    <3>3. \A s \in Segment : s.gaps \in Nat
      BY DEF Segment
    <3> QED
      BY <2>1, <3>1, <3>2, <3>3
  <2>3. /\ \A r \in 1..m : segments[r].gaps = Cardinality(GapsIn(r))
        /\ \A k \in 1..n : packets[k].on => Run(k) \in 1..m
    <3>1. phase # "error" /\ phase \in {"frames", "done"}
      BY DEF Read
    <3> QED
      BY <2>1, <2>2, <3>1, Zenon DEF GapsInv
  <2> DEFINE C(i) == {k \in 2..n : /\ packets[k].gap /\ packets[k - 1].on
                                   /\ RaceOn(k) /\ Run(k) <= i}
  <2>4. \A k \in 2..n : k \in 1..n /\ k # NoMatch
    BY <2>2 DEF NoMatch
  <2>5. ASSUME NEW k \in 2..n, RaceOn(k) PROVE Run(k) \in 1..m
    BY <2>3, <2>4, <2>5 DEF RaceOn
  <2>6. ASSUME NEW i \in 0..m
        PROVE  IsFiniteSet(C(i)) /\ Cardinality(C(i)) \in Nat
    <3>1. IsFiniteSet(2..n)
      <4>1. 2 \in Int /\ n \in Int
        BY <2>2
      <4> QED
        BY <4>1, FS_Interval
    <3>2. C(i) \subseteq 2..n
      OBVIOUS
    <3> HIDE DEF C
    <3>3. IsFiniteSet(C(i))
      BY <3>1, <3>2, FS_Subset
    <3> QED
      BY <3>3, FS_CardinalityType
  <2>7. C(0) = {}
    <3>1. \A k \in 2..n : RaceOn(k) => ~(Run(k) <= 0)
      BY <2>2, <2>5
    <3> QED
      BY <3>1
  <2>8. ASSUME NEW i \in 1..m
        PROVE  Cardinality(C(i)) =
                 Cardinality(C(i - 1)) + (IF Substantial(segments[i])
                                            THEN segments[i].gaps ELSE 0)
    <3>1. i - 1 \in 0..m
      BY <2>2
    <3>2. ASSUME NEW k \in 2..n, RaceOn(k)
          PROVE  Run(k) <= i <=> Run(k) <= i - 1 \/ Run(k) = i
      <4>1. Run(k) \in 1..m
        BY <2>5, <3>2
      <4> QED
        BY <2>2, <4>1
    <3>3. \A k \in 2..n : Run(k) = i => (RaceOn(k) <=> packets[k].on
                                          /\ Substantial(segments[i]))
      BY <2>4, Zenon DEF RaceOn
    <3>4. GapsIn(i) = {k \in 2..n : /\ packets[k].gap /\ packets[k - 1].on
                                    /\ packets[k].on /\ Run(k) = i}
      BY <2>1, Zenon DEF GapsIn
    <3>5. CASE Substantial(segments[i])
      <4>1. C(i) = C(i - 1) \cup GapsIn(i)
        BY <3>2, <3>3, <3>4, <3>5, Zenon
      <4>2. C(i - 1) \cap GapsIn(i) = {}
        <5>1. \A k \in C(i - 1) : Run(k) <= i - 1
          OBVIOUS
        <5>2. \A k \in GapsIn(i) : Run(k) = i
          BY <3>4
        <5>3. ~(i <= i - 1)
          BY <2>2
        <5> QED
          BY <5>1, <5>2, <5>3, Zenon
      <4>3. /\ IsFiniteSet(C(i - 1)) /\ Cardinality(C(i - 1)) \in Nat
            /\ IsFiniteSet(GapsIn(i)) /\ Cardinality(GapsIn(i)) \in Nat
        BY <2>2, <2>6, <3>1, GapsFinite, Zenon
      <4> HIDE DEF C
      <4>4. Cardinality(C(i - 1) \cup GapsIn(i))
              = Cardinality(C(i - 1)) + Cardinality(GapsIn(i)) - 0
        <5>1. PICK A, B : A = C(i - 1) /\ B = GapsIn(i)
          OBVIOUS
        <5>2. IsFiniteSet(A) /\ IsFiniteSet(B) /\ A \cap B = {}
          BY <4>2, <4>3, <5>1
        <5>3. Cardinality({}) = 0
          BY FS_EmptySet
        <5>4. Cardinality(A \cup B)
                = Cardinality(A) + Cardinality(B) - Cardinality(A \cap B)
          BY <5>2, FS_Union
        <5> QED
          BY <5>1, <5>2, <5>3, <5>4, Zenon
      <4> QED
        BY <2>3, <3>5, <4>1, <4>3, <4>4
    <3>6. CASE ~Substantial(segments[i])
      <4>1. C(i) = C(i - 1)
        BY <3>2, <3>3, <3>6, Zenon
      <4> HIDE DEF C
      <4> QED
        BY <2>6, <3>1, <3>6, <4>1
    <3> QED
      BY <3>5, <3>6
  <2>9. PICK f : f = [i \in 0..m |-> Cardinality(C(i))]
    OBVIOUS
  <2>10. {k \in 2..Len(packets) : /\ packets[k].gap /\ packets[k - 1].on
                                  /\ RaceOn(k)} = C(m)
    <3>1. \A k \in 2..n : RaceOn(k) => Run(k) <= m
      BY <2>2, <2>5
    <3> QED
      BY <2>1, <3>1, Zenon
  <2> HIDE DEF C
  <2>11. f \in [0..m -> Nat]
    BY <2>6, <2>9
  <2>12. f[0] = 0
    <3>1. 0 \in 0..m /\ Cardinality({}) = 0
      BY <2>2, FS_EmptySet
    <3> QED
      BY <2>7, <2>9, <3>1
  <2>13. \A i \in 1..m : f[i] = f[i - 1] + (IF Substantial(segments[i])
                                              THEN segments[i].gaps ELSE 0)
    <3>1. \A i \in 1..m : i \in 0..m /\ i - 1 \in 0..m
      BY <2>2
    <3>2. \A i \in 1..m : f[i] = Cardinality(C(i))
                          /\ f[i - 1] = Cardinality(C(i - 1))
      BY <2>9, <3>1
    <3> QED
      BY <2>8, <3>2, Zenon
  <2>14. Gaps = f[m]
    BY <2>1, <2>2, <2>11, <2>12, <2>13, GapsAre
  <2>15. f[m] = Cardinality(C(m))
    BY <2>2, <2>9
  <2> QED
    BY <2>10, <2>14, <2>15, Zenon
<1> QED
  BY <1>1, AdapterInvariance, GapsCounted, PTL
=============================================================================
