------------------------ MODULE LapStateMachineProofs ------------------------
(* What the lap machine emits, for any packets, any number of them, and any   *)
(* modulus of the clock.                                                      *)
EXTENDS LapStateMachine, SequenceTheorems, TLAPS

PacketType == [on : BOOLEAN, lap : Nat, race : Nat, game : Int]

Last == Len(packets)

\* Of the lap in progress the machine knows what the packets since its start
\* tell: its number, when it began and whether that was a boundary.  It began
\* no later than that: before it was another lap, or an interruption.
ProgressInv ==
  /\ active <=> Last > 0 /\ packets[Last].on
  /\ active =>
       /\ lap = packets[Last].lap
       /\ race = packets[Last].race
       /\ game = packets[Last].game
       /\ lapStart \in 1..Last
       /\ lapStartRace = packets[lapStart].race
       /\ boundarySeen <=> Boundary(lapStart)
       /\ \A k \in lapStart..Last : packets[k].lap = lap
       /\ \A k \in lapStart..(Last - 1) : Continues(k)
       /\ lapStart > 1 /\ Continues(lapStart - 1) => packets[lapStart - 1].lap # lap

LapInv == /\ packets \in Seq(PacketType)
          /\ active \in BOOLEAN /\ boundarySeen \in BOOLEAN
          /\ ProgressInv
          /\ CandidatesAreWholeLaps

LEMMA PacketsTyped ==
  ASSUME LapAssumption, NEW p \in NextPackets, packets \in Seq(PacketType)
  PROVE  p \in PacketType
<1>1. ASSUME NEW step \in GameSteps PROVE GameAfter(step) \in Int
  <2>1. step \in Int /\ Modulus \in Nat \ {0}
    BY DEF LapAssumption
  <2>2. CASE packets = <<>>
    BY <2>2 DEF GameAfter
  <2>3. CASE packets # <<>>
    <3>1. packets[Len(packets)].game \in Int
      <4>1. Len(packets) \in 1..Len(packets)
        BY <2>3, EmptySeq
      <4>2. packets[Len(packets)] \in PacketType
        BY <4>1, ElementOfSeq
      <4> QED
        BY <4>2 DEF PacketType
    <3>2. packets[Len(packets)].game + step \in Int
      BY <2>1, <3>1
    <3>3. (packets[Len(packets)].game + step) % Modulus \in Int
      BY <2>1, <3>2
    <3> QED
      BY <2>3, <3>3 DEF GameAfter
  <2> QED
    BY <2>2, <2>3
<1>2. 0..MaxLap \subseteq Nat /\ 0..MaxRace \subseteq Nat
  BY DEF LapAssumption
<1>3. CASE p = [on |-> FALSE, lap |-> 0, race |-> 0, game |-> 0]
  BY <1>3 DEF PacketType
<1>4. CASE p \in {[on |-> TRUE, lap |-> l, race |-> r, game |-> GameAfter(step)] :
                   l \in 0..MaxLap, r \in 0..MaxRace, step \in GameSteps}
  <2>1. PICK l \in 0..MaxLap, r \in 0..MaxRace, step \in GameSteps :
          p = [on |-> TRUE, lap |-> l, race |-> r, game |-> GameAfter(step)]
    BY <1>4
  <2>2. l \in Nat /\ r \in Nat /\ GameAfter(step) \in Int
    BY <1>1, <1>2
  <2> QED
    BY <2>1, <2>2 DEF PacketType
<1> QED
  BY <1>3, <1>4 DEF NextPackets

LEMMA Appended ==
  ASSUME packets \in Seq(PacketType), NEW p \in PacketType,
         packets' = Append(packets, p)
  PROVE  /\ packets' \in Seq(PacketType)
         /\ Last \in Nat /\ Last' = Last + 1
         /\ DOMAIN packets = 1..Last /\ DOMAIN packets' = 1..(Last + 1)
         /\ packets'[Last + 1] = p
         /\ \A k \in 1..Last : packets'[k] = packets[k] /\ packets[k] \in PacketType
BY DEF Last

\* What was read keeps its meaning when another packet is read.
LEMMA HistoryKept ==
  ASSUME packets \in Seq(PacketType), NEW p \in PacketType,
         packets' = Append(packets, p)
  PROVE  /\ \A k \in 1..(Last - 1) : Continues(k)' <=> Continues(k)
         /\ \A k \in 1..Last : Boundary(k)' <=> Boundary(k)
         /\ \A i, j \in 1..Last : /\ WholeLap(i, j)' <=> WholeLap(i, j)
                                  /\ Lap(i, j)' = Lap(i, j)
<1>1. Last \in Nat /\ \A k \in 1..Last : packets'[k] = packets[k]
  BY Appended
<1>2. ASSUME NEW k \in 1..(Last - 1) PROVE Continues(k)' <=> Continues(k)
  <2>1. k \in 1..Last /\ k + 1 \in 1..Last
    BY <1>1, <1>2
  <2>2. packets'[k] = packets[k] /\ packets'[k + 1] = packets[k + 1]
    BY <1>1, <2>1
  <2> QED
    BY <2>2 DEF Continues, GameClockRegressed
<1>3. ASSUME NEW k \in 1..Last PROVE Boundary(k)' <=> Boundary(k)
  <2>1. CASE k > 1
    <3>1. k - 1 \in 1..(Last - 1) /\ k - 1 \in 1..Last
      BY <1>1, <1>3, <2>1
    <3> QED
      BY <1>1, <1>2, <1>3, <3>1 DEF Boundary
  <2>2. CASE ~(k > 1)
    BY <2>2 DEF Boundary
  <2> QED
    BY <2>1, <2>2
<1>4. ASSUME NEW i \in 1..Last, NEW j \in 1..Last
      PROVE  (WholeLap(i, j)' <=> WholeLap(i, j)) /\ Lap(i, j)' = Lap(i, j)
  <2>1. \A k \in i..(j - 1) : k \in 1..Last /\ k \in 1..(Last - 1)
    BY <1>1, <1>4
  <2> QED
    BY <1>1, <1>2, <1>3, <1>4, <2>1 DEF WholeLap, Lap
<1> QED
  BY <1>2, <1>3, <1>4

\* A packet that is no boundary ends no lap.
LEMMA NoNewLap ==
  ASSUME packets \in Seq(PacketType), NEW p \in PacketType,
         packets' = Append(packets, p), candidates' = candidates,
         ~Boundary(Last)', CandidatesAreWholeLaps
  PROVE  CandidatesAreWholeLaps'
<1>1. /\ Last \in Nat /\ Last' = Last + 1
      /\ DOMAIN packets = 1..Last /\ DOMAIN packets' = 1..(Last + 1)
  BY Appended
<1>2. /\ \A c \in candidates :
           \E i, j \in 1..Last : WholeLap(i, j) /\ c = Lap(i, j)
      /\ \A i, j \in 1..Last : WholeLap(i, j) => Lap(i, j) \in candidates
  BY <1>1 DEF CandidatesAreWholeLaps
<1>3. ASSUME NEW c \in candidates
      PROVE  \E i, j \in 1..(Last + 1) : WholeLap(i, j)' /\ c = Lap(i, j)'
  <2>1. PICK i, j \in 1..Last : WholeLap(i, j) /\ c = Lap(i, j)
    BY <1>2, <1>3
  <2>2. WholeLap(i, j)' /\ c = Lap(i, j)'
    BY <2>1, HistoryKept
  <2>3. i \in 1..(Last + 1) /\ j \in 1..(Last + 1)
    BY <1>1
  <2> QED
    BY <2>2, <2>3
<1>4. ASSUME NEW i \in 1..(Last + 1), NEW j \in 1..(Last + 1), WholeLap(i, j)'
      PROVE  Lap(i, j)' \in candidates
  <2>1. i < j /\ Boundary(j)'
    BY <1>4 DEF WholeLap
  <2>2. j # Last'
    BY <2>1, Zenon
  <2>3. i \in 1..Last /\ j \in 1..Last
    BY <1>1, <1>4, <2>1, <2>2
  <2> QED
    BY <1>2, <1>4, <2>3, HistoryKept
<1> QED
  BY <1>1, <1>3, <1>4 DEF CandidatesAreWholeLaps

\* The new packet carries on from the last one if the machine finds that the
\* race is on and that nothing went back.
LEMMA LastContinues ==
  ASSUME packets \in Seq(PacketType), NEW p \in PacketType, ProgressInv,
         packets' = Append(packets, p), NEW n, n = Last
  PROVE  /\ ~(active /\ p.on /\ ~Regressed(p)) =>
              ~Boundary(n + 1)' /\ ~(n > 0 /\ Continues(n)')
         /\ active /\ p.on /\ ~Regressed(p) =>
              /\ Continues(n)'
              /\ Boundary(n + 1)' <=> NextBoundary(p)
<1>1. /\ n \in Nat /\ packets'[n + 1] = p
      /\ \A k \in 1..n : packets'[k] = packets[k] /\ packets[k] \in PacketType
  <2>1. /\ Last \in Nat /\ packets'[Last + 1] = p
        /\ \A k \in 1..Last :
             packets'[k] = packets[k] /\ packets[k] \in PacketType
    BY Appended
  <2> QED
    BY <2>1, Zenon
<1>2. n > 0 => packets'[n] = packets[n] /\ packets[n] \in PacketType
  <2>1. n > 0 => n \in 1..n
    BY <1>1
  <2> QED
    BY <1>1, <2>1, Zenon
<1>3. /\ active <=> n > 0 /\ packets[n].on
      /\ active => lap = packets[n].lap /\ race = packets[n].race
                     /\ game = packets[n].game
  BY DEF ProgressInv
<1>4. n > 0 => (n + 1) - 1 = n /\ n + 1 > 1
  BY <1>1
<1>5. ASSUME n > 0, Continues(n)'
      PROVE  active /\ p.on /\ ~Regressed(p)
  <2>1. /\ packets[n].on /\ p.on
        /\ ~GameClockRegressed(packets[n].game, p.game)
        /\ packets[n].race <= p.race /\ packets[n].lap <= p.lap
    BY <1>1, <1>2, <1>5 DEF Continues, GameClockRegressed
  <2>2. active
    BY <1>3, <1>5, <2>1
  <2>3. packets[n].race \in Nat /\ packets[n].lap \in Nat /\ p.race \in Nat /\ p.lap \in Nat
    BY <1>2, <1>5 DEF PacketType
  <2>4. ~(p.race < race) /\ ~(p.lap < lap)
    BY <1>3, <2>1, <2>2, <2>3
  <2> QED
    BY <1>3, <2>1, <2>2, <2>4 DEF Regressed
<1>6. ASSUME active, p.on, ~Regressed(p)
      PROVE  Continues(n)' /\ (Boundary(n + 1)' <=> NextBoundary(p))
  <2>1. /\ n > 0 /\ packets[n].on
        /\ lap = packets[n].lap /\ race = packets[n].race /\ game = packets[n].game
    BY <1>3, <1>6
  <2>2. packets[n].race \in Nat /\ packets[n].lap \in Nat /\ p.race \in Nat /\ p.lap \in Nat
    BY <1>2, <2>1 DEF PacketType
  <2>3. /\ ~GameClockRegressed(packets[n].game, p.game)
        /\ ~(p.race < race) /\ ~(p.lap < lap)
    BY <1>6, <2>1 DEF Regressed
  <2>4. packets[n].race <= p.race /\ packets[n].lap <= p.lap
    BY <2>1, <2>2, <2>3
  <2>5. Continues(n)'
    BY <1>1, <1>2, <1>6, <2>1, <2>3, <2>4 DEF Continues, GameClockRegressed
  <2>6. Boundary(n + 1)' <=> p.lap = packets[n].lap + 1
    BY <1>1, <1>2, <1>4, <2>1, <2>5 DEF Boundary
  <2> QED
    BY <2>1, <2>5, <2>6 DEF NextBoundary
<1>7. Boundary(n + 1)' => n > 0 /\ Continues(n)'
  <2>1. Boundary(n + 1)' => n + 1 > 1 /\ Continues((n + 1) - 1)'
    BY DEF Boundary
  <2> QED
    BY <1>1, <1>4, <2>1
<1> QED
  BY <1>5, <1>6, <1>7

\* A boundary ends a lap if the one in progress was seen from its start and
\* took time, and ends no other.
LEMMA NewLap ==
  ASSUME packets \in Seq(PacketType), NEW p \in PacketType, ProgressInv,
         packets' = Append(packets, p), active, NEW n, n = Last,
         Continues(n)', Boundary(n + 1)', NEW i \in 1..n
  PROVE  WholeLap(i, n + 1)' <=> i = lapStart /\ boundarySeen
                                   /\ p.race > lapStartRace
<1>1. /\ n \in Nat /\ packets'[n + 1] = p
      /\ \A k \in 1..n : packets'[k] = packets[k] /\ packets[k] \in PacketType
  <2>1. /\ Last \in Nat /\ packets'[Last + 1] = p
        /\ \A k \in 1..Last :
             packets'[k] = packets[k] /\ packets[k] \in PacketType
    BY Appended
  <2> QED
    BY <2>1, Zenon
<1>2. /\ lapStart \in 1..n /\ lapStartRace = packets[lapStart].race
      /\ boundarySeen <=> Boundary(lapStart)
      /\ \A k \in lapStart..n : packets[k].lap = lap
      /\ \A k \in lapStart..(n - 1) : Continues(k)
      /\ lapStart > 1 /\ Continues(lapStart - 1) => packets[lapStart - 1].lap # lap
  BY DEF ProgressInv
<1>3. /\ \A k \in 1..(n - 1) : Continues(k)' <=> Continues(k)
      /\ \A k \in 1..n : Boundary(k)' <=> Boundary(k)
  BY HistoryKept
<1>4. ASSUME i = lapStart, boundarySeen, p.race > lapStartRace
      PROVE  WholeLap(i, n + 1)'
  <2>1. i < n + 1 /\ Boundary(i)'
    BY <1>1, <1>2, <1>3, <1>4
  <2>2. ASSUME NEW k \in i..n
        PROVE  packets'[k].lap = packets'[i].lap /\ Continues(k)'
    <3>1. k \in 1..n /\ i \in lapStart..n
      BY <1>1, <1>2, <1>4, <2>2
    <3>2. packets'[k].lap = lap /\ packets'[i].lap = lap
      BY <1>1, <1>2, <1>4, <2>2, <3>1
    <3>3. CASE k = n
      BY <3>2, <3>3
    <3>4. CASE k # n
      <4>1. k \in lapStart..(n - 1) /\ k \in 1..(n - 1)
        BY <1>1, <1>4, <2>2, <3>1, <3>4
      <4> QED
        BY <1>2, <1>3, <3>2, <4>1
    <3> QED
      BY <3>3, <3>4
  <2>3. packets'[n + 1].race > packets'[i].race
    BY <1>1, <1>2, <1>4
  <2>4. (n + 1) - 1 = n
    BY <1>1
  <2> QED
    BY <2>1, <2>2, <2>3, <2>4 DEF WholeLap
<1>5. ASSUME WholeLap(i, n + 1)'
      PROVE  i = lapStart /\ boundarySeen /\ p.race > lapStartRace
  <2>1. /\ Boundary(i)' /\ packets'[n + 1].race > packets'[i].race
        /\ \A k \in i..n : packets'[k].lap = packets'[i].lap /\ Continues(k)'
    <3>1. (n + 1) - 1 = n
      BY <1>1
    <3> QED
      BY <1>5, <3>1 DEF WholeLap
  <2>2. Boundary(i)
    BY <1>3, <2>1
  <2>3. ~(i > lapStart)
    <3> SUFFICES ASSUME i > lapStart PROVE FALSE
      OBVIOUS
    <3>1. i \in lapStart..n /\ i - 1 \in lapStart..n
      BY <1>1, <1>2
    <3>2. packets[i].lap = lap /\ packets[i - 1].lap = lap
      BY <1>2, <3>1
    <3>3. packets[i].lap = packets[i - 1].lap + 1
      BY <2>2 DEF Boundary
    <3>4. lap \in Nat
      BY <1>1, <3>2 DEF PacketType
    <3> QED
      BY <3>2, <3>3, <3>4
  <2>4. ~(i < lapStart)
    <3> SUFFICES ASSUME i < lapStart PROVE FALSE
      OBVIOUS
    <3>1. PICK m : m = lapStart - 1
      OBVIOUS
    <3>2. m \in i..n /\ m + 1 \in i..n /\ m \in 1..(n - 1) /\ m \in 1..n /\ m + 1 > 1
      BY <1>1, <1>2, <3>1
    <3>3. m + 1 = lapStart
      BY <1>2, <3>1
    <3>4. packets'[m].lap = packets'[i].lap /\ packets'[m + 1].lap = packets'[i].lap
      BY <2>1, <3>2
    <3>5. Continues(m)
      BY <1>3, <2>1, <3>2
    <3>6. packets[m].lap = packets[m + 1].lap
      <4>1. m + 1 \in 1..n
        BY <1>1, <3>2
      <4>2. packets'[m] = packets[m] /\ packets'[m + 1] = packets[m + 1]
        BY <1>1, <3>2, <4>1
      <4> QED
        BY <3>4, <4>2
    <3>7. packets[m + 1].lap = lap
      BY <1>2, <3>3
    <3>8. packets[m].lap # lap
      BY <1>2, <3>1, <3>2, <3>3, <3>5
    <3> QED
      BY <3>6, <3>7, <3>8
  <2>5. i = lapStart
    BY <1>2, <2>3, <2>4
  <2> QED
    BY <1>1, <1>2, <2>1, <2>2, <2>5
<1> QED
  BY <1>4, <1>5

\* The candidates after a packet that carries on.
LEMMA FollowEmits ==
  ASSUME packets \in Seq(PacketType), NEW p \in PacketType, ProgressInv, active,
         p.on, ~Regressed(p), packets' = Append(packets, p), Follow(p),
         CandidatesAreWholeLaps
  PROVE  CandidatesAreWholeLaps'
<1>0. PICK n : n = Last
  OBVIOUS
<1>1. /\ n \in Nat /\ packets'[n + 1] = p /\ Last' = n + 1
      /\ DOMAIN packets = 1..n /\ DOMAIN packets' = 1..(n + 1)
      /\ \A k \in 1..n : packets'[k] = packets[k] /\ packets[k] \in PacketType
  <2>1. /\ Last \in Nat /\ packets'[Last + 1] = p /\ Last' = Last + 1
        /\ DOMAIN packets = 1..Last /\ DOMAIN packets' = 1..(Last + 1)
        /\ \A k \in 1..Last :
             packets'[k] = packets[k] /\ packets[k] \in PacketType
    BY Appended
  <2> QED
    BY <1>0, <2>1, Zenon
<1>2. Continues(n)' /\ (Boundary(n + 1)' <=> NextBoundary(p))
  BY <1>0, LastContinues
<1>3. CASE ~NextBoundary(p)
  <2>1. ~Boundary(Last)'
    <3>1. ~Boundary(n + 1)'
      BY <1>2, <1>3
    <3> QED
      BY <1>1, <3>1 DEF Boundary, Continues
  <2>2. candidates' = candidates
    BY <1>3 DEF Follow
  <2> QED
    BY <2>1, <2>2, NoNewLap
<1>4. CASE NextBoundary(p)
  <2> DEFINE new == boundarySeen /\ p.race > lapStartRace
  <2>1. \A i \in 1..n : WholeLap(i, n + 1)' <=> i = lapStart /\ new
    BY <1>0, <1>2, <1>4, NewLap
  <2>2. candidates' = IF new THEN candidates \cup {Completed(p)} ELSE candidates
    BY <1>4 DEF Follow
  <2>3. /\ \A i, j \in 1..n : WholeLap(i, j)' <=> WholeLap(i, j)
        /\ \A i, j \in 1..n : Lap(i, j)' = Lap(i, j)
    BY <1>0, HistoryKept
  <2>4. /\ lapStart \in 1..n /\ lapStartRace = packets[lapStart].race
        /\ packets[lapStart].lap = lap
    <3>1. lapStart \in 1..n /\ lapStart \in lapStart..n
      BY <1>0, <1>1 DEF ProgressInv
    <3> QED
      BY <1>0, <3>1 DEF ProgressInv
  <2>5. PICK a : a = lapStart
    OBVIOUS
  <2>6. Lap(a, n + 1)' = Completed(p)
    <3>1. Now = n + 1 /\ packets'[a] = packets[a]
      BY <1>0, <1>1, <2>4, <2>5 DEF Now, Last
    <3> QED
      BY <1>1, <2>4, <2>5, <3>1 DEF Lap, Completed
  <2>7. /\ \A c \in candidates :
             \E i, j \in 1..n : WholeLap(i, j) /\ c = Lap(i, j)
        /\ \A i, j \in 1..n : WholeLap(i, j) => Lap(i, j) \in candidates
    BY <1>1 DEF CandidatesAreWholeLaps
  <2> HIDE DEF new
  <2>8. ASSUME NEW c \in candidates'
        PROVE  \E i, j \in 1..(n + 1) : WholeLap(i, j)' /\ c = Lap(i, j)'
    <3>1. CASE c \in candidates
      <4>1. PICK i, j \in 1..n : WholeLap(i, j) /\ c = Lap(i, j)
        BY <2>7, <3>1
      <4>2. WholeLap(i, j)' /\ c = Lap(i, j)'
        BY <2>3, <4>1
      <4>3. i \in 1..(n + 1) /\ j \in 1..(n + 1)
        BY <1>1
      <4> QED
        BY <4>2, <4>3
    <3>2. CASE c \notin candidates
      <4>1. new /\ c = Completed(p)
        BY <2>2, <2>8, <3>2
      <4>2. WholeLap(a, n + 1)' /\ c = Lap(a, n + 1)'
        BY <2>1, <2>4, <2>5, <2>6, <4>1
      <4>3. a \in 1..(n + 1) /\ n + 1 \in 1..(n + 1)
        BY <1>1, <2>4, <2>5
      <4> QED
        BY <4>2, <4>3
    <3> QED
      BY <3>1, <3>2
  <2>9. ASSUME NEW i \in 1..(n + 1), NEW j \in 1..(n + 1), WholeLap(i, j)'
        PROVE  Lap(i, j)' \in candidates'
    <3>1. i < j
      BY <2>9 DEF WholeLap
    <3>2. i \in 1..n /\ (j \in 1..n \/ j = n + 1)
      BY <1>1, <2>9, <3>1
    <3>3. CASE j \in 1..n
      BY <2>2, <2>3, <2>7, <2>9, <3>2, <3>3
    <3>4. CASE j = n + 1
      <4>1. i = a /\ new
        BY <2>1, <2>5, <2>9, <3>2, <3>4
      <4>2. Lap(i, j)' = Completed(p)
        BY <2>6, <3>4, <4>1
      <4> QED
        BY <2>2, <4>1, <4>2
    <3> QED
      BY <3>2, <3>3, <3>4
  <2> QED
    BY <1>1, <2>8, <2>9 DEF CandidatesAreWholeLaps
<1> QED
  BY <1>3, <1>4

\* A lap that begins with the new packet.
LEMMA ProgressFromHere ==
  ASSUME packets \in Seq(PacketType), NEW p \in PacketType,
         packets' = Append(packets, p), NEW n, n = Last, p.on,
         active' = TRUE, lap' = p.lap, race' = p.race, game' = p.game,
         lapStart' = n + 1, lapStartRace' = p.race,
         boundarySeen' <=> Boundary(n + 1)',
         n > 0 /\ Continues(n)' => packets[n].lap # p.lap
  PROVE  ProgressInv'
<1>1. /\ n \in Nat /\ packets'[n + 1] = p /\ Last' = n + 1
      /\ n > 0 => packets'[n] = packets[n]
  <2>1. /\ Last \in Nat /\ packets'[Last + 1] = p /\ Last' = Last + 1
        /\ \A k \in 1..Last : packets'[k] = packets[k]
    BY Appended
  <2>2. n > 0 => n \in 1..n
    BY <2>1
  <2> QED
    BY <2>1, <2>2, Zenon
<1>2. active' <=> Last' > 0 /\ packets'[Last'].on
  <2>1. Last' > 0
    BY <1>1
  <2>2. packets'[Last'].on
    BY <1>1, Zenon
  <2> QED
    BY <2>1, <2>2, Zenon
<1>3. /\ lap' = packets'[Last'].lap
      /\ race' = packets'[Last'].race
      /\ game' = packets'[Last'].game
      /\ lapStart' \in 1..Last'
      /\ lapStartRace' = packets'[lapStart'].race
  <2>1. packets'[Last'] = p /\ packets'[lapStart'] = p
    BY <1>1, Zenon
  <2>2. lapStart' \in 1..Last'
    BY <1>1
  <2> QED
    BY <2>1, <2>2, Zenon
<1>4. boundarySeen' <=> Boundary(lapStart)'
  BY <1>1 DEF Boundary, Continues
<1>5. /\ \A k \in lapStart'..Last' : packets'[k].lap = lap'
      /\ \A k \in lapStart'..(Last' - 1) : Continues(k)'
  <2>1. \A k \in (n + 1)..(n + 1) : k = n + 1
    BY <1>1
  <2>2. \A k \in (n + 1)..((n + 1) - 1) : FALSE
    BY <1>1
  <2> QED
    BY <1>1, <2>1, <2>2
<1>6. lapStart' > 1 /\ Continues(lapStart - 1)' =>
        packets'[lapStart' - 1].lap # lap'
  <2>1. lapStart' - 1 = n /\ (lapStart' > 1 => n > 0)
    BY <1>1
  <2>2. Continues(lapStart - 1)' <=> Continues(n)'
    BY <2>1 DEF Continues, GameClockRegressed
  <2> QED
    BY <1>1, <2>1, <2>2
<1> QED
  BY <1>2, <1>3, <1>4, <1>5, <1>6 DEF ProgressInv

\* Another packet of the lap in progress.
LEMMA ProgressGoesOn ==
  ASSUME packets \in Seq(PacketType), NEW p \in PacketType, ProgressInv,
         packets' = Append(packets, p), NEW n, n = Last, p.on,
         active, p.lap = lap, Continues(n)',
         active' = active, race' = p.race, game' = p.game,
         UNCHANGED <<boundarySeen, lap, lapStart, lapStartRace>>
  PROVE  ProgressInv'
<1>0. PICK a : a = lapStart
  OBVIOUS
<1>1. /\ n \in Nat /\ packets'[n + 1] = p /\ Last' = n + 1
      /\ \A k \in 1..n : packets'[k] = packets[k]
  <2>1. /\ Last \in Nat /\ packets'[Last + 1] = p /\ Last' = Last + 1
        /\ \A k \in 1..Last : packets'[k] = packets[k]
    BY Appended
  <2> QED
    BY <2>1, Zenon
<1>2. /\ a \in 1..n /\ lapStartRace = packets[a].race
      /\ boundarySeen <=> Boundary(a)
      /\ \A k \in a..n : packets[k].lap = lap
      /\ \A k \in a..(n - 1) : Continues(k)
      /\ a > 1 /\ Continues(a - 1) => packets[a - 1].lap # lap
  BY <1>0 DEF ProgressInv
<1>3. /\ \A k \in 1..(n - 1) : Continues(k)' <=> Continues(k)
      /\ \A k \in 1..n : Boundary(k)' <=> Boundary(k)
  BY HistoryKept
<1>4. active' <=> Last' > 0 /\ packets'[Last'].on
  <2>1. Last' > 0
    BY <1>1
  <2>2. packets'[Last'].on
    BY <1>1, Zenon
  <2> QED
    BY <2>1, <2>2, Zenon
<1>5. /\ lap' = packets'[Last'].lap
      /\ race' = packets'[Last'].race
      /\ game' = packets'[Last'].game
      /\ lapStart' \in 1..Last'
      /\ lapStartRace' = packets'[lapStart'].race
  <2>1. packets'[Last'] = p /\ lapStart' = a
    BY <1>0, <1>1, Zenon
  <2>2. lapStart' \in 1..Last'
    BY <1>1, <1>2, <2>1
  <2>3. packets'[a] = packets[a] /\ lapStartRace' = lapStartRace /\ lap' = lap
    BY <1>1, <1>2, Zenon
  <2>4. lapStartRace' = packets'[lapStart'].race
    BY <1>2, <2>1, <2>3, Zenon
  <2> QED
    BY <2>1, <2>2, <2>3, <2>4, Zenon
<1>6. boundarySeen' <=> Boundary(lapStart)'
  <2>1. boundarySeen' <=> Boundary(a)'
    BY <1>2, <1>3
  <2>2. lapStart' = a
    BY <1>0
  <2> QED
    BY <2>1, <2>2 DEF Boundary, Continues
<1>7. ASSUME NEW k \in a..(n + 1)
      PROVE  packets'[k].lap = lap
  <2>1. CASE k = n + 1
    BY <1>1, <2>1
  <2>2. CASE k # n + 1
    <3>1. k \in a..n /\ k \in 1..n
      BY <1>1, <1>2, <1>7, <2>2
    <3> QED
      BY <1>1, <1>2, <3>1
  <2> QED
    BY <2>1, <2>2
<1>8. ASSUME NEW k \in a..((n + 1) - 1)
      PROVE  Continues(k)'
  <2>1. CASE k = n
    BY <2>1
  <2>2. CASE k # n
    <3>1. k \in a..(n - 1) /\ k \in 1..(n - 1)
      BY <1>1, <1>2, <1>8, <2>2
    <3> QED
      BY <1>2, <1>3, <3>1
  <2> QED
    BY <2>1, <2>2
<1>9. lapStart' > 1 /\ Continues(lapStart - 1)' =>
        packets'[lapStart' - 1].lap # lap'
  <2> SUFFICES ASSUME lapStart' > 1, Continues(lapStart - 1)'
               PROVE  packets'[lapStart' - 1].lap # lap'
    OBVIOUS
  <2>1. PICK m : m = a - 1
    OBVIOUS
  <2>2. m \in 1..(n - 1) /\ m \in 1..n /\ lapStart' - 1 = m /\ a > 1
    BY <1>0, <1>1, <1>2, <2>1
  <2>3. Continues(m)'
    BY <2>2 DEF Continues, GameClockRegressed
  <2> QED
    BY <1>1, <1>2, <1>3, <2>1, <2>2, <2>3
<1>10. lapStart' = a /\ lap' = lap
  BY <1>0
<1>11. /\ \A k \in lapStart'..Last' : packets'[k].lap = lap'
       /\ \A k \in lapStart'..(Last' - 1) : Continues(k)'
  BY <1>1, <1>7, <1>8, <1>10
<1> QED
  BY <1>4, <1>5, <1>6, <1>9, <1>11 DEF ProgressInv

LEMMA LapStep ==
  ASSUME LapInv, NEW p \in PacketType, Update(p)
  PROVE  LapInv'
<1>0. PICK n : n = Last
  OBVIOUS
<1>1. /\ packets \in Seq(PacketType) /\ ProgressInv /\ CandidatesAreWholeLaps
      /\ packets' = Append(packets, p)
  BY DEF LapInv, Update
<1>2. /\ packets' \in Seq(PacketType) /\ n \in Nat /\ Last' = n + 1
      /\ packets'[n + 1] = p /\ Now = n + 1
  <2>1. Now = Last + 1
    BY DEF Now, Last
  <2> QED
    BY <1>0, <1>1, <2>1, Appended
<1>3. ASSUME ~(active /\ p.on /\ ~Regressed(p)), candidates' = candidates
      PROVE  CandidatesAreWholeLaps'
  <2>1. ~Boundary(n + 1)'
    BY <1>0, <1>1, <1>3, LastContinues
  <2>2. ~Boundary(Last)'
    BY <1>2, <2>1 DEF Boundary, Continues
  <2> QED
    BY <1>1, <1>3, <2>2, NoNewLap
<1>4. CASE ~p.on
  <2>1. /\ active' = FALSE /\ boundarySeen' = FALSE /\ candidates' = candidates
    BY <1>4 DEF Update, ResetLap
  <2>2. ~packets'[Last'].on
    BY <1>2, <1>4
  <2>3. ProgressInv'
    BY <2>1, <2>2 DEF ProgressInv
  <2> QED
    BY <1>2, <1>3, <1>4, <2>1, <2>3 DEF LapInv
<1>5. CASE p.on /\ (~active \/ Regressed(p))
  <2>1. /\ active' = TRUE /\ boundarySeen' = FALSE /\ candidates' = candidates
        /\ lap' = p.lap /\ race' = p.race /\ game' = p.game
        /\ lapStart' = n + 1 /\ lapStartRace' = p.race
    BY <1>2, <1>5 DEF Update, StartPartial
  <2>2. ~Boundary(n + 1)' /\ ~(n > 0 /\ Continues(n)')
    BY <1>0, <1>1, <1>5, LastContinues
  <2>3. ProgressInv'
    BY <1>0, <1>1, <1>5, <2>1, <2>2, ProgressFromHere
  <2> QED
    BY <1>2, <1>3, <1>5, <2>1, <2>3 DEF LapInv
<1>6. CASE p.on /\ active /\ ~Regressed(p)
  <2>1. Follow(p)
    BY <1>6 DEF Update
  <2>2. Continues(n)' /\ (Boundary(n + 1)' <=> NextBoundary(p))
    BY <1>0, <1>1, <1>6, LastContinues
  <2>3. CandidatesAreWholeLaps'
    BY <1>1, <1>6, <2>1, FollowEmits
  <2>4. active' = active /\ race' = p.race /\ game' = p.game
    BY <2>1 DEF Follow
  <2>5. CASE p.lap = lap
    <3>1. UNCHANGED <<boundarySeen, lap, lapStart, lapStartRace>>
      BY <2>1, <2>5 DEF Follow
    <3>2. ProgressInv'
      BY <1>0, <1>1, <1>6, <2>2, <2>4, <2>5, <3>1, ProgressGoesOn
    <3>3. active' \in BOOLEAN /\ boundarySeen' \in BOOLEAN
      BY <2>4, <3>1 DEF LapInv
    <3> QED
      BY <1>2, <2>3, <3>2, <3>3 DEF LapInv
  <2>6. CASE p.lap # lap
    <3>1. /\ boundarySeen' = NextBoundary(p) /\ lap' = p.lap
          /\ lapStart' = n + 1 /\ lapStartRace' = p.race
      BY <1>2, <2>1, <2>6 DEF Follow, StartOfNext
    <3>2. n > 0 => packets[n].lap = lap
      BY <1>0, <1>1, <1>6 DEF ProgressInv
    <3>3. active' = TRUE
      BY <1>6, <2>4 DEF LapInv
    <3>4. ProgressInv'
      BY <1>0, <1>1, <1>6, <2>2, <2>4, <2>6, <3>1, <3>2, <3>3, ProgressFromHere
    <3>5. active' \in BOOLEAN /\ boundarySeen' \in BOOLEAN
      BY <3>1, <3>3 DEF NextBoundary
    <3> QED
      BY <1>2, <2>3, <3>4, <3>5 DEF LapInv
  <2> QED
    BY <2>5, <2>6
<1> QED
  BY <1>4, <1>5, <1>6 DEF LapInv

\* The candidates are the whole laps, for any packets.
THEOREM LapsWhole ==
  ASSUME LapAssumption
  PROVE  Spec => []CandidatesAreWholeLaps
<1>1. Init => LapInv
  <2> SUFFICES ASSUME Init PROVE LapInv
    OBVIOUS
  <2>1. packets = <<>> /\ active = FALSE /\ boundarySeen = FALSE /\ candidates = {}
    BY DEF Init
  <2>2. packets \in Seq(PacketType) /\ Last = 0 /\ DOMAIN packets = {}
    BY <2>1 DEF Last
  <2>3. ProgressInv
    BY <2>1, <2>2 DEF ProgressInv
  <2>4. CandidatesAreWholeLaps
    BY <2>1, <2>2 DEF CandidatesAreWholeLaps
  <2> QED
    BY <2>1, <2>2, <2>3, <2>4 DEF LapInv
<1>2. LapInv /\ [Next]_vars => LapInv'
  <2> SUFFICES ASSUME LapInv, [Next]_vars PROVE LapInv'
    OBVIOUS
  <2>1. CASE Next
    <3>1. PICK p \in NextPackets : Update(p)
      BY <2>1 DEF Next, Receive
    <3>2. p \in PacketType
      BY PacketsTyped DEF LapInv
    <3> QED
      BY <3>1, <3>2, LapStep
  <2>2. CASE UNCHANGED vars
    BY <2>2 DEF vars, machine, LapInv, ProgressInv, CandidatesAreWholeLaps,
       Last, Boundary, Continues, GameClockRegressed, WholeLap, Lap
  <2> QED
    BY <2>1, <2>2
<1>3. LapInv => CandidatesAreWholeLaps
  BY DEF LapInv
<1> QED
  BY <1>1, <1>2, <1>3, PTL DEF Spec
=============================================================================
