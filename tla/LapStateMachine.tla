--------------------------- MODULE LapStateMachine ---------------------------
(***************************************************************************)
(* dataset/laps.py: one telemetry packet after the other, the machine      *)
(* emits a candidate for every lap it has observed from one boundary       *)
(* through the next.  The packets are arbitrary, as a file may hold them:  *)
(* the race may stop, start again, skip laps, and its clocks may go back.  *)
(* The i-th packet is read at session time i.                              *)
(***************************************************************************)
EXTENDS Integers, Sequences, FiniteSets

CONSTANTS Modulus,    \* values of the game's clock, 2^32 in the code
          MaxLap,     \* bound: lap numbers
          MaxRace,    \* bound: race times
          GameSteps,  \* the clock's steps from packet to packet
          MaxFalls,   \* bound: packets at which the clock has gone back
          MaxPackets  \* bound: packets

\* What is assumed of them where the module is instantiated.
LapAssumption == /\ Modulus \in Nat \ {0} /\ Modulus % 2 = 0
                 /\ {MaxLap, MaxRace, MaxFalls, MaxPackets} \subseteq Nat
                 /\ GameSteps \subseteq 0..Modulus - 1

VARIABLES
  active,       \* a race is on
  boundarySeen, \* the lap in progress was seen from its start
  lap, lapStart, lapStartRace,  \* that lap: number, session and race time
  game, race,   \* the clocks of the last packet
  candidates,   \* the laps emitted
  packets       \* history: the packets

machine == <<active, boundarySeen, lap, lapStart, lapStartRace, game, race>>
vars == <<machine, candidates, packets>>

Init == /\ active = FALSE
        /\ boundarySeen = FALSE
        /\ lap = 0 /\ lapStart = 0 /\ lapStartRace = 0
        /\ game = 0 /\ race = 0
        /\ candidates = {}
        /\ packets = <<>>

Now == Len(packets) + 1

\* _start_partial
StartPartial(p) == /\ active' = TRUE
                   /\ boundarySeen' = FALSE
                   /\ lap' = p.lap
                   /\ lapStart' = Now
                   /\ lapStartRace' = p.race
                   /\ game' = p.game
                   /\ race' = p.race
                   /\ UNCHANGED candidates

\* reset
ResetLap == /\ active' = FALSE
            /\ boundarySeen' = FALSE
            /\ UNCHANGED <<lap, lapStart, lapStartRace, game, race, candidates>>

\* _game_clock_regressed: by less than half the range
GameClockRegressed(from, to) == (to - from) % Modulus > Modulus \div 2 - 1

Regressed(p) == \/ GameClockRegressed(game, p.game)
                \/ p.race < race
                \/ p.lap < lap

\* Wrong: a skipped lap number is a boundary like any other.
AnyBoundary(p) == p.lap # lap

\* The packet is the first of the lap after the one in progress.
NextBoundary(p) == p.lap = lap + 1

Completed(p) == [lap |-> lap, start |-> lapStart, end |-> Now,
                 duration |-> p.race - lapStartRace]

\* Wrong: the start of the first lap is kept.
StartKept == IF boundarySeen THEN lapStart ELSE Now

StartOfNext == Now

\* The rest of update(): the lap number may have changed.
Follow(p) ==
  /\ candidates' = IF NextBoundary(p) /\ boundarySeen /\ p.race > lapStartRace
                     THEN candidates \cup {Completed(p)} ELSE candidates
  /\ IF p.lap = lap
       THEN UNCHANGED <<boundarySeen, lap, lapStart, lapStartRace>>
       ELSE /\ boundarySeen' = NextBoundary(p)
            /\ lap' = p.lap
            /\ lapStart' = StartOfNext
            /\ lapStartRace' = p.race
  /\ game' = p.game
  /\ race' = p.race
  /\ UNCHANGED active

\* update()
Update(p) == /\ IF ~p.on THEN ResetLap
                ELSE IF ~active \/ Regressed(p) THEN StartPartial(p)
                ELSE Follow(p)
             /\ packets' = Append(packets, p)

Falls == Cardinality({k \in 2..Len(packets) :
                        /\ packets[k - 1].on /\ packets[k].on
                        /\ GameClockRegressed(packets[k - 1].game, packets[k].game)})

\* The clock of the next packet; the first one's is arbitrary.
GameAfter(step) ==
  IF packets = <<>> THEN 0 ELSE (packets[Len(packets)].game + step) % Modulus

\* A packet that is not of a race has its fields at zero.
NextPackets ==
  {[on |-> FALSE, lap |-> 0, race |-> 0, game |-> 0]} \cup
  {[on |-> TRUE, lap |-> l, race |-> r, game |-> GameAfter(step)] :
     l \in 0..MaxLap, r \in 0..MaxRace, step \in GameSteps}

Receive == /\ Len(packets) < MaxPackets
           /\ \E p \in NextPackets : Update(p)
           /\ Falls' <= MaxFalls

Next == Receive

Spec == Init /\ [][Next]_vars

-----------------------------------------------------------------------------
(* Properties. *)

\* Packet k + 1 carries on from packet k.
Continues(k) ==
  LET p == packets[k]
      q == packets[k + 1]
  IN  /\ p.on /\ q.on
      /\ ~GameClockRegressed(p.game, q.game)
      /\ p.race <= q.race
      /\ p.lap <= q.lap

\* Packet k is the first of a lap of which the end of the lap before was seen.
Boundary(k) == k > 1 /\ Continues(k - 1) /\ packets[k].lap = packets[k - 1].lap + 1

\* The laps driven from packet i to packet j without an interruption.
WholeLap(i, j) ==
  /\ i < j
  /\ Boundary(i) /\ Boundary(j)
  /\ \A k \in i..j - 1 : packets[k].lap = packets[i].lap /\ Continues(k)
  /\ packets[j].race > packets[i].race

Lap(i, j) == [lap |-> packets[i].lap, start |-> i, end |-> j,
              duration |-> packets[j].race - packets[i].race]

\* "Emit only laps observed from one boundary through the next": the candidates
\* are the whole laps, all of them and no other, with their times, whatever
\* pauses, restarts, skips and wraps are in between.
CandidatesAreWholeLaps ==
  /\ \A c \in candidates :
       \E i, j \in DOMAIN packets : WholeLap(i, j) /\ c = Lap(i, j)
  /\ \A i, j \in DOMAIN packets : WholeLap(i, j) => Lap(i, j) \in candidates

=============================================================================
