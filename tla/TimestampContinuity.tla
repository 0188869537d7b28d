------------------------- MODULE TimestampContinuity -------------------------
(***************************************************************************)
(* telemetry/continuity.py: the loss estimate made from the game's         *)
(* unsigned millisecond clock, fed by a sender that stamps one packet per  *)
(* interval (give or take its jitter) and a network that loses, repeats    *)
(* and reorders packets.  The clock has Modulus values where the code has  *)
(* 2^32; the sender's own count of time does not wrap.                     *)
(***************************************************************************)
EXTENDS Integers, FiniteSets

CONSTANTS Modulus,   \* values of the clock
          Interval,  \* expected_interval_ms
          Tolerance, \* gap_tolerance_ms
          Jitter,    \* a packet leaves at most so much after its tick
          Phase,     \* when the first packet leaves
          MaxTicks,  \* bound: packets sent
          MaxPackets \* bound: packets received

ASSUME ClockAssumption == /\ Interval \in Nat \ {0}
                          /\ Tolerance \in Nat
                          /\ Phase \in Nat
                          /\ MaxTicks \in Nat /\ MaxPackets \in Nat
                          /\ Modulus \in Nat \ {0} /\ Modulus % 2 = 0
ASSUME JitterAssumption == Jitter \in Nat /\ Jitter + Tolerance < Interval
                             /\ 2 * Jitter < Interval

VARIABLES
  sent,      \* the time at which each tick's packet left
  previous,  \* the tracker's baseline: a clock value, or NoPacket
  packets, duplicates, outOfOrder, wraps, missing,  \* its counters
  seen,      \* history: ticks received since the last reset
  first,     \* history: the first tick received since the last reset
  newest,    \* history: the newest one
  base       \* history: the counters at the last reset

counters == <<packets, duplicates, outOfOrder, wraps, missing>>
history == <<seen, first, newest, base>>
vars == <<sent, previous, counters, history>>

NoPacket == -1
Half == Modulus \div 2
Ticks == DOMAIN sent
Clock(tick) == sent[tick] % Modulus

Init == /\ sent = [t \in {0} |-> Phase]
        /\ previous = NoPacket
        /\ packets = 0 /\ duplicates = 0 /\ outOfOrder = 0
        /\ wraps = 0 /\ missing = 0
        /\ seen = {}
        /\ first = NoPacket
        /\ newest = NoPacket
        /\ base = [outOfOrder |-> 0, wraps |-> 0, missing |-> 0]

\* The game sends the packet of the next tick.
Send == /\ Cardinality(Ticks) < MaxTicks
        /\ LET next == Cardinality(Ticks)
           IN  \E late \in 0..Jitter :
                 sent' = [t \in Ticks \cup {next} |->
                            IF t = next THEN Phase + next * Interval + late
                                        ELSE sent[t]]
        /\ UNCHANGED <<previous, counters, history>>

\* round(n / d): to the nearest integer, a tie to the even one
Rounded(n, d) ==
  LET q == n \div d
      r == 2 * (n % d)
  IN  IF r > d \/ (r = d /\ q % 2 = 1) THEN q + 1 ELSE q

\* Wrong: one packet too many.
MissingBetweenBoth(delta) ==
  IF delta > Interval + Tolerance THEN Rounded(delta, Interval) ELSE 0

MissingWithin(delta) ==
  IF delta > Interval + Tolerance THEN Rounded(delta, Interval) - 1 ELSE 0

Delta(clock) == (clock - previous) % Modulus

\* Wrong: every new packet counts as a forward step.
KindWithoutWrap(clock) ==
  IF previous = NoPacket THEN "first"
  ELSE CASE Delta(clock) = 0 -> "duplicate"
         [] Delta(clock) >= Half -> "out_of_order"
         [] OTHER -> "forward"

KindOf(clock) ==
  IF previous = NoPacket THEN "first"
  ELSE CASE Delta(clock) = 0 -> "duplicate"
         [] Delta(clock) >= Half -> "out_of_order"
         [] OTHER -> IF clock < previous THEN "wrap" ELSE "forward"

\* update(): a stale packet does not become the new baseline.
Update(clock) ==
  LET k == KindOf(clock)
      advances == k \in {"first", "forward", "wrap"}
  IN  /\ packets' = packets + 1
      /\ duplicates' = IF k = "duplicate" THEN duplicates + 1 ELSE duplicates
      /\ outOfOrder' = IF k = "out_of_order" THEN outOfOrder + 1 ELSE outOfOrder
      /\ wraps' = IF k = "wrap" THEN wraps + 1 ELSE wraps
      /\ missing' = IF k \in {"forward", "wrap"}
                      THEN missing + MissingWithin(Delta(clock)) ELSE missing
      /\ previous' = IF advances THEN clock ELSE previous

\* The network delivers a packet, perhaps once more, perhaps late; but less
\* than half the range of the clock (24 days) from the newest one received.
Near(tick) == newest # NoPacket =>
                /\ sent[tick] - sent[newest] < Half
                /\ sent[newest] - sent[tick] <= Half

Receive == /\ packets < MaxPackets
           /\ \E tick \in Ticks :
                /\ Near(tick)
                /\ Update(Clock(tick))
                /\ seen' = seen \cup {tick}
                /\ first' = IF newest = NoPacket THEN tick ELSE first
                /\ newest' = IF tick > newest THEN tick ELSE newest
           /\ UNCHANGED <<sent, base>>

\* reset() forgets the baseline and keeps the counters.
Reset == /\ previous # NoPacket
         /\ previous' = NoPacket
         /\ seen' = {} /\ first' = NoPacket /\ newest' = NoPacket
         /\ base' = [outOfOrder |-> outOfOrder, wraps |-> wraps,
                     missing |-> missing]
         /\ UNCHANGED <<sent, counters>>

Next == Send \/ Receive \/ Reset

Spec == Init /\ [][Next]_vars

-----------------------------------------------------------------------------
(* Properties. *)

\* The wraps counted are those of the sender's clock, although packets around
\* the wrap may arrive in any order.
WrapsCounted ==
  newest # NoPacket =>
    wraps - base.wraps = sent[newest] \div Modulus - sent[first] \div Modulus

Lost == {tick \in first..newest : tick \notin seen}

\* The estimate never misses a lost packet, and is exact unless a packet came
\* late: such a packet has been counted as missing by then.
LossEstimated ==
  newest # NoPacket =>
    /\ missing - base.missing >= Cardinality(Lost)
    /\ outOfOrder = base.outOfOrder => missing - base.missing = Cardinality(Lost)
=============================================================================
