----------------------------- MODULE Positioner -----------------------------
(***************************************************************************)
(* The travel arithmetic of one window (skylights-core/src/window.rs):     *)
(* what a request plans, how long it takes and where an interruption       *)
(* leaves the window.  Positions and times are naturals; Full is 100 % and *)
(* TravelTime the 71 s of a full travel, both in units of the instance.    *)
(***************************************************************************)
EXTENDS Integers

CONSTANTS Full, TravelTime

ASSUME TravelAssumption == Full \in Nat \ {0} /\ TravelTime \in Nat \ {0}

Positions  == 0..Full
Directions == {"opening", "closing"}

\* WindowPositioner::motion: the active motion, or none.
Motions  == [start : Positions, direction : Directions, target : Positions]
NoMotion == [start |-> 0, direction |-> "none", target |-> 0]

IsSeat(p) == p \in {0, Full}

Distance(p, q) == IF p >= q THEN p - q ELSE q - p

TravelDuration(from, to) == (Distance(from, to) * TravelTime) \div Full

\* Mutant: the two scales are swapped.
InterruptedUnscaled(start, direction, elapsed) ==
  LET travelled == (elapsed * TravelTime) \div Full
  IN  IF direction = "opening"
        THEN IF start + travelled <= Full THEN start + travelled ELSE Full
        ELSE IF start >= travelled THEN start - travelled ELSE 0

\* interrupted_position: clamped at both seats.
Interrupted(start, direction, elapsed) ==
  LET travelled == (elapsed * Full) \div TravelTime
  IN  IF direction = "opening"
        THEN IF start + travelled <= Full THEN start + travelled ELSE Full
        ELSE IF start >= travelled THEN start - travelled ELSE 0

\* WindowPositioner::request: a seat is always driven to, also from itself; any
\* other target that is the current position needs no motion.
Request(position, target) ==
  IF target = position /\ ~IsSeat(target) THEN NoMotion
  ELSE [start     |-> position,
        direction |-> IF target = Full \/ (target # 0 /\ target > position)
                        THEN "opening" ELSE "closing",
        target    |-> target]

\* Mutant: a travel to a seat is given its share of the time only.
PlanTravelByShare(m) == TravelDuration(m.start, m.target)

\* The plan's travel_ms and stop_after: a seat gets the full travel and the
\* motor's own limit, a partial target its share and a stop pulse.
PlanTravel(m) ==
  IF IsSeat(m.target) THEN TravelTime ELSE TravelDuration(m.start, m.target)

\* Mutant: no stop pulse after a partial travel.
PlanNeverStops(m) == FALSE

PlanStops(m) == ~IsSeat(m.target)

=============================================================================
