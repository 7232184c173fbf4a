-------------------------- MODULE PositionerProofs --------------------------
(***************************************************************************)
(* Facts about the travel arithmetic, for every Full and TravelTime.       *)
(***************************************************************************)
EXTENDS Positioner, TLAPS

\* What integer division by a positive number is.
LEMMA DivBounds ==
  ASSUME NEW a \in Nat, NEW b \in Nat \ {0}
  PROVE  /\ a \div b \in Nat
         /\ b * (a \div b) <= a
  BY Z3

\* Products of naturals are naturals, and cancel.
LEMMA TimesNat ==
  ASSUME NEW a \in Nat, NEW b \in Nat
  PROVE  a * b \in Nat
  BY Z3

LEMMA TimesMono ==
  ASSUME NEW a \in Nat, NEW b \in Nat, NEW c \in Nat, a <= b
  PROVE  a * c <= b * c
  BY Z3

LEMMA TimesCancel ==
  ASSUME NEW a \in Nat, NEW b \in Nat, NEW c \in Nat \ {0}, c * a <= b * c
  PROVE  a <= b
  BY Z3

-----------------------------------------------------------------------------

LEMMA DistanceNat ==
  ASSUME NEW p \in Positions, NEW q \in Positions
  PROVE  /\ Distance(p, q) \in Nat
         /\ p < q => Distance(p, q) = q - p
         /\ p > q => Distance(p, q) = p - q
  BY TravelAssumption DEF Distance, Positions

\* Every planned travel takes a natural time.
LEMMA TravelNat ==
  ASSUME NEW m \in Motions
  PROVE  PlanTravel(m) \in Nat
<1>1. m.start \in Positions /\ m.target \in Positions
  BY DEF Motions
<1>2. Distance(m.start, m.target) * TravelTime \in Nat
  BY <1>1, DistanceNat, TimesNat, TravelAssumption
<1>3. TravelDuration(m.start, m.target) \in Nat
  BY <1>2, DivBounds, TravelAssumption DEF TravelDuration
<1> QED
  BY <1>3, TravelAssumption DEF PlanTravel

\* The levels travelled in elapsed.
LEMMA TravelledNat ==
  ASSUME NEW elapsed \in Nat
  PROVE  (elapsed * Full) \div TravelTime \in Nat
  BY TimesNat, DivBounds, TravelAssumption

\* interrupted_position is clamped: it is a position, on the side of its start
\* the window was moving to.
LEMMA InterruptedClamped ==
  ASSUME NEW start \in Positions, NEW direction \in Directions, NEW elapsed \in Nat
  PROVE  /\ Interrupted(start, direction, elapsed) \in Positions
         /\ direction = "opening" => Interrupted(start, direction, elapsed) >= start
         /\ direction = "closing" => Interrupted(start, direction, elapsed) <= start
<1> DEFINE travelled == (elapsed * Full) \div TravelTime
<1>1. travelled \in Nat
  BY TravelledNat
<1>2. Full \in Nat /\ start \in 0..Full
  BY TravelAssumption DEF Positions
<1> HIDE DEF travelled
<1>3. CASE direction = "opening"
  <2>1. Interrupted(start, direction, elapsed)
          = IF start + travelled <= Full THEN start + travelled ELSE Full
    BY <1>3 DEF Interrupted, travelled
  <2> QED
    BY <1>1, <1>2, <1>3, <2>1 DEF Positions
<1>4. CASE direction = "closing"
  <2>1. Interrupted(start, direction, elapsed)
          = IF start >= travelled THEN start - travelled ELSE 0
    BY <1>4 DEF Interrupted, travelled
  <2> QED
    BY <1>1, <1>2, <1>4, <2>1 DEF Positions
<1> QED
  BY <1>3, <1>4 DEF Directions

\* The two roundings agree: within the time planned for a distance the position
\* moves by that distance at most.
LEMMA TravelledWithin ==
  ASSUME NEW d \in Nat, NEW elapsed \in Nat,
         elapsed <= (d * TravelTime) \div Full
  PROVE  (elapsed * Full) \div TravelTime <= d
<1> DEFINE planned == (d * TravelTime) \div Full
           q       == (elapsed * Full) \div TravelTime
<1>1. d * TravelTime \in Nat /\ elapsed * Full \in Nat
  BY TimesNat, TravelAssumption
<1>2. planned \in Nat /\ Full * planned <= d * TravelTime
  BY <1>1, DivBounds, TravelAssumption
<1>3. q \in Nat /\ TravelTime * q <= elapsed * Full
  BY <1>1, DivBounds, TravelAssumption
<1>4. elapsed <= planned
  OBVIOUS
<1> HIDE DEF planned, q
<1>5. elapsed * Full <= planned * Full
  BY <1>2, <1>4, TimesMono, TravelAssumption
<1>6. planned * Full = Full * planned
  BY <1>2, TravelAssumption, Z3
<1>7. TravelTime * q \in Nat /\ Full * planned \in Nat
  BY <1>2, <1>3, TimesNat, TravelAssumption
<1>8. TravelTime * q <= d * TravelTime
  BY <1>1, <1>2, <1>3, <1>5, <1>6, <1>7
<1>9. q <= d
  BY <1>3, <1>8, TimesCancel, TravelAssumption
<1> QED
  BY <1>9 DEF q

\* An interrupted travel is never recorded beyond its target or behind its start,
\* for every resolution of positions and time: what the rounding of
\* travel_duration_ms and that of interrupted_position must not break together.
THEOREM InterruptedBetween ==
  ASSUME NEW p \in Positions, NEW t \in Positions, Request(p, t) # NoMotion,
         NEW elapsed \in Nat, elapsed <= PlanTravel(Request(p, t))
  PROVE  LET m == Request(p, t)
             r == Interrupted(p, m.direction, elapsed)
         IN  IF m.direction = "opening" THEN r \in p..t ELSE r \in t..p
<1> DEFINE m == Request(p, t)
           r == Interrupted(p, m.direction, elapsed)
           travelled == (elapsed * Full) \div TravelTime
<1>1. Full \in Nat /\ p \in 0..Full /\ t \in 0..Full /\ Full # 0
  BY TravelAssumption DEF Positions
<1>2. /\ m.start = p /\ m.target = t /\ m.direction \in Directions
      /\ m.direction = "opening" <=> (t = Full \/ (t # 0 /\ t > p))
  BY DEF Request, Directions
<1>3. r \in Positions /\ (m.direction = "opening" => r >= p)
                      /\ (m.direction = "closing" => r <= p)
  <2>1. m.direction \in Directions
    BY <1>2
  <2> HIDE DEF m
  <2> QED
    BY <2>1, InterruptedClamped
<1>4. travelled \in Nat
  BY TravelledNat
<1>5. CASE IsSeat(t)
  <2>1. CASE t = 0
    <3>1. m.direction = "closing"
      BY <1>1, <1>2, <2>1 DEF Directions
    <3> HIDE DEF m, r
    <3> QED
      BY <1>1, <1>3, <2>1, <3>1 DEF Positions, m, r
  <2>2. CASE t = Full
    <3>1. m.direction = "opening"
      BY <1>1, <1>2, <2>2
    <3> HIDE DEF m, r
    <3>2. r \in p..t
      BY <1>1, <1>3, <2>2, <3>1 DEF Positions
    <3> QED
      BY <3>1, <3>2 DEF m, r
  <2> QED
    BY <1>5, <2>1, <2>2 DEF IsSeat
<1>6. CASE ~IsSeat(t)
  <2>1. t # p
    BY <1>6 DEF Request
  <2>2. Distance(p, t) \in Nat /\ (p < t => Distance(p, t) = t - p)
                               /\ (p > t => Distance(p, t) = p - t)
    BY DistanceNat
  <2>3. elapsed <= (Distance(p, t) * TravelTime) \div Full
    BY <1>2, <1>6 DEF PlanTravel, TravelDuration
  <2>4. travelled <= Distance(p, t)
    BY <2>2, <2>3, TravelledWithin
  <2> HIDE DEF travelled
  <2>5. CASE t > p
    <3>1. m.direction = "opening"
      BY <1>2, <1>6, <2>5 DEF IsSeat
    <3>2. r = IF p + travelled <= Full THEN p + travelled ELSE Full
      BY <3>1 DEF Interrupted, travelled
    <3> HIDE DEF m, r
    <3>3. r \in p..t
      BY <1>1, <1>4, <2>2, <2>4, <2>5, <3>2
    <3> QED
      BY <3>1, <3>3 DEF m, r
  <2>6. CASE t < p
    <3>1. m.direction = "closing"
      BY <1>1, <1>2, <1>6, <2>6 DEF IsSeat, Directions
    <3>2. r = IF p >= travelled THEN p - travelled ELSE 0
      BY <3>1 DEF Interrupted, travelled
    <3> HIDE DEF m, r
    <3>3. r \in t..p
      BY <1>1, <1>4, <2>2, <2>4, <2>6, <3>2
    <3> QED
      BY <3>1, <3>3 DEF m, r
  <2> QED
    BY <1>1, <2>1, <2>5, <2>6
<1> QED
  BY <1>5, <1>6

=============================================================================
