------------------------ MODULE WindowControlProofs ------------------------
(***************************************************************************)
(* The safety of the window controllers, for every number of windows,      *)
(* every resolution of time and positions and every queue capacity.        *)
(***************************************************************************)
EXTENDS WindowControl, PositionerProofs

-----------------------------------------------------------------------------
(* The inductive invariant                                                 *)

\* The holder of the lock is the one window in a pulse sequence.
PulseHoldsLock == \A w \in Windows : pc[w] \in Pulses => lock = w

\* A controller away from idle has a motion, planned from where it stands.
MotionPlanned ==
  \A w \in Windows :
    /\ pc[w] = "idle" <=> motion[w] = NoMotion
    /\ pc[w] # "idle" => motion[w] = Request(position[w], motion[w].target)

\* The timed part of a travel is within its plan.
WithinPlan ==
  \A w \in Windows :
    /\ pc[w] = "travel" => timer[w] <= PlanTravel(motion[w])
    /\ pc[w] \in {"stopLock", "stopPulse"} /\ next[w] # Finish =>
         elapsed[w] <= PlanTravel(motion[w])

\* What the motor does, at every place a controller can wait.
MotorState ==
  \A w \in Windows :
    /\ pc[w] = "idle" /\ ~IsSeat(position[w]) => motor[w] = "stop"
    /\ pc[w] \in {"startPulse", "travel"} => motor[w] = motion[w].direction
    /\ pc[w] = "stopPulse" => motor[w] = "stop"

Inv == TypeOK /\ PulseHoldsLock /\ MotionPlanned /\ WithinPlan /\ MotorState

-----------------------------------------------------------------------------
(* What the helpers give                                                   *)

LEMMA NoMotionApart == NoMotion \notin Motions
  BY DEF NoMotion, Motions, Directions

LEMMA RequestType ==
  ASSUME NEW p \in Positions, NEW t \in Positions
  PROVE  /\ Request(p, t) \in Motions \cup {NoMotion}
         /\ IsSeat(t) => Request(p, t) # NoMotion
         /\ Request(p, t) # NoMotion => /\ Request(p, t) \in Motions
                                        /\ Request(p, t).start = p
                                        /\ Request(p, t).target = t
<1>1. [start     |-> p,
       direction |-> IF t = Full \/ (t # 0 /\ t > p) THEN "opening" ELSE "closing",
       target    |-> t] \in Motions
  BY DEF Motions, Directions
<1>2. Request(p, t) = NoMotion \/ Request(p, t) =
        [start     |-> p,
         direction |-> IF t = Full \/ (t # 0 /\ t > p) THEN "opening" ELSE "closing",
         target    |-> t]
  BY DEF Request
<1>3. IsSeat(t) => Request(p, t) =
        [start     |-> p,
         direction |-> IF t = Full \/ (t # 0 /\ t > p) THEN "opening" ELSE "closing",
         target    |-> t]
  BY DEF Request
<1> QED
  BY <1>1, <1>2, <1>3, NoMotionApart

\* Commands and the branches of the select, told apart by their kind.
LEMMA CommandFacts ==
  /\ Finish \notin Commands /\ Finish.kind = "finish"
  /\ Stop \in Commands /\ Stop.kind = "stop"
  /\ \A c \in Commands : /\ c.kind \in {"set", "stop"}
                         /\ c.kind = "set" => c.target \in Positions
<1>1. /\ Finish.kind = "finish" /\ Stop \in Commands /\ Stop.kind = "stop"
  BY DEF Finish, Stop, Commands
<1>2. ASSUME NEW c \in Commands
      PROVE  /\ c.kind \in {"set", "stop"}
             /\ c.kind = "set" => c.target \in Positions
  <2>1. CASE c = Stop
    BY <2>1 DEF Stop
  <2>2. ASSUME NEW t \in Positions, c = SetTarget(t)
        PROVE  c.kind = "set" /\ c.target \in Positions
    BY <2>2 DEF SetTarget
  <2> QED
    BY <2>1, <2>2 DEF Commands
<1>3. Finish \notin Commands
  BY <1>1, <1>2
<1> QED
  BY <1>1, <1>2, <1>3

LEMMA SnapshotType ==
  ASSUME NEW p \in Positions, NEW m
  PROVE  Snapshot(p, m) \in [percentage : Positions, moving : BOOLEAN]
  BY DEF Snapshot

LEMMA ZeroPosition == 0 \in Positions
  BY TravelAssumption DEF Positions

\* Where an interruption leaves a window that has a motion.
LEMMA StoppedAtType ==
  ASSUME TypeOK, NEW w \in Windows, motion[w] \in Motions
  PROVE  StoppedAt(w) \in Positions
<1>1. /\ motion[w].start \in Positions /\ motion[w].direction \in Directions
      /\ elapsed[w] \in Nat
  BY DEF TypeOK, Motions
<1> QED
  BY <1>1, InterruptedClamped DEF StoppedAt

\* A window away from idle has a motion that its position fits.
LEMMA MotionOf ==
  ASSUME TypeOK, MotionPlanned, NEW w \in Windows, pc[w] # "idle"
  PROVE  /\ motion[w] \in Motions
         /\ motion[w].start = position[w]
         /\ motion[w].target \in Positions
         /\ motion[w].direction \in Directions
         /\ Request(position[w], motion[w].target) = motion[w]
<1>1. motion[w] # NoMotion /\ motion[w] \in Motions
  BY DEF TypeOK, MotionPlanned
<1>2. motion[w].target \in Positions /\ position[w] \in Positions
      /\ motion[w].direction \in Directions
  BY <1>1 DEF TypeOK, Motions
<1>3. Request(position[w], motion[w].target) = motion[w]
  BY DEF MotionPlanned
<1> QED
  BY <1>1, <1>2, <1>3, RequestType

-----------------------------------------------------------------------------
(* The initial states                                                      *)

LEMMA InvInit == Init => Inv
<1> SUFFICES ASSUME Init PROVE Inv
  OBVIOUS
<1>1. TypeOK
  <2>1. /\ position \in [Windows -> Positions]
        /\ motion \in [Windows -> Motions \cup {NoMotion}]
        /\ pc \in [Windows -> Pcs]
        /\ timer \in [Windows -> Nat] /\ elapsed \in [Windows -> Nat]
    BY ZeroPosition DEF Init, Pcs
  <2>2. /\ next \in [Windows -> Commands \cup {Finish}]
        /\ lastSent \in [Windows -> Commands]
        /\ lastAccepted \in [Windows -> Commands]
    BY CommandFacts DEF Init
  <2>3. /\ queue \in [Windows -> Seq(Commands)]
        /\ \A w \in Windows : Len(queue[w]) <= Capacity
    BY WindowAssumption DEF Init
  <2>4. lock \in Windows \cup {NoWindow}
        /\ motor \in [Windows -> Directions \cup {"stop"}] /\ changed \in BOOLEAN
    BY DEF Init
  <2>5. /\ snapshots \in [Windows -> [percentage : Positions, moving : BOOLEAN]]
        /\ reported \in [Windows -> [percentage : Positions, moving : BOOLEAN]]
    BY ZeroPosition, SnapshotType DEF Init
  <2>6. commands \in 0..MaxCommands /\ lost \in 0..MaxLost
    BY WindowAssumption DEF Init
  <2>7. actual \in [Windows -> 0..TravelTime]
    BY WindowAssumption DEF Init
  <2> QED
    BY <2>1, <2>2, <2>3, <2>4, <2>5, <2>6, <2>7 DEF TypeOK
<1>2. PulseHoldsLock /\ MotionPlanned /\ WithinPlan
  BY DEF Init, PulseHoldsLock, MotionPlanned, WithinPlan, Pulses
<1>3. MotorState
  BY DEF Init, MotorState
<1> QED
  BY <1>1, <1>2, <1>3 DEF Inv

-----------------------------------------------------------------------------
(* The steps                                                               *)

LEMMA ReceiveStep ==
  ASSUME Inv, NEW w \in Windows, Receive(w)
  PROVE  Inv'
<1> DEFINE c == Head(queue[w])
           m == Request(position[w], c.target)
<1>1. TypeOK /\ PulseHoldsLock /\ MotionPlanned /\ WithinPlan /\ MotorState
  BY DEF Inv
<1>2. /\ c \in Commands
      /\ queue' \in [Windows -> Seq(Commands)]
      /\ \A v \in Windows : Len(queue'[v]) <= Capacity
  <2>1. queue[w] \in Seq(Commands) /\ queue[w] # <<>> /\ Len(queue[w]) <= Capacity
    BY <1>1 DEF TypeOK, Receive
  <2>2. /\ c \in Commands /\ Tail(queue[w]) \in Seq(Commands)
        /\ Len(Tail(queue[w])) <= Capacity
    BY <2>1, WindowAssumption
  <2>3. queue' = [queue EXCEPT ![w] = Tail(queue[w])]
    BY DEF Receive
  <2> QED
    BY <1>1, <2>2, <2>3 DEF TypeOK
<1>3. position[w] \in Positions /\ motion[w] = NoMotion /\ pc[w] = "idle"
  BY <1>1 DEF TypeOK, MotionPlanned, Receive
<1>4. CASE c.kind = "set" /\ m # NoMotion
  <2>1. c.target \in Positions
    BY <1>2, <1>4, CommandFacts
  <2>2. m \in Motions /\ m.start = position[w] /\ m.target = c.target
    BY <1>3, <1>4, <2>1, RequestType
  <2>3. /\ position' = [position EXCEPT ![w] = position[w]]
        /\ motion' = [motion EXCEPT ![w] = m]
        /\ pc' = [pc EXCEPT ![w] = "startLock"]
        /\ snapshots' = [snapshots EXCEPT ![w] = Snapshot(position[w], m)]
        /\ changed' = TRUE
        /\ UNCHANGED <<timer, elapsed, next, lock, motor, reported, lost, history>>
    BY <1>4 DEF Receive, DriveTo, Settle, Goto, Record
  <2>4. Snapshot(position[w], m) \in [percentage : Positions, moving : BOOLEAN]
    BY <1>3, SnapshotType
  <2> HIDE DEF c, m
  <2>5. TypeOK'
    BY <1>1, <1>2, <1>3, <2>2, <2>3, <2>4
    DEF TypeOK, history, sent, Pcs, Waits, Pulses
  <2>6. PulseHoldsLock'
    BY <1>1, <2>3 DEF PulseHoldsLock, Pulses, TypeOK
  <2>7. MotionPlanned'
    <3>1. m = Request(position[w], m.target) /\ m # NoMotion
      BY <1>4, <2>2 DEF m
    <3> QED
      BY <1>1, <2>3, <3>1 DEF MotionPlanned, TypeOK
  <2>8. WithinPlan'
    BY <1>1, <2>3 DEF WithinPlan, TypeOK
  <2>9. MotorState'
    BY <1>1, <2>3 DEF MotorState, TypeOK
  <2> QED
    BY <2>5, <2>6, <2>7, <2>8, <2>9 DEF Inv
<1>5. CASE ~(c.kind = "set" /\ m # NoMotion)
  <2>1. position' = position /\ motion' = motion /\ pc' = pc
    BY <1>1, <1>3, <1>5 DEF Receive, DriveTo, Settle, Goto, TypeOK
  <2>2. /\ snapshots' \in [Windows -> [percentage : Positions, moving : BOOLEAN]]
        /\ changed' \in BOOLEAN
    <3>1. CASE c.kind = "set"
      <4>1. UNCHANGED <<snapshots, changed>>
        BY <1>5, <3>1 DEF Receive
      <4> QED
        BY <1>1, <4>1 DEF TypeOK
    <3>2. CASE c.kind # "set"
      <4>1. /\ snapshots' = [snapshots EXCEPT ![w] = Snapshot(position[w], motion[w])]
            /\ changed' = TRUE
        BY <3>2 DEF Receive, Record
      <4>2. Snapshot(position[w], motion[w]) \in [percentage : Positions, moving : BOOLEAN]
        BY <1>3, SnapshotType
      <4> QED
        BY <1>1, <4>1, <4>2 DEF TypeOK
    <3> QED
      BY <3>1, <3>2
  <2>3. UNCHANGED <<timer, elapsed, next, lock, motor, reported, lost, history>>
    BY DEF Receive
  <2> HIDE DEF c, m
  <2>4. TypeOK'
    BY <1>1, <1>2, <2>1, <2>2, <2>3 DEF TypeOK, history, sent
  <2> QED
    BY <1>1, <2>1, <2>3, <2>4
    DEF Inv, PulseHoldsLock, MotionPlanned, WithinPlan, MotorState
<1> QED
  BY <1>4, <1>5

LEMMA AcquireStep ==
  ASSUME Inv, NEW w \in Windows, Acquire(w)
  PROVE  Inv'
<1>1. TypeOK /\ PulseHoldsLock /\ MotionPlanned /\ WithinPlan /\ MotorState
  BY DEF Inv
<1>2. /\ pc[w] \in Waits /\ lock = NoWindow /\ lock' = w
      /\ timer' = [timer EXCEPT ![w] = PulseTime]
      /\ UNCHANGED <<position, motion, elapsed, next, queue, snapshots, telemetry,
                     history>>
  BY DEF Acquire, LockFree
<1>3. motion[w].direction \in Directions
  BY <1>1, <1>2, MotionOf DEF Waits
<1>4. \A v \in Windows : pc[v] \notin Pulses
  BY <1>1, <1>2, WindowAssumption DEF PulseHoldsLock
<1>5. CASE pc[w] = "startLock"
  <2>1. /\ pc' = [pc EXCEPT ![w] = "startPulse"]
        /\ motor' = [motor EXCEPT ![w] = motion[w].direction]
    BY <1>5 DEF Acquire, Goto
  <2>2. TypeOK'
    BY <1>1, <1>2, <1>3, <2>1, WindowAssumption
    DEF TypeOK, Pcs, Pulses, telemetry, history, sent
  <2>3. PulseHoldsLock'
    BY <1>1, <1>2, <1>4, <2>1 DEF TypeOK, PulseHoldsLock
  <2>4. MotionPlanned' /\ WithinPlan'
    BY <1>1, <1>2, <1>5, <2>1 DEF TypeOK, MotionPlanned, WithinPlan
  <2>5. MotorState'
    BY <1>1, <1>2, <1>5, <2>1 DEF TypeOK, MotorState
  <2> QED
    BY <2>2, <2>3, <2>4, <2>5 DEF Inv
<1>6. CASE pc[w] = "stopLock"
  <2>1. /\ pc' = [pc EXCEPT ![w] = "stopPulse"]
        /\ motor' = [motor EXCEPT ![w] = "stop"]
    BY <1>6 DEF Acquire, Goto
  <2>2. TypeOK'
    BY <1>1, <1>2, <2>1, WindowAssumption
    DEF TypeOK, Pcs, Pulses, telemetry, history, sent
  <2>3. PulseHoldsLock'
    BY <1>1, <1>2, <1>4, <2>1 DEF TypeOK, PulseHoldsLock
  <2>4. MotionPlanned' /\ WithinPlan'
    BY <1>1, <1>2, <1>6, <2>1 DEF TypeOK, MotionPlanned, WithinPlan
  <2>5. MotorState'
    BY <1>1, <1>2, <1>6, <2>1 DEF TypeOK, MotorState
  <2> QED
    BY <2>2, <2>3, <2>4, <2>5 DEF Inv
<1> QED
  BY <1>2, <1>5, <1>6 DEF Waits

LEMMA StartPulseDoneStep ==
  ASSUME Inv, NEW w \in Windows, StartPulseDone(w)
  PROVE  Inv'
<1>1. TypeOK /\ PulseHoldsLock /\ MotionPlanned /\ WithinPlan /\ MotorState
  BY DEF Inv
<1>2. /\ pc[w] = "startPulse" /\ lock' = NoWindow
      /\ pc' = [pc EXCEPT ![w] = "travel"]
      /\ timer' = [timer EXCEPT ![w] = PlanTravel(motion[w])]
      /\ UNCHANGED <<position, motion, elapsed, next, queue, motor, snapshots,
                     telemetry, history>>
  BY DEF StartPulseDone, Goto
<1>3. PlanTravel(motion[w]) \in Nat
  BY <1>1, <1>2, MotionOf, TravelNat
<1>4. \A v \in Windows : v # w => pc[v] \notin Pulses
  BY <1>1, <1>2 DEF PulseHoldsLock, Pulses
<1>5. TypeOK'
  BY <1>1, <1>2, <1>3 DEF TypeOK, Pcs, telemetry, history, sent
<1>6. PulseHoldsLock'
  BY <1>1, <1>2, <1>4 DEF TypeOK, PulseHoldsLock, Pulses
<1>7. MotionPlanned'
  BY <1>1, <1>2 DEF TypeOK, MotionPlanned
<1>8. WithinPlan'
  <2> SUFFICES ASSUME NEW v \in Windows
               PROVE  /\ pc'[v] = "travel" => timer'[v] <= PlanTravel(motion[v])
                      /\ pc'[v] \in {"stopLock", "stopPulse"} /\ next[v] # Finish =>
                           elapsed[v] <= PlanTravel(motion[v])
    BY <1>2 DEF WithinPlan
  <2>1. CASE v = w
    BY <1>1, <1>2, <1>3, <2>1 DEF TypeOK
  <2>2. CASE v # w
    BY <1>1, <1>2, <2>2 DEF TypeOK, WithinPlan
  <2> QED
    BY <2>1, <2>2
<1>9. MotorState'
  BY <1>1, <1>2 DEF TypeOK, MotorState
<1> QED
  BY <1>5, <1>6, <1>7, <1>8, <1>9 DEF Inv

LEMMA TravelDoneStep ==
  ASSUME Inv, NEW w \in Windows, TravelDone(w)
  PROVE  Inv'
<1>1. TypeOK /\ PulseHoldsLock /\ MotionPlanned /\ WithinPlan /\ MotorState
  BY DEF Inv
<1>2. /\ pc[w] = "travel"
      /\ UNCHANGED <<timer, elapsed, queue, lock, motor, reported, lost, history>>
  BY DEF TravelDone
<1>3. motion[w].target \in Positions
  BY <1>1, <1>2, MotionOf
<1>4. CASE PlanStops(motion[w])
  <2>1. /\ pc' = [pc EXCEPT ![w] = "stopLock"]
        /\ next' = [next EXCEPT ![w] = Finish]
        /\ UNCHANGED <<position, motion, snapshots, changed>>
    BY <1>4 DEF TravelDone, Goto
  <2>2. TypeOK'
    BY <1>1, <1>2, <2>1 DEF TypeOK, Pcs, Waits, history, sent
  <2>3. PulseHoldsLock' /\ MotionPlanned' /\ MotorState'
    BY <1>1, <1>2, <2>1 DEF TypeOK, PulseHoldsLock, Pulses, MotionPlanned, MotorState
  <2>4. WithinPlan'
    BY <1>1, <1>2, <2>1 DEF TypeOK, WithinPlan
  <2> QED
    BY <2>2, <2>3, <2>4 DEF Inv
<1>5. CASE ~PlanStops(motion[w])
  <2>1. /\ position' = [position EXCEPT ![w] = motion[w].target]
        /\ motion' = [motion EXCEPT ![w] = NoMotion]
        /\ pc' = [pc EXCEPT ![w] = "idle"]
        /\ snapshots' = [snapshots EXCEPT ![w] = Snapshot(motion[w].target, NoMotion)]
        /\ changed' = TRUE /\ next' = next
    BY <1>5 DEF TravelDone, Goto, Settle, Record
  <2>2. Snapshot(motion[w].target, NoMotion) \in [percentage : Positions, moving : BOOLEAN]
    BY <1>3, SnapshotType
  <2>3. TypeOK'
    BY <1>1, <1>2, <1>3, <2>1, <2>2 DEF TypeOK, Pcs, history, sent
  <2>4. PulseHoldsLock' /\ MotionPlanned'
    BY <1>1, <1>2, <2>1 DEF TypeOK, PulseHoldsLock, Pulses, MotionPlanned
  <2>5. WithinPlan'
    BY <1>1, <1>2, <2>1 DEF TypeOK, WithinPlan
  <2>6. MotorState'
    BY <1>1, <1>2, <1>5, <2>1 DEF TypeOK, MotorState, PlanStops
  <2> QED
    BY <2>3, <2>4, <2>5, <2>6 DEF Inv
<1> QED
  BY <1>4, <1>5

LEMMA TravelInterruptedStep ==
  ASSUME Inv, NEW w \in Windows, TravelInterrupted(w)
  PROVE  Inv'
<1>1. TypeOK /\ PulseHoldsLock /\ MotionPlanned /\ WithinPlan /\ MotorState
  BY DEF Inv
<1>2. /\ pc[w] = "travel" /\ timer[w] # 0 /\ queue[w] # <<>>
      /\ queue' = [queue EXCEPT ![w] = Tail(queue[w])]
      /\ next' = [next EXCEPT ![w] = Head(queue[w])]
      /\ elapsed' = [elapsed EXCEPT ![w] = PlanTravel(motion[w]) - timer[w]]
      /\ timer' = [timer EXCEPT ![w] = 0]
      /\ pc' = [pc EXCEPT ![w] = "stopLock"]
      /\ UNCHANGED <<position, motion, lock, motor, snapshots, telemetry, history>>
  BY DEF TravelInterrupted, Goto
<1>3. /\ Head(queue[w]) \in Commands
      /\ queue' \in [Windows -> Seq(Commands)]
      /\ \A v \in Windows : Len(queue'[v]) <= Capacity
  <2>1. queue[w] \in Seq(Commands) /\ queue[w] # <<>> /\ Len(queue[w]) <= Capacity
    BY <1>1, <1>2 DEF TypeOK
  <2>2. /\ Head(queue[w]) \in Commands /\ Tail(queue[w]) \in Seq(Commands)
        /\ Len(Tail(queue[w])) <= Capacity
    BY <2>1, WindowAssumption
  <2> QED
    BY <1>1, <1>2, <2>2 DEF TypeOK
<1>4. PlanTravel(motion[w]) \in Nat
  BY <1>1, <1>2, MotionOf, TravelNat
<1>5. /\ PlanTravel(motion[w]) - timer[w] \in Nat
      /\ PlanTravel(motion[w]) - timer[w] <= PlanTravel(motion[w])
  <2>1. timer[w] \in Nat /\ timer[w] <= PlanTravel(motion[w])
    BY <1>1, <1>2 DEF TypeOK, WithinPlan
  <2> QED
    BY <1>4, <2>1
<1>6. TypeOK'
  BY <1>1, <1>2, <1>3, <1>5 DEF TypeOK, Pcs, Waits, telemetry, history, sent
<1>7. PulseHoldsLock' /\ MotionPlanned' /\ MotorState'
  BY <1>1, <1>2 DEF TypeOK, PulseHoldsLock, Pulses, MotionPlanned, MotorState
<1>8. WithinPlan'
  <2> SUFFICES ASSUME NEW v \in Windows
               PROVE  /\ pc'[v] = "travel" => timer'[v] <= PlanTravel(motion[v])
                      /\ pc'[v] \in {"stopLock", "stopPulse"} /\ next'[v] # Finish =>
                           elapsed'[v] <= PlanTravel(motion[v])
    BY <1>2 DEF WithinPlan
  <2>1. CASE v = w
    BY <1>1, <1>2, <1>5, <2>1 DEF TypeOK
  <2>2. CASE v # w
    BY <1>1, <1>2, <2>2 DEF TypeOK, WithinPlan
  <2> QED
    BY <2>1, <2>2
<1> QED
  BY <1>6, <1>7, <1>8 DEF Inv

LEMMA StopPulseDoneStep ==
  ASSUME Inv, NEW w \in Windows, StopPulseDone(w)
  PROVE  Inv'
<1> DEFINE p == IF next[w] = Finish THEN motion[w].target ELSE StoppedAt(w)
           m == IF next[w].kind = "set" THEN Request(p, next[w].target) ELSE NoMotion
<1>1. TypeOK /\ PulseHoldsLock /\ MotionPlanned /\ WithinPlan /\ MotorState
  BY DEF Inv
<1>2. /\ pc[w] = "stopPulse" /\ lock' = NoWindow
      /\ elapsed' = [elapsed EXCEPT ![w] = 0]
      /\ next' = [next EXCEPT ![w] = Finish]
      /\ UNCHANGED <<timer, queue, motor, reported, lost, history>>
  BY DEF StopPulseDone
<1>3. p \in Positions
  BY <1>1, <1>2, MotionOf, StoppedAtType
<1>4. m \in Motions \cup {NoMotion} /\ (m # NoMotion => m = Request(p, m.target))
  <2>1. CASE next[w].kind = "set"
    <3>1. next[w].target \in Positions
      BY <1>1, <2>1, CommandFacts DEF TypeOK
    <3> HIDE DEF p
    <3> QED
      BY <1>3, <2>1, <3>1, RequestType
  <2>2. CASE next[w].kind # "set"
    BY <2>2
  <2> QED
    BY <2>1, <2>2
<1>5. /\ position' = [position EXCEPT ![w] = p]
      /\ motion' = [motion EXCEPT ![w] = m]
      /\ pc' = [pc EXCEPT ![w] = IF m = NoMotion THEN "idle" ELSE "startLock"]
      /\ snapshots' = [snapshots EXCEPT ![w] = Snapshot(p, m)]
      /\ changed' = TRUE
  BY DEF StopPulseDone, AfterStop, DriveTo, Settle, Goto, Record
<1>6. Snapshot(p, m) \in [percentage : Positions, moving : BOOLEAN]
  BY <1>3, SnapshotType
<1>7. \A v \in Windows : v # w => pc[v] \notin Pulses
  BY <1>1, <1>2 DEF PulseHoldsLock, Pulses
<1> HIDE DEF p, m
<1>8. TypeOK'
  BY <1>1, <1>2, <1>3, <1>4, <1>5, <1>6 DEF TypeOK, Pcs, Waits, history, sent
<1>9. PulseHoldsLock'
  BY <1>1, <1>2, <1>5, <1>7 DEF TypeOK, PulseHoldsLock, Pulses
<1>10. MotionPlanned'
  <2> SUFFICES ASSUME NEW v \in Windows
               PROVE  /\ pc'[v] = "idle" <=> motion'[v] = NoMotion
                      /\ pc'[v] # "idle" =>
                           motion'[v] = Request(position'[v], motion'[v].target)
    BY DEF MotionPlanned
  <2>1. CASE v = w
    BY <1>1, <1>4, <1>5, <2>1 DEF TypeOK
  <2>2. CASE v # w
    BY <1>1, <1>5, <2>2 DEF TypeOK, MotionPlanned
  <2> QED
    BY <2>1, <2>2
<1>11. WithinPlan'
  <2> SUFFICES ASSUME NEW v \in Windows
               PROVE  /\ pc'[v] = "travel" => timer[v] <= PlanTravel(motion'[v])
                      /\ pc'[v] \in {"stopLock", "stopPulse"} /\ next'[v] # Finish =>
                           elapsed'[v] <= PlanTravel(motion'[v])
    BY <1>2 DEF WithinPlan
  <2>1. CASE v = w
    BY <1>1, <1>2, <1>5, <2>1 DEF TypeOK
  <2>2. CASE v # w
    BY <1>1, <1>2, <1>5, <2>2 DEF TypeOK, WithinPlan
  <2> QED
    BY <2>1, <2>2
<1>12. MotorState'
  BY <1>1, <1>2, <1>5 DEF TypeOK, MotorState
<1> QED
  BY <1>8, <1>9, <1>10, <1>11, <1>12 DEF Inv

LEMMA SendStep ==
  ASSUME Inv, NEW w \in Windows, NEW c \in Commands, Send(w, c)
  PROVE  Inv'
<1>1. TypeOK /\ PulseHoldsLock /\ MotionPlanned /\ WithinPlan /\ MotorState
  BY DEF Inv
<1>2. /\ commands < MaxCommands /\ commands' = commands + 1
      /\ lastSent' = [lastSent EXCEPT ![w] = c]
      /\ queue' = [queue EXCEPT ![w] = Enqueued(queue[w], c)]
      /\ lastAccepted' = IF Len(queue[w]) < Capacity
                           THEN [lastAccepted EXCEPT ![w] = c] ELSE lastAccepted
      /\ UNCHANGED <<control, lock, motor, snapshots, telemetry, actual>>
  BY DEF Send
<1>3. /\ Enqueued(queue[w], c) \in Seq(Commands)
      /\ Len(Enqueued(queue[w], c)) <= Capacity
  <2>1. queue[w] \in Seq(Commands) /\ Len(queue[w]) <= Capacity /\ Len(queue[w]) \in Nat
    BY <1>1 DEF TypeOK
  <2>2. CASE Len(queue[w]) < Capacity
    <3>1. Append(queue[w], c) \in Seq(Commands)
          /\ Len(Append(queue[w], c)) = Len(queue[w]) + 1
      BY <2>1
    <3> QED
      BY <2>1, <2>2, <3>1, WindowAssumption DEF Enqueued
  <2>3. CASE ~(Len(queue[w]) < Capacity)
    BY <2>1, <2>3 DEF Enqueued
  <2> QED
    BY <2>2, <2>3
<1>4. commands' \in 0..MaxCommands
  BY <1>1, <1>2, WindowAssumption DEF TypeOK
<1>5. TypeOK'
  BY <1>1, <1>2, <1>3, <1>4 DEF TypeOK, control, telemetry
<1> QED
  BY <1>1, <1>2, <1>5
  DEF Inv, PulseHoldsLock, MotionPlanned, WithinPlan, MotorState, control

\* What a message is parsed to is a command for a window that there is: its index
\* and its percentage are in range, and the position is the one asked for.
LEMMA ParsedInRange ==
  ASSUME NEW m \in Messages
  PROVE  LET a == ParseAction(m)
         IN  /\ a.kind = "set" => /\ a.index \in Windows
                                  /\ a.percentage \in Positions
                                  /\ NewPosition(a.percentage) = a.percentage
             /\ a.kind = "stop" => a.index \in Windows
<1> DEFINE a == ParseAction(m)
<1>1. \/ a = ParseSet(m)
      \/ m.topic \in {"get", "stop"} /\ a = ParseIndex(m)
      \/ a = Reset \/ a = Ignore
  <2>1. m.topic \in {"set", "get", "stop", "reset", "state"}
    BY DEF Messages
  <2>2. CASE m.topic = "set"
    BY <2>2 DEF ParseAction
  <2>3. CASE m.topic \in {"get", "stop"}
    BY <2>3 DEF ParseAction
  <2>4. CASE m.topic = "reset"
    BY <2>4 DEF ParseAction
  <2>5. CASE m.topic = "state"
    BY <2>5 DEF ParseAction
  <2> QED
    BY <2>1, <2>2, <2>3, <2>4, <2>5
<1>2. CASE a = Reset \/ a = Ignore
  BY <1>2 DEF Reset, Ignore
<1>3. CASE m.topic \in {"get", "stop"} /\ a = ParseIndex(m)
  BY <1>3 DEF ParseIndex, ValidIndex, Ignore
<1>4. CASE a = ParseSet(m)
  <2>1. CASE ValidIndex(m.index) /\ ValidPercentage(m.percentage)
    <3>1. /\ a = [kind |-> "set", index |-> m.index, percentage |-> m.percentage]
          /\ m.index \in Windows /\ m.percentage \in Positions
      BY <1>4, <2>1 DEF ParseSet, ValidIndex, ValidPercentage
    <3>2. NewPosition(m.percentage) = m.percentage
      BY <3>1, TravelAssumption DEF NewPosition, Positions
    <3> QED
      BY <3>1, <3>2
  <2>2. CASE ~(ValidIndex(m.index) /\ ValidPercentage(m.percentage))
    BY <1>4, <2>2 DEF ParseSet, Ignore
  <2> QED
    BY <2>1, <2>2
<1> QED
  BY <1>1, <1>2, <1>3, <1>4

LEMMA InboundStep ==
  ASSUME Inv, NEW m \in Messages, Inbound(m)
  PROVE  Inv' \/ UNCHANGED vars
<1> DEFINE a == ParseAction(m)
<1>1. Dispatch(a)
  BY DEF Inbound
<1>2. CASE a.kind = "set" /\ Send(a.index, SetTarget(NewPosition(a.percentage)))
  <2>1. a.index \in Windows /\ NewPosition(a.percentage) \in Positions
    BY <1>2, ParsedInRange
  <2>2. SetTarget(NewPosition(a.percentage)) \in Commands
    BY <2>1 DEF Commands
  <2> QED
    BY <1>2, <2>1, <2>2, SendStep
<1>3. CASE a.kind = "stop" /\ Send(a.index, Stop)
  <2>1. a.index \in Windows
    BY <1>3, ParsedInRange
  <2> QED
    BY <1>3, <2>1, SendStep, CommandFacts
<1>4. CASE UNCHANGED vars
  BY <1>4
<1> QED
  BY <1>1, <1>2, <1>3, <1>4 DEF Dispatch

LEMMA PublishStep ==
  ASSUME Inv, PublishState \/ Heartbeat
  PROVE  Inv'
<1>1. TypeOK /\ PulseHoldsLock /\ MotionPlanned /\ WithinPlan /\ MotorState
  BY DEF Inv
<1>2. UNCHANGED <<control, queue, lock, motor, snapshots, history>>
  BY DEF PublishState, Heartbeat
<1>3. /\ reported' \in {reported, snapshots}
      /\ changed' \in BOOLEAN
      /\ lost' \in 0..MaxLost
  <2>1. lost \in 0..MaxLost /\ changed \in BOOLEAN /\ MaxLost \in Nat
    BY <1>1, WindowAssumption DEF TypeOK
  <2>2. CASE PublishState
    <3>1. CASE reported' = snapshots /\ UNCHANGED lost
      BY <2>1, <2>2, <3>1 DEF PublishState
    <3>2. CASE lost < MaxLost /\ lost' = lost + 1 /\ UNCHANGED reported
      <4>1. changed' \in BOOLEAN /\ reported' = reported
        BY <2>2, <3>2 DEF PublishState
      <4>2. lost' \in 0..MaxLost
        BY <2>1, <3>2
      <4> QED
        BY <4>1, <4>2
    <3> QED
      BY <2>2, <3>1, <3>2 DEF PublishState
  <2>3. CASE Heartbeat
    BY <2>1, <2>3 DEF Heartbeat
  <2> QED
    BY <2>2, <2>3
<1>4. TypeOK'
  BY <1>1, <1>2, <1>3 DEF TypeOK, control, history, sent
<1> QED
  BY <1>1, <1>2, <1>4
  DEF Inv, PulseHoldsLock, MotionPlanned, WithinPlan, MotorState, control

LEMMA TickStep ==
  ASSUME Inv, Tick
  PROVE  Inv'
<1>1. TypeOK /\ PulseHoldsLock /\ MotionPlanned /\ WithinPlan /\ MotorState
  BY DEF Inv
<1>2. /\ timer' = [w \in Windows |-> IF Timed(w) THEN timer[w] - 1 ELSE timer[w]]
      /\ UNCHANGED <<position, motion, pc, elapsed, next, queue, lock, motor,
                     snapshots, telemetry, sent>>
  BY DEF Tick
<1>3. \A w \in Windows : timer'[w] \in Nat /\ timer'[w] <= timer[w]
  <2>1. \A w \in Windows : timer[w] \in Nat
    BY <1>1 DEF TypeOK
  <2>2. \A w \in Windows : Timed(w) => timer[w] # 0
    BY DEF Tick, Ready, Timed
  <2>3. \A w \in Windows : timer'[w] = IF Timed(w) THEN timer[w] - 1 ELSE timer[w]
    BY <1>2
  <2> QED
    BY <2>1, <2>2, <2>3
<1>4. timer' \in [Windows -> Nat]
  BY <1>2, <1>3
<1>5. actual' \in [Windows -> 0..TravelTime]
  <2>1. actual' = [w \in Windows |-> Moved(w)]
    BY DEF Tick
  <2>2. ASSUME NEW w \in Windows PROVE Moved(w) \in 0..TravelTime
    <3>1. actual[w] \in 0..TravelTime
      BY <1>1 DEF TypeOK
    <3> QED
      BY <3>1, TravelAssumption DEF Moved
  <2> QED
    BY <2>1, <2>2
<1>6. TypeOK'
  BY <1>1, <1>2, <1>4, <1>5 DEF TypeOK, telemetry, sent
<1>7. WithinPlan'
  <2> SUFFICES ASSUME NEW w \in Windows
               PROVE  /\ pc[w] = "travel" => timer'[w] <= PlanTravel(motion[w])
                      /\ pc[w] \in {"stopLock", "stopPulse"} /\ next[w] # Finish =>
                           elapsed[w] <= PlanTravel(motion[w])
    BY <1>2 DEF WithinPlan
  <2>1. CASE pc[w] = "travel"
    <3>1. PlanTravel(motion[w]) \in Nat
      BY <1>1, <2>1, MotionOf, TravelNat
    <3>2. timer[w] \in Nat /\ timer[w] <= PlanTravel(motion[w])
      BY <1>1, <2>1 DEF TypeOK, WithinPlan
    <3> QED
      BY <1>3, <2>1, <3>1, <3>2
  <2>2. CASE pc[w] # "travel"
    BY <1>1, <2>2 DEF WithinPlan
  <2> QED
    BY <2>1, <2>2
<1> QED
  BY <1>1, <1>2, <1>6, <1>7 DEF Inv, PulseHoldsLock, MotionPlanned, MotorState

LEMMA InvNext == Inv /\ [Next]_vars => Inv'
<1> SUFFICES ASSUME Inv, [Next]_vars PROVE Inv'
  OBVIOUS
<1>1. ASSUME NEW w \in Windows, Controller(w) PROVE Inv'
  BY <1>1, ReceiveStep, AcquireStep, StartPulseDoneStep, TravelDoneStep,
     TravelInterruptedStep, StopPulseDoneStep DEF Controller
<1>2. ASSUME NEW m \in Messages, Inbound(m) PROVE Inv' \/ UNCHANGED vars
  BY <1>2, InboundStep
<1>3. CASE PublishState \/ Heartbeat
  BY <1>3, PublishStep
<1>4. CASE Tick
  BY <1>4, TickStep
<1>5. CASE UNCHANGED vars
  BY <1>5 DEF vars, control, telemetry, history, sent, Inv, TypeOK, PulseHoldsLock,
              MotionPlanned, WithinPlan, MotorState
<1> QED
  BY <1>1, <1>2, <1>3, <1>4, <1>5 DEF Next

LEMMA Invariance == Spec => []Inv
  BY InvInit, InvNext, PTL DEF Spec

-----------------------------------------------------------------------------
(* Travels to a seat                                                       *)

\* The time that is left of a travel to a seat takes the window there, wherever
\* it is.
SeatInReach ==
  \A w \in Windows :
    pc[w] = "travel" /\ IsSeat(motion[w].target) =>
      IF motion[w].target = 0 THEN actual[w] <= timer[w]
                              ELSE actual[w] + timer[w] >= TravelTime

LEMMA SeatsApart == Full # 0 /\ Full \in Positions /\ IsSeat(Full) /\ IsSeat(0)
  BY TravelAssumption DEF Positions, IsSeat

\* A travel to a seat runs towards it.
LEMMA SeatDirection ==
  ASSUME Inv, NEW w \in Windows, pc[w] = "travel", IsSeat(motion[w].target)
  PROVE  motor[w] = IF motion[w].target = 0 THEN "closing" ELSE "opening"
<1>1. motor[w] = motion[w].direction
  BY DEF Inv, MotorState
<1>2. motion[w] = Request(position[w], motion[w].target) /\ motion[w] # NoMotion
  BY DEF Inv, MotionPlanned
<1>3. motion[w].direction =
        IF motion[w].target = Full \/ (motion[w].target # 0 /\ motion[w].target > position[w])
          THEN "opening" ELSE "closing"
  BY <1>2 DEF Request
<1>4. motion[w].target \in {0, Full}
  BY DEF IsSeat
<1> QED
  BY <1>1, <1>3, <1>4, SeatsApart

LEMMA SeatInReachInit == Init => SeatInReach
  BY DEF Init, SeatInReach

\* A step of a controller begins a travel with its whole time, or leaves it alone.
LEMMA SeatController ==
  ASSUME Inv, SeatInReach, NEW w \in Windows, Controller(w)
  PROVE  SeatInReach'
<1>1. TypeOK
  BY DEF Inv
<1>2. actual' = actual
  BY DEF Controller, Receive, Acquire, StartPulseDone, TravelDone, TravelInterrupted,
         StopPulseDone, history
<1>3. \A v \in Windows : v # w => /\ pc'[v] = pc[v]
                                 /\ motion'[v] = motion[v]
                                 /\ timer'[v] = timer[v]
  <2>1. CASE Receive(w)
    BY <1>1, <2>1 DEF TypeOK, Receive, DriveTo, Settle, Goto
  <2>2. CASE Acquire(w)
    BY <1>1, <2>2 DEF TypeOK, Acquire, Goto
  <2>3. CASE StartPulseDone(w) \/ TravelInterrupted(w)
    BY <1>1, <2>3 DEF TypeOK, StartPulseDone, TravelInterrupted, Goto
  <2>4. CASE TravelDone(w)
    BY <1>1, <2>4 DEF TypeOK, TravelDone, Settle, Goto
  <2>5. CASE StopPulseDone(w)
    BY <1>1, <2>5 DEF TypeOK, StopPulseDone, AfterStop, DriveTo, Settle, Goto
  <2> QED
    BY <2>1, <2>2, <2>3, <2>4, <2>5 DEF Controller
<1>4. pc'[w] = "travel" => StartPulseDone(w)
  <2>1. CASE Receive(w)
    BY <1>1, <2>1 DEF TypeOK, Receive, DriveTo, Settle, Goto
  <2>2. CASE Acquire(w)
    BY <1>1, <2>2 DEF TypeOK, Acquire, Goto
  <2>3. CASE TravelInterrupted(w) \/ TravelDone(w)
    BY <1>1, <2>3 DEF TypeOK, TravelInterrupted, TravelDone, Goto
  <2>4. CASE StopPulseDone(w)
    BY <1>1, <2>4 DEF TypeOK, StopPulseDone, AfterStop, DriveTo, Settle, Goto
  <2> QED
    BY <2>1, <2>2, <2>3, <2>4 DEF Controller
<1>5. ASSUME StartPulseDone(w), IsSeat(motion[w].target)
      PROVE  IF motion[w].target = 0 THEN actual[w] <= timer'[w]
                                     ELSE actual[w] + timer'[w] >= TravelTime
  <2>1. timer'[w] = TravelTime
    BY <1>1, <1>5 DEF TypeOK, StartPulseDone, PlanTravel
  <2>2. actual[w] \in 0..TravelTime
    BY <1>1 DEF TypeOK
  <2> QED
    BY <2>1, <2>2, TravelAssumption
<1>6. StartPulseDone(w) => motion' = motion
  BY DEF StartPulseDone
<1>7. ASSUME NEW v \in Windows, pc'[v] = "travel", IsSeat(motion'[v].target)
      PROVE  IF motion'[v].target = 0 THEN actual'[v] <= timer'[v]
                                      ELSE actual'[v] + timer'[v] >= TravelTime
  <2>1. CASE v = w
    BY <1>2, <1>4, <1>5, <1>6, <1>7, <2>1
  <2>2. CASE v # w
    BY <1>2, <1>3, <1>7, <2>2 DEF SeatInReach
  <2> QED
    BY <2>1, <2>2
<1> QED
  BY <1>7 DEF SeatInReach

LEMMA Onward ==
  ASSUME NEW a \in 0..TravelTime, NEW t \in Nat, t # 0
  PROVE  /\ a <= t => (IF a > 0 THEN a - 1 ELSE a) <= t - 1
         /\ a + t >= TravelTime =>
              (IF a < TravelTime THEN a + 1 ELSE a) + (t - 1) >= TravelTime
  BY TravelAssumption

LEMMA SeatTick ==
  ASSUME Inv, SeatInReach, Tick
  PROVE  SeatInReach'
<1>1. UNCHANGED <<pc, motion>>
  BY DEF Tick
<1>2. ASSUME NEW w \in Windows, pc[w] = "travel", IsSeat(motion[w].target)
      PROVE  IF motion[w].target = 0 THEN actual'[w] <= timer'[w]
                                     ELSE actual'[w] + timer'[w] >= TravelTime
  <2>1. timer[w] \in Nat /\ actual[w] \in 0..TravelTime
    BY DEF Inv, TypeOK
  <2>2. timer[w] # 0 /\ timer'[w] = timer[w] - 1
    BY <1>2 DEF Tick, Ready, Timed
  <2>3. actual'[w] = Moved(w)
    BY DEF Tick
  <2>4. CASE motion[w].target = 0
    <3>1. actual'[w] = IF actual[w] > 0 THEN actual[w] - 1 ELSE actual[w]
      BY <1>2, <2>3, <2>4, SeatDirection DEF Moved
    <3>2. actual[w] <= timer[w]
      BY <1>2, <2>4 DEF SeatInReach
    <3> QED
      BY <2>1, <2>2, <2>4, <3>1, <3>2, Onward
  <2>5. CASE motion[w].target # 0
    <3>1. actual'[w] = IF actual[w] < TravelTime THEN actual[w] + 1 ELSE actual[w]
      BY <1>2, <2>3, <2>5, SeatDirection DEF Moved
    <3>2. actual[w] + timer[w] >= TravelTime
      BY <1>2, <2>5 DEF SeatInReach
    <3> QED
      BY <2>1, <2>2, <2>5, <3>1, <3>2, Onward
  <2> QED
    BY <2>4, <2>5
<1> QED
  BY <1>1, <1>2 DEF SeatInReach

LEMMA SeatNext == Inv /\ SeatInReach /\ [Next]_vars => SeatInReach'
<1> SUFFICES ASSUME Inv, SeatInReach, [Next]_vars PROVE SeatInReach'
  OBVIOUS
<1>1. ASSUME NEW w \in Windows, Controller(w) PROVE SeatInReach'
  BY <1>1, SeatController
<1>2. CASE UNCHANGED <<pc, motion, timer, actual>>
  BY <1>2 DEF SeatInReach
<1>3. ASSUME NEW m \in Messages, Inbound(m) PROVE UNCHANGED <<pc, motion, timer, actual>>
  BY <1>3 DEF Inbound, Dispatch, Send, control, vars, history
<1>4. CASE PublishState \/ Heartbeat
  BY <1>2, <1>4 DEF PublishState, Heartbeat, control, history
<1>5. CASE Tick
  BY <1>5, SeatTick
<1>6. CASE UNCHANGED vars
  BY <1>2, <1>6 DEF vars, control, history
<1> QED
  BY <1>1, <1>2, <1>3, <1>4, <1>5, <1>6 DEF Next

-----------------------------------------------------------------------------
(* The theorems                                                            *)

\* The state of the controllers, the queues' bound included, is well typed.
THEOREM WindowTyping == Spec => []TypeOK
<1>1. Inv => TypeOK
  BY DEF Inv
<1> QED
  BY <1>1, Invariance, PTL

\* However many windows contend for the actuation lock, and in whatever order
\* they get it, no two of them are ever in a pulse sequence (window.rs:98-107).
THEOREM PulsesNeverOverlap == Spec => []PulsesExclusive
<1>1. Inv => PulsesExclusive
  BY DEF Inv, PulseHoldsLock, PulsesExclusive
<1> QED
  BY <1>1, Invariance, PTL

\* Whatever commands interrupt and retarget the travels, a window that rests at
\* a partial position was halted, and one that is timed runs as planned.
THEOREM MotorObeys == Spec => []MotorFollowsPlan
<1>1. Inv => MotorFollowsPlan
  <2> SUFFICES ASSUME Inv, NEW w \in Windows
               PROVE  /\ motion[w] = NoMotion /\ ~IsSeat(position[w])
                           => motor[w] = "stop"
                      /\ pc[w] = "travel" => motor[w] = motion[w].direction
    BY DEF MotorFollowsPlan
  <2> QED
    BY DEF Inv, MotionPlanned, MotorState
<1> QED
  BY <1>1, Invariance, PTL

\* Every interruption records a position between where the travel started and
\* where it was going (window.rs:81-98 and 237-262).
THEOREM InterruptionStaysOnTheWay == Spec => []InterruptedOnTheWay
<1>1. Inv => InterruptedOnTheWay
  <2> SUFFICES ASSUME Inv, NEW w \in Windows, pc[w] = "stopPulse", next[w] # Finish
               PROVE  IF motion[w].direction = "opening"
                        THEN StoppedAt(w) \in motion[w].start..motion[w].target
                        ELSE StoppedAt(w) \in motion[w].target..motion[w].start
    BY DEF InterruptedOnTheWay
  <2>1. TypeOK /\ MotionPlanned /\ WithinPlan
    BY DEF Inv
  <2>2. /\ motion[w] \in Motions /\ motion[w].start = position[w]
        /\ motion[w].target \in Positions
        /\ Request(position[w], motion[w].target) = motion[w]
    BY <2>1, MotionOf
  <2>3. /\ position[w] \in Positions /\ elapsed[w] \in Nat
        /\ elapsed[w] <= PlanTravel(motion[w])
    BY <2>1 DEF TypeOK, WithinPlan
  <2>4. motion[w] # NoMotion
    BY <2>2, NoMotionApart
  <2>5. IF motion[w].direction = "opening"
          THEN Interrupted(position[w], motion[w].direction, elapsed[w])
                 \in position[w]..motion[w].target
          ELSE Interrupted(position[w], motion[w].direction, elapsed[w])
                 \in motion[w].target..position[w]
    BY <2>2, <2>3, <2>4, InterruptedBetween
  <2> QED
    BY <2>2, <2>5 DEF StoppedAt
<1> QED
  BY <1>1, Invariance, PTL

\* Wherever a reset, a rounded position or a wait for the lock has left a window,
\* a travel to a seat ends at that seat (core window.rs:147).
THEOREM SeatsRecalibrate == Spec => []SeatTravelArrives
<1>1. Inv /\ SeatInReach => SeatTravelArrives
  <2> SUFFICES ASSUME Inv, SeatInReach, NEW w \in Windows,
                      pc[w] = "travel", timer[w] = 0, IsSeat(motion[w].target)
               PROVE  actual[w] = IF motion[w].target = 0 THEN 0 ELSE TravelTime
    BY DEF SeatTravelArrives
  <2>1. actual[w] \in 0..TravelTime
    BY DEF Inv, TypeOK
  <2>2. IF motion[w].target = 0 THEN actual[w] <= 0 ELSE actual[w] + 0 >= TravelTime
    BY DEF SeatInReach
  <2> QED
    BY <2>1, <2>2, TravelAssumption
<1> QED
  BY <1>1, Invariance, SeatInReachInit, SeatNext, PTL DEF Spec

=============================================================================
