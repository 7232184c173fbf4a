--------------------------- MODULE WindowControl ---------------------------
(***************************************************************************)
(* The window controllers (skylights-app/src/window.rs): one task and one  *)
(* bounded command queue per window, the lock that serialises the pulse    *)
(* sequences of all windows, and the snapshots they leave for telemetry.   *)
(* mqtt_task sends commands without waiting and publishes the snapshots.   *)
(*                                                                         *)
(* Time passes in ticks, and only while no task is ready to run.  The      *)
(* motor obeys the last pulse sequence: it runs from the end of the one    *)
(* that starts it to the start of the one that stops it, or to its seat.   *)
(***************************************************************************)
EXTENDS MqttCommands, Sequences

CONSTANTS
  NoWindow,      \* nobody holds ACTUATION_LOCK
  LeftAt,        \* where the last boot left each window, in ticks from closed
  PulseTime,     \* PULSE_SEQUENCE_MS, in ticks
  Capacity,      \* capacity of a command queue
  MaxCommands,   \* bound: commands sent; no message comes after the last
  MaxLost        \* bound: publishes that fail

ASSUME WindowAssumption ==
  /\ NoWindow \notin Windows
  /\ LeftAt \in [Windows -> 0..TravelTime]
  /\ PulseTime \in Nat \ {0} /\ Capacity \in Nat \ {0}
  /\ MaxCommands \in Nat /\ MaxLost \in Nat

VARIABLES
  position, motion,   \* the WindowPositioner of each window
  pc,                 \* where its controller is suspended
  timer,              \* ticks left of the pulse sequence or the travel
  elapsed,            \* travel time measured at the end of the select
  next,               \* the branch of the select, taken after the stop pulse
  queue,              \* WINDOW_COMMANDS
  lock,               \* ACTUATION_LOCK: its holder
  motor,              \* the last pulse sequence each window got
  snapshots, changed, \* WINDOW_STATES, STATE_CHANGED
  reported,           \* the state last published
  lastSent,           \* history: the last command sent to each window
  lastAccepted,       \* history: the last one its queue took
  commands, lost,     \* what the bounds count
  actual              \* where the window is, in ticks of travel from closed

control   == <<position, motion, pc, timer, elapsed, next>>
telemetry == <<changed, reported, lost>>
sent      == <<lastSent, lastAccepted, commands>>
history   == <<sent, actual>>
vars == <<control, queue, lock, motor, snapshots, telemetry, history>>

SetTarget(t) == [kind |-> "set", target |-> t]
Stop         == [kind |-> "stop", target |-> 0]
Finish       == [kind |-> "finish", target |-> 0]
Commands     == {SetTarget(t) : t \in Positions} \cup {Stop}

Waits  == {"startLock", "stopLock"}
Pulses == {"startPulse", "stopPulse"}
Pcs    == {"idle", "travel"} \cup Waits \cup Pulses

Snapshot(p, m) == [percentage |-> p, moving |-> m # NoMotion]

TypeOK ==
  /\ position \in [Windows -> Positions]
  /\ motion \in [Windows -> Motions \cup {NoMotion}]
  /\ pc \in [Windows -> Pcs]
  /\ timer \in [Windows -> Nat] /\ elapsed \in [Windows -> Nat]
  /\ next \in [Windows -> Commands \cup {Finish}]
  /\ queue \in [Windows -> Seq(Commands)]
  /\ \A w \in Windows : Len(queue[w]) <= Capacity
  /\ lock \in Windows \cup {NoWindow}
  /\ motor \in [Windows -> Directions \cup {"stop"}]
  /\ snapshots \in [Windows -> [percentage : Positions, moving : BOOLEAN]]
  /\ reported \in [Windows -> [percentage : Positions, moving : BOOLEAN]]
  /\ changed \in BOOLEAN
  /\ lastSent \in [Windows -> Commands] /\ lastAccepted \in [Windows -> Commands]
  /\ commands \in 0..MaxCommands /\ lost \in 0..MaxLost
  /\ actual \in [Windows -> 0..TravelTime]

Init ==
  /\ position = [w \in Windows |-> 0]
  /\ motion = [w \in Windows |-> NoMotion]
  /\ pc = [w \in Windows |-> "idle"]
  /\ timer = [w \in Windows |-> 0] /\ elapsed = [w \in Windows |-> 0]
  /\ next = [w \in Windows |-> Finish]
  /\ queue = [w \in Windows |-> <<>>]
  /\ lock = NoWindow
  /\ motor = [w \in Windows |-> "stop"]
  /\ snapshots = [w \in Windows |-> Snapshot(0, NoMotion)]
  /\ reported = snapshots
  /\ changed = FALSE
  /\ lastSent = [w \in Windows |-> Stop]
  /\ lastAccepted = [w \in Windows |-> Stop]
  /\ commands = 0 /\ lost = 0
  /\ actual = LeftAt

-----------------------------------------------------------------------------
(* Helpers                                                                 *)

\* The positioner's new position and motion.
Settle(w, p, m) ==
  /\ position' = [position EXCEPT ![w] = p]
  /\ motion' = [motion EXCEPT ![w] = m]

\* Mutant: the MQTT task is woken and the snapshot is not stored.
RecordUnstored(w, p, m) == changed' = TRUE /\ UNCHANGED snapshots

\* record_state.
Record(w, p, m) ==
  /\ snapshots' = [snapshots EXCEPT ![w] = Snapshot(p, m)]
  /\ changed' = TRUE

Goto(w, where) == pc' = [pc EXCEPT ![w] = where]

\* The head of drive_to's loop at position p: without a plan it returns.
DriveTo(w, p, target) ==
  LET m == Request(p, target)
  IN  /\ Settle(w, p, m)
      /\ Goto(w, IF m = NoMotion THEN "idle" ELSE "startLock")

\* positioner.stop(elapsed) at the end of the stop pulse.
StoppedAt(w) == Interrupted(motion[w].start, motion[w].direction, elapsed[w])

\* Mutant: the lock is never contended.
LockFreeAlways == TRUE

LockFree == lock = NoWindow

-----------------------------------------------------------------------------
(* The controller of window w                                              *)

\* run: the next command of an idle window.  A stop has nothing to interrupt.
Receive(w) ==
  /\ pc[w] = "idle"
  /\ queue[w] # <<>>
  /\ queue' = [queue EXCEPT ![w] = Tail(@)]
  /\ LET c == Head(queue[w])
     IN  IF c.kind = "set"
           THEN /\ DriveTo(w, position[w], c.target)
                /\ IF Request(position[w], c.target) = NoMotion
                     THEN UNCHANGED <<snapshots, changed>>
                     ELSE Record(w, position[w], Request(position[w], c.target))
           ELSE /\ Record(w, position[w], motion[w])
                /\ UNCHANGED <<position, motion, pc>>
  /\ UNCHANGED <<timer, elapsed, next, lock, motor, reported, lost, history>>

\* actuate: the lock is taken and the first pulse goes out.
Acquire(w) ==
  /\ pc[w] \in Waits
  /\ LockFree
  /\ lock' = w
  /\ timer' = [timer EXCEPT ![w] = PulseTime]
  /\ IF pc[w] = "startLock"
       THEN /\ Goto(w, "startPulse")
            /\ motor' = [motor EXCEPT ![w] = motion[w].direction]
       ELSE /\ Goto(w, "stopPulse")
            /\ motor' = [motor EXCEPT ![w] = "stop"]
  /\ UNCHANGED <<position, motion, elapsed, next, queue, snapshots, telemetry,
                 history>>

\* The sequence of a start ends: the travel is timed from here.
StartPulseDone(w) ==
  /\ pc[w] = "startPulse" /\ timer[w] = 0
  /\ lock' = NoWindow
  /\ Goto(w, "travel")
  /\ timer' = [timer EXCEPT ![w] = PlanTravel(motion[w])]
  /\ UNCHANGED <<position, motion, elapsed, next, queue, motor, snapshots,
                 telemetry, history>>

\* select polls the timer first: a command that is also there stays queued.
TravelDone(w) ==
  /\ pc[w] = "travel" /\ timer[w] = 0
  /\ IF PlanStops(motion[w])
       THEN /\ Goto(w, "stopLock")
            /\ next' = [next EXCEPT ![w] = Finish]
            /\ UNCHANGED <<position, motion, snapshots, changed>>
       ELSE /\ Goto(w, "idle")
            /\ Settle(w, motion[w].target, NoMotion)
            /\ Record(w, motion[w].target, NoMotion)
            /\ UNCHANGED next
  /\ UNCHANGED <<timer, elapsed, queue, lock, motor, reported, lost, history>>

\* A command interrupts the travel: the elapsed time is taken before the lock.
TravelInterrupted(w) ==
  /\ pc[w] = "travel" /\ timer[w] # 0
  /\ queue[w] # <<>>
  /\ queue' = [queue EXCEPT ![w] = Tail(@)]
  /\ next' = [next EXCEPT ![w] = Head(queue[w])]
  /\ elapsed' = [elapsed EXCEPT ![w] = PlanTravel(motion[w]) - timer[w]]
  /\ timer' = [timer EXCEPT ![w] = 0]
  /\ Goto(w, "stopLock")
  /\ UNCHANGED <<position, motion, lock, motor, snapshots, telemetry, history>>

\* Mutants: a command that retargets a travel only stops it; one that stops it
\* leaves it to resume.
AfterStopForgets(w) ==
  LET p == IF next[w] = Finish THEN motion[w].target ELSE StoppedAt(w)
  IN  Settle(w, p, NoMotion) /\ Goto(w, "idle") /\ Record(w, p, NoMotion)
AfterStopResumes(w) ==
  LET p == IF next[w] = Finish THEN motion[w].target ELSE StoppedAt(w)
      m == Request(p, motion[w].target)
  IN  IF next[w] = Finish
        THEN Settle(w, p, NoMotion) /\ Goto(w, "idle") /\ Record(w, p, NoMotion)
        ELSE DriveTo(w, p, motion[w].target) /\ Record(w, p, m)

\* What follows the stop pulse: the travel is complete, or the window is where
\* the interruption left it and drives on if it was given a new target.
AfterStop(w) ==
  LET p == IF next[w] = Finish THEN motion[w].target ELSE StoppedAt(w)
      m == Request(p, next[w].target)
  IN  IF next[w].kind = "set"
        THEN DriveTo(w, p, next[w].target) /\ Record(w, p, m)
        ELSE Settle(w, p, NoMotion) /\ Goto(w, "idle") /\ Record(w, p, NoMotion)

StopPulseDone(w) ==
  /\ pc[w] = "stopPulse" /\ timer[w] = 0
  /\ lock' = NoWindow
  /\ AfterStop(w)
  /\ elapsed' = [elapsed EXCEPT ![w] = 0]
  /\ next' = [next EXCEPT ![w] = Finish]
  /\ UNCHANGED <<timer, queue, motor, reported, lost, history>>

-----------------------------------------------------------------------------
(* mqtt_task and time                                                      *)

\* Mutant: the queue grows instead of refusing.
EnqueuedUnbounded(q, c) == Append(q, c)

\* try_send: a full queue refuses the command.
Enqueued(q, c) == IF Len(q) < Capacity THEN Append(q, c) ELSE q

\* send_command does not wait, and drops a command its queue refuses.
Send(w, c) ==
  /\ commands < MaxCommands
  /\ commands' = commands + 1
  /\ lastSent' = [lastSent EXCEPT ![w] = c]
  /\ queue' = [queue EXCEPT ![w] = Enqueued(@, c)]
  /\ lastAccepted' = IF Len(queue[w]) < Capacity
                       THEN [lastAccepted EXCEPT ![w] = c] ELSE lastAccepted
  /\ UNCHANGED <<control, lock, motor, snapshots, telemetry, actual>>

\* dispatch: what mqtt_task does with a message.  A get is answered from the
\* snapshots and a reset raises OTA_TRIGGER, which changes nothing here.
Dispatch(action) ==
  \/ action.kind = "set"
       /\ Send(action.index, SetTarget(NewPosition(action.percentage)))
  \/ action.kind = "stop" /\ Send(action.index, Stop)
  \/ action.kind \in {"get", "reset", "ignore"} /\ UNCHANGED vars

Inbound(message) == commands < MaxCommands /\ Dispatch(ParseAction(message))

\* publish_state after STATE_CHANGED; at QoS 0 a failed publish is forgotten.
PublishState ==
  /\ changed
  /\ changed' = FALSE
  /\ \/ reported' = snapshots /\ UNCHANGED lost
     \/ lost < MaxLost /\ lost' = lost + 1 /\ UNCHANGED reported
  /\ UNCHANGED <<control, queue, lock, motor, snapshots, history>>

\* publish_state on the 60 s ticker, whatever has changed.
Heartbeat ==
  /\ reported' = snapshots
  /\ UNCHANGED <<control, queue, lock, motor, snapshots, changed, lost, history>>

Ready(w) ==
  \/ pc[w] \in {"idle", "travel"} /\ queue[w] # <<>>
  \/ pc[w] \in Waits /\ LockFree
  \/ pc[w] \in Pulses \cup {"travel"} /\ timer[w] = 0

Timed(w) == pc[w] \in Pulses \cup {"travel"}

\* Where a tick takes a window: a motor runs from the end of the sequence that
\* starts it to the start of the one that stops it, or to a limit.
Moved(w) ==
  IF pc[w] = "startPulse" \/ motor[w] = "stop" THEN actual[w]
  ELSE IF motor[w] = "opening"
    THEN IF actual[w] < TravelTime THEN actual[w] + 1 ELSE actual[w]
    ELSE IF actual[w] > 0 THEN actual[w] - 1 ELSE actual[w]

Tick ==
  /\ \E w \in Windows : Timed(w)
  /\ \A w \in Windows : ~Ready(w)
  /\ timer' = [w \in Windows |-> IF Timed(w) THEN timer[w] - 1 ELSE timer[w]]
  /\ actual' = [w \in Windows |-> Moved(w)]
  /\ UNCHANGED <<position, motion, pc, elapsed, next, queue, lock, motor,
                 snapshots, telemetry, sent>>

Controller(w) ==
  \/ Receive(w) \/ Acquire(w) \/ StartPulseDone(w)
  \/ TravelDone(w) \/ TravelInterrupted(w) \/ StopPulseDone(w)

Next ==
  \/ \E w \in Windows : Controller(w)
  \/ \E m \in Messages : Inbound(m)
  \/ PublishState \/ Heartbeat \/ Tick

Spec == Init /\ [][Next]_vars

\* The executor polls every ready controller and the ticker keeps firing.
Fairness ==
  /\ WF_vars(Tick)
  /\ \A w \in Windows : WF_vars(Controller(w)) /\ SF_vars(Acquire(w))
  /\ WF_vars(PublishState) /\ WF_vars(Heartbeat)

FairSpec == Spec /\ Fairness

-----------------------------------------------------------------------------
(* Properties                                                              *)

\* The pulse sequences of two windows never overlap, in time or on the wires.
PulsesExclusive ==
  \A v, w \in Windows : pc[v] \in Pulses /\ pc[w] \in Pulses => v = w

\* A window whose controller rests at a partial position got a stop pulse since
\* the last time it was sent off, and one that is timed runs the way it plans.
MotorFollowsPlan ==
  \A w \in Windows :
    /\ motion[w] = NoMotion /\ ~IsSeat(position[w]) => motor[w] = "stop"
    /\ pc[w] = "travel" => motor[w] = motion[w].direction

\* An interruption never leaves a window outside its travel: the position it
\* records lies between where it started and where it was going.
InterruptedOnTheWay ==
  \A w \in Windows :
    pc[w] = "stopPulse" /\ next[w] # Finish =>
      LET m == motion[w]
      IN  IF m.direction = "opening" THEN StoppedAt(w) \in m.start..m.target
                                     ELSE StoppedAt(w) \in m.target..m.start

\* However far the window has run on while its controller waited for the lock, a
\* travel to a seat ends there.
SeatTravelArrives ==
  \A w \in Windows :
    pc[w] = "travel" /\ timer[w] = 0 /\ IsSeat(motion[w].target) =>
      actual[w] = IF motion[w].target = 0 THEN 0 ELSE TravelTime

\* Once commands stop coming, every window comes to rest where the last command
\* its queue took wanted it.
LastTargetReached ==
  \A w \in Windows :
    <>[](/\ pc[w] = "idle" /\ queue[w] = <<>>
         /\ lastAccepted[w].kind = "set" => position[w] = lastAccepted[w].target)

\* A stop that a queue takes while its window is being started leaves it halted,
\* with no travel after it, unless another command follows.
StopHalts ==
  \A w \in Windows :
    pc[w] = "startPulse" /\ lastAccepted[w] = Stop
      ~> lastAccepted[w] # Stop \/ (pc[w] = "idle" /\ motor[w] = "stop")

\* The published state comes to agree with the positioners, lost publishes and
\* coalesced changes included.
TelemetryConverges ==
  <>[](\A w \in Windows : reported[w] = Snapshot(position[w], motion[w]))

=============================================================================
