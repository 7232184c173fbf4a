------------------------ MODULE WifiRecoveryProofs ------------------------
(***************************************************************************)
(* Theorems about WifiRecovery, for every value of its constants.          *)
(***************************************************************************)
EXTENDS WifiRecovery, TLAPS

\* The constants as the prover uses them.
LEMMA Timings ==
  /\ JoinTimeout \in Nat \ {0} /\ LeaveTimeout \in Nat \ {0}
  /\ DhcpTimeout \in Nat \ {0} /\ ConnectTimeout \in Nat \ {0}
  /\ BackoffInitial \in Nat \ {0} /\ BackoffMax \in Nat
  /\ BackoffInitial <= BackoffMax
  /\ NoIpReboot \in Nat \ {0}
  /\ DhcpAttempts \in Nat \ {0} /\ RejoinFailures \in Nat \ {0}
  /\ MaxOutages \in Nat
  BY TimingAssumption

\* Every wait that is begun fits a countdown.
LEMMA TimersFit ==
  /\ MaxTimer \in Nat
  /\ JoinTimeout \in 0..MaxTimer /\ LeaveTimeout \in 0..MaxTimer
  /\ DhcpTimeout \in 0..MaxTimer /\ ConnectTimeout \in 0..MaxTimer
  /\ \A b \in BackoffInitial..BackoffMax : b \in 0..MaxTimer
  BY Timings DEF MaxTimer

\* The backoff never passes its cap.
LEMMA BackoffStays ==
  ASSUME NEW current \in BackoffInitial..BackoffMax
  PROVE  NextBackoff(current) \in BackoffInitial..BackoffMax
  BY Timings DEF NextBackoff, Least

LEMMA BackoffStarts == BackoffInitial \in BackoffInitial..BackoffMax
  BY Timings

LEMMA TypeInit == Init => TypeOK
<1> SUFFICES ASSUME Init PROVE TypeOK
  OBVIOUS
<1>1. /\ sup \in SupPcs /\ mq \in MqPcs /\ station \in Stations
      /\ link \in {"Disconnected", "Connecting", "Connected"}
      /\ started \in BOOLEAN /\ rejoin \in BOOLEAN /\ healthy \in BOOLEAN
      /\ dropped \in BOOLEAN /\ lease \in BOOLEAN /\ up \subseteq Services
  BY DEF Init, SupPcs, MqPcs, Stations
<1>2. /\ supTimer \in 0..MaxTimer /\ mqTimer \in 0..MaxTimer
      /\ supBackoff \in BackoffInitial..BackoffMax
      /\ mqBackoff \in BackoffInitial..BackoffMax
      /\ attempts \in 0..DhcpAttempts /\ failures \in 0..(RejoinFailures - 1)
      /\ ipAge \in 0..NoIpReboot /\ outages \in 0..MaxOutages
  BY Timings, TimersFit, BackoffStarts DEF Init
<1> QED
  BY <1>1, <1>2 DEF TypeOK

\* What the three steps that several actions share leave.
LEMMA EndRoundTyped ==
  ASSUME TypeOK, EndRound
  PROVE  /\ sup' \in SupPcs /\ supTimer' \in 0..MaxTimer
         /\ supBackoff' \in BackoffInitial..BackoffMax
         /\ link' \in {"Disconnected", "Connecting", "Connected"}
  BY TimersFit, BackoffStays DEF TypeOK, EndRound, SupPcs

LEMMA LeaveOrJoinTyped ==
  ASSUME LeaveOrJoin
  PROVE  sup' \in SupPcs /\ supTimer' \in 0..MaxTimer
  BY TimersFit DEF LeaveOrJoin, SupPcs

LEMMA NoteFailureTyped ==
  ASSUME TypeOK, NoteFailure
  PROVE  failures' \in 0..(RejoinFailures - 1) /\ rejoin' \in BOOLEAN
<1>1. failures \in 0..(RejoinFailures - 1) /\ rejoin \in BOOLEAN
  BY DEF TypeOK
<1>2. CASE failures + 1 >= RejoinFailures
  <2>1. failures' = 0 /\ rejoin' = TRUE
    BY <1>2 DEF NoteFailure
  <2> QED
    BY <2>1, Timings
<1>3. CASE ~(failures + 1 >= RejoinFailures)
  <2>1. failures' = failures + 1 /\ rejoin' = rejoin
    BY <1>3 DEF NoteFailure
  <2> QED
    BY <1>1, <1>3, <2>1, Timings
<1> QED
  BY <1>2, <1>3

LEMMA MqRestTyped ==
  ASSUME NEW b \in BackoffInitial..BackoffMax, MqRest(b)
  PROVE  /\ mq' \in MqPcs /\ mqTimer' \in 0..MaxTimer
         /\ mqBackoff' \in BackoffInitial..BackoffMax
  BY TimersFit, BackoffStays DEF MqRest, MqPcs

LEMMA RadioDownTyped ==
  ASSUME NEW state \in {"off", "wedged"}, RadioDown(state)
  PROVE  station' \in Stations /\ dropped' \in BOOLEAN /\ lease' \in BOOLEAN
<1>1. station' = state /\ lease' = FALSE /\ dropped' = Associated
  BY DEF RadioDown
<1>2. dropped' \in BOOLEAN
  <2>1. Associated \in BOOLEAN
    BY DEF Associated
  <2> QED
    BY <1>1, <2>1, Zenon
<1> QED
  BY <1>1, <1>2 DEF Stations

\* connection_task.
LEMMA SupervisorTyped == TypeOK /\ Supervisor => TypeOK'
<1> SUFFICES ASSUME TypeOK, Supervisor PROVE TypeOK'
  OBVIOUS
<1> USE DEF mqVars, radio, env
<1>1. CASE BackoffOver
  BY <1>1, LeaveOrJoinTyped, TimersFit DEF TypeOK, BackoffOver, SupPcs
<1>2. CASE StartOk
  BY <1>2, LeaveOrJoinTyped DEF TypeOK, StartOk
<1>3. CASE StartFails
  BY <1>3, EndRoundTyped DEF TypeOK, StartFails
<1>4. CASE LeaveOk
  BY <1>4, TimersFit DEF TypeOK, LeaveOk, SupPcs, Stations
<1>5. CASE LeaveTimedOut
  BY <1>5, TimersFit DEF TypeOK, LeaveTimedOut, SupPcs
<1>6. CASE JoinOk
  <2>1. attempts' \in 0..DhcpAttempts
    BY <1>6, Timings DEF JoinOk
  <2> QED
    BY <1>6, <2>1, TimersFit DEF TypeOK, JoinOk, SupPcs, Stations
<1>7. CASE JoinFails
  BY <1>7, EndRoundTyped DEF TypeOK, JoinFails
<1>8. CASE DhcpOk
  BY <1>8, BackoffStarts, Timings DEF TypeOK, DhcpOk, SupPcs
<1>9. CASE DhcpTimedOut
  <2>1. CASE attempts >= DhcpAttempts
    BY <1>9, <2>1, EndRoundTyped DEF TypeOK, DhcpTimedOut
  <2>2. CASE ~(attempts >= DhcpAttempts)
    BY <1>9, <2>2, TimersFit, Timings DEF TypeOK, DhcpTimedOut
  <2> QED
    BY <2>1, <2>2
<1>10. CASE DhcpRejoin
  BY <1>10, EndRoundTyped DEF TypeOK, DhcpRejoin
<1>11. CASE ProbeDone
  BY <1>11 DEF TypeOK, ProbeDone, SupPcs
<1>12. CASE LinkDropped
  BY <1>12, EndRoundTyped DEF TypeOK, LinkDropped
<1>13. CASE UpRejoin
  BY <1>13, EndRoundTyped DEF TypeOK, UpRejoin
<1>14. CASE Reboot
  <2>1. /\ supTimer' \in 0..MaxTimer /\ mqTimer' \in 0..MaxTimer
        /\ attempts' \in 0..DhcpAttempts /\ failures' \in 0..(RejoinFailures - 1)
        /\ ipAge' \in 0..NoIpReboot
    BY <1>14, TimersFit, Timings DEF Reboot
  <2> QED
    BY <1>14, <2>1, BackoffStarts DEF TypeOK, Reboot, SupPcs, MqPcs, Stations
<1> QED
  BY <1>1, <1>2, <1>3, <1>4, <1>5, <1>6, <1>7, <1>8, <1>9, <1>10, <1>11, <1>12,
     <1>13, <1>14 DEF Supervisor

\* mqtt_task.
LEMMA MqttTyped == TypeOK /\ Mqtt => TypeOK'
<1> SUFFICES ASSUME TypeOK, Mqtt PROVE TypeOK'
  OBVIOUS
<1> USE DEF supVars, radio, env
<1>1. CASE MqBackoffOver
  BY <1>1 DEF TypeOK, MqBackoffOver, MqPcs
<1>2. CASE MqStart
  BY <1>2, TimersFit DEF TypeOK, MqStart, MqPcs
<1>3. CASE MqStepOk
  BY <1>3, TimersFit DEF TypeOK, MqStepOk, MqPcs
<1>4. CASE MqSubscribed
  BY <1>4, Timings DEF TypeOK, MqSubscribed, MqPcs
<1>5. CASE MqAttemptFails
  BY <1>5, NoteFailureTyped, MqRestTyped DEF TypeOK, MqAttemptFails
<1>6. CASE MqLost
  BY <1>6, MqRestTyped, BackoffStarts DEF TypeOK, MqLost
<1> QED
  BY <1>1, <1>2, <1>3, <1>4, <1>5, <1>6 DEF Mqtt

\* The radio, the services and time.
LEMMA EnvironmentTyped == TypeOK /\ Environment => TypeOK'
<1> SUFFICES ASSUME TypeOK, Environment PROVE TypeOK'
  OBVIOUS
<1> USE Timings DEF supVars, mqVars, radio, env
<1>1. ASSUME NEW s \in Services, ServiceDown(s) PROVE TypeOK'
  BY <1>1, RadioDownTyped DEF TypeOK, ServiceDown, Outage
<1>2. ASSUME NEW s \in Services, ServiceUp(s) PROVE TypeOK'
  BY <1>2 DEF TypeOK, ServiceUp
<1>3. ASSUME NEW state \in {"off", "wedged"}, RadioFails(state) PROVE TypeOK'
  BY <1>3, RadioDownTyped DEF TypeOK, RadioFails, Outage
<1>4. CASE TrafficStops
  BY <1>4 DEF TypeOK, TrafficStops, Outage, Stations
<1>5. CASE Leased
  BY <1>5 DEF TypeOK, Leased
<1>6. CASE LeaseExpires
  BY <1>6 DEF TypeOK, LeaseExpires
<1> QED
  BY <1>1, <1>2, <1>3, <1>4, <1>5, <1>6 DEF Environment

LEMMA TickTyped == TypeOK /\ Tick => TypeOK'
  BY Timings, TimersFit DEF TypeOK, Tick, Least, radio, env

LEMMA TypeNext == TypeOK /\ [Next]_vars => TypeOK'
<1> SUFFICES ASSUME TypeOK, [Next]_vars PROVE TypeOK'
  OBVIOUS
<1>1. CASE UNCHANGED vars
  BY <1>1 DEF TypeOK, vars, supVars, mqVars, radio, env
<1> QED
  BY <1>1, SupervisorTyped, MqttTyped, EnvironmentTyped, TickTyped DEF Next

\* The type invariant of the two network tasks: the backoffs stay at or below
\* their cap, the counts of DHCP windows and failed attempts below their limits,
\* and every countdown is one of the timeouts, for all of their values.
THEOREM RecoveryTyping == Spec => []TypeOK
  BY TypeInit, TypeNext, PTL DEF Spec

=============================================================================
