---------------------------- MODULE WifiRecovery ----------------------------
(***************************************************************************)
(* Network recovery: the Wi-Fi supervisor (connection_task), the MQTT      *)
(* client loop (mqtt_task) and the three things they share: the latest     *)
(* link state (WIFI_CONNECTED), the latching request to re-associate       *)
(* (WIFI_REJOIN) and the health flag of the session (MQTT_HEALTHY).  The   *)
(* access point, its DHCP server and the broker come and go.               *)
(*                                                                         *)
(* Time passes in ticks.  A wait with a timeout holds a countdown; a tick  *)
(* may not pass while an expired countdown is waiting to be served.  The   *)
(* age the no-IP watchdog measures stops growing at NoIpReboot.            *)
(***************************************************************************)
EXTENDS Integers, FiniteSets

CONSTANTS
  JoinTimeout, LeaveTimeout, DhcpTimeout, ConnectTimeout,  \* in ticks
  BackoffInitial, BackoffMax,                              \* in ticks
  NoIpReboot,       \* NO_IP_REBOOT_MS, in ticks
  DhcpAttempts,     \* DHCP_ATTEMPTS
  RejoinFailures,   \* MQTT_REJOIN_FAILURES
  MaxOutages        \* bound: changes of the environment

ASSUME TimingAssumption ==
  /\ {JoinTimeout, LeaveTimeout, DhcpTimeout, ConnectTimeout} \subseteq Nat \ {0}
  /\ BackoffInitial \in Nat \ {0} /\ BackoffMax \in Nat
  /\ BackoffInitial <= BackoffMax
  /\ NoIpReboot \in Nat \ {0}
  /\ DhcpAttempts \in Nat \ {0} /\ RejoinFailures \in Nat \ {0}
  /\ MaxOutages \in Nat

Services == {"ap", "dhcp", "broker"}

\* The radio is not associated, is associated and carries traffic, is associated
\* without traffic until it joins again, or cannot join until the chip resets.
Stations == {"off", "live", "dead", "wedged"}

VARIABLES
  sup,         \* where connection_task is suspended
  supTimer,    \* ticks left of its wait
  supBackoff,  \* its ReconnectBackoff
  started,     \* the station has been started
  attempts,    \* DHCP windows used on this association
  link,        \* WIFI_CONNECTED
  rejoin,      \* WIFI_REJOIN
  ipAge,       \* ticks since NoIpWatchdog::last_ip_ms, or since boot
  mq,          \* where mqtt_task is suspended
  mqTimer, mqBackoff,
  failures,    \* RejoinCounter
  healthy,     \* MQTT_HEALTHY
  up,          \* the services that answer
  station,     \* the radio: see Stations
  dropped,     \* a StaDisconnected event is pending
  lease,       \* the stack holds an IPv4 configuration
  outages

supVars == <<sup, supTimer, supBackoff, started, attempts>>
mqVars  == <<mq, mqTimer, mqBackoff, failures>>
radio   == <<station, dropped, lease>>
env     == <<up, outages>>
vars    == <<supVars, link, rejoin, mqVars, healthy, radio, ipAge, env>>

SupPcs == {"start", "leave", "join", "dhcp", "probe", "up", "backoff", "reset"}
MqPcs  == {"link", "tcp", "handshake", "subscribe", "serve", "backoff"}

\* The waits that with_timeout or Timer::after ends.
SupTimed == {"start", "leave", "join", "dhcp", "backoff"}
MqTimed  == {"tcp", "handshake", "backoff"}

Least(a, b) == IF a <= b THEN a ELSE b

\* The longest wait a countdown can hold.
MaxTimer == JoinTimeout + LeaveTimeout + DhcpTimeout + ConnectTimeout + BackoffMax

TypeOK ==
  /\ sup \in SupPcs /\ supTimer \in 0..MaxTimer
  /\ supBackoff \in BackoffInitial..BackoffMax
  /\ started \in BOOLEAN /\ attempts \in 0..DhcpAttempts
  /\ link \in {"Disconnected", "Connecting", "Connected"}
  /\ rejoin \in BOOLEAN
  /\ mq \in MqPcs /\ mqTimer \in 0..MaxTimer
  /\ mqBackoff \in BackoffInitial..BackoffMax
  /\ failures \in 0..(RejoinFailures - 1)
  /\ healthy \in BOOLEAN
  /\ station \in Stations /\ dropped \in BOOLEAN /\ lease \in BOOLEAN
  /\ ipAge \in 0..NoIpReboot
  /\ up \subseteq Services /\ outages \in 0..MaxOutages

\* What a boot sets up: the supervisor is starting the station.
Init ==
  /\ sup = "start" /\ supTimer = JoinTimeout /\ supBackoff = BackoffInitial
  /\ started = FALSE /\ attempts = 0
  /\ link = "Connecting" /\ rejoin = FALSE
  /\ mq = "link" /\ mqTimer = 0 /\ mqBackoff = BackoffInitial
  /\ failures = 0 /\ healthy = FALSE
  /\ station = "off" /\ dropped = FALSE /\ lease = FALSE
  /\ ipAge = 0
  /\ up = Services /\ outages = 0

Associated == station \in {"live", "dead"}

-----------------------------------------------------------------------------
(* The recovery policy (skylights-core)                                    *)

\* Mutant of NextBackoff: the doubling is not capped.
NextBackoffUncapped(current) == current * 2

\* ReconnectBackoff::next_delay_ms returns the current delay and doubles it.
NextBackoff(current) == Least(current * 2, BackoffMax)

RebootDue == ipAge >= NoIpReboot

-----------------------------------------------------------------------------
(* connection_task                                                         *)

\* Mutants of EndRound: the watchdog is never consulted; the wait is the cap of
\* the backoff from the first round on.
EndRoundNeverResets ==
  /\ sup' = "backoff"
  /\ link' = "Disconnected"
  /\ supTimer' = supBackoff
  /\ supBackoff' = NextBackoff(supBackoff)
EndRoundLongest ==
  /\ sup' = "backoff"
  /\ link' = "Disconnected"
  /\ supTimer' = BackoffMax
  /\ supBackoff' = NextBackoff(supBackoff)

\* The end of one round of the supervisor loop: the reboot escalation is
\* checked, then the link is reported down and the backoff wait begins.
EndRound ==
  IF RebootDue
    THEN /\ sup' = "reset"
         /\ UNCHANGED <<supTimer, supBackoff, link>>
    ELSE /\ sup' = "backoff"
         /\ link' = "Disconnected"
         /\ supTimer' = supBackoff
         /\ supBackoff' = NextBackoff(supBackoff)

\* attempt_join past the start: leave an association that still exists.
LeaveOrJoin ==
  IF Associated THEN sup' = "leave" /\ supTimer' = LeaveTimeout
                ELSE sup' = "join" /\ supTimer' = JoinTimeout

\* The next round: the station is started if it is not.
BackoffOver ==
  /\ sup = "backoff" /\ supTimer = 0
  /\ link' = "Connecting"
  /\ IF started THEN LeaveOrJoin ELSE sup' = "start" /\ supTimer' = JoinTimeout
  /\ UNCHANGED <<supBackoff, started, attempts, rejoin, mqVars, healthy, radio,
                 ipAge, env>>

StartOk ==
  /\ sup = "start"
  /\ started' = TRUE
  /\ LeaveOrJoin
  /\ UNCHANGED <<supBackoff, attempts, link, rejoin, mqVars, healthy, radio,
                 ipAge, env>>

\* start_async fails or does not answer in time.
StartFails ==
  /\ sup = "start"
  /\ EndRound
  /\ UNCHANGED <<started, attempts, rejoin, mqVars, healthy, radio, ipAge, env>>

\* disconnect_async completes; it consumes the disconnect event it causes.
LeaveOk ==
  /\ sup = "leave"
  /\ sup' = "join" /\ supTimer' = JoinTimeout
  /\ station' = (IF Associated THEN "off" ELSE station)
  /\ lease' = FALSE /\ dropped' = FALSE
  /\ UNCHANGED <<supBackoff, started, attempts, link, rejoin, mqVars, healthy,
                 ipAge, env>>

\* It does not: the supervisor continues regardless.
LeaveTimedOut ==
  /\ sup = "leave" /\ supTimer = 0
  /\ sup' = "join" /\ supTimer' = JoinTimeout
  /\ UNCHANGED <<supBackoff, started, attempts, link, rejoin, mqVars, healthy,
                 radio, ipAge, env>>

JoinOk ==
  /\ sup = "join"
  /\ "ap" \in up /\ station # "wedged"
  /\ sup' = "dhcp" /\ supTimer' = DhcpTimeout
  /\ attempts' = 1
  /\ station' = "live" /\ dropped' = FALSE
  /\ UNCHANGED <<supBackoff, started, link, rejoin, mqVars, healthy, lease,
                 ipAge, env>>

\* connect_async fails, or its timeout expires.
JoinFails ==
  /\ sup = "join"
  /\ "ap" \notin up \/ station = "wedged" \/ supTimer = 0
  /\ EndRound
  /\ UNCHANGED <<started, attempts, rejoin, mqVars, healthy, radio, ipAge, env>>

\* An IPv4 configuration is up: the backoff restarts, the link is reported and
\* the no-IP watchdog takes note.
DhcpOk ==
  /\ sup = "dhcp"
  /\ lease
  /\ sup' = "probe"
  /\ supBackoff' = BackoffInitial
  /\ link' = "Connected"
  /\ ipAge' = 0
  /\ UNCHANGED <<supTimer, started, attempts, rejoin, mqVars, healthy, radio,
                 env>>

DhcpTimedOut ==
  /\ sup = "dhcp" /\ ~lease /\ supTimer = 0
  /\ IF attempts >= DhcpAttempts
       THEN EndRound /\ UNCHANGED attempts
       ELSE /\ attempts' = attempts + 1
            /\ supTimer' = DhcpTimeout
            /\ UNCHANGED <<sup, supBackoff, link>>
  /\ UNCHANGED <<started, rejoin, mqVars, healthy, radio, ipAge, env>>

\* select polls the lease and its timeout first, then the request.
DhcpRejoin ==
  /\ sup = "dhcp" /\ ~lease /\ supTimer # 0
  /\ rejoin
  /\ rejoin' = FALSE
  /\ EndRound
  /\ UNCHANGED <<started, attempts, mqVars, healthy, radio, ipAge, env>>

\* The DNS probe answers or gives up.
ProbeDone ==
  /\ sup = "probe"
  /\ sup' = "up"
  /\ UNCHANGED <<supTimer, supBackoff, started, attempts, link, rejoin, mqVars,
                 healthy, radio, ipAge, env>>

LinkDropped ==
  /\ sup = "up"
  /\ dropped
  /\ dropped' = FALSE
  /\ EndRound
  /\ UNCHANGED <<started, attempts, rejoin, mqVars, healthy, station, lease,
                 ipAge, env>>

UpRejoin ==
  /\ sup = "up" /\ ~dropped
  /\ rejoin
  /\ rejoin' = FALSE
  /\ EndRound
  /\ UNCHANGED <<started, attempts, mqVars, healthy, radio, ipAge, env>>

\* software_reset: RAM and radio state are gone.
Reboot ==
  /\ sup = "reset"
  /\ sup' = "start" /\ supTimer' = JoinTimeout /\ supBackoff' = BackoffInitial
  /\ started' = FALSE /\ attempts' = 0
  /\ link' = "Connecting" /\ rejoin' = FALSE
  /\ mq' = "link" /\ mqTimer' = 0 /\ mqBackoff' = BackoffInitial
  /\ failures' = 0 /\ healthy' = FALSE
  /\ station' = "off" /\ dropped' = FALSE /\ lease' = FALSE
  /\ ipAge' = 0
  /\ UNCHANGED env

-----------------------------------------------------------------------------
(* mqtt_task                                                               *)

\* The wait between two connection attempts.
MqRest(backoff) ==
  /\ mq' = "backoff"
  /\ mqTimer' = backoff
  /\ mqBackoff' = NextBackoff(backoff)

\* Mutant of NoteFailure: the trip is counted and the request is not raised.
NoteFailureUnraised ==
  /\ failures' = (IF failures + 1 >= RejoinFailures THEN 0 ELSE failures + 1)
  /\ UNCHANGED rejoin

\* note_failure: the RejoinFailures-th failure in a row requests a rejoin.
NoteFailure ==
  IF failures + 1 >= RejoinFailures
    THEN failures' = 0 /\ rejoin' = TRUE
    ELSE failures' = failures + 1 /\ UNCHANGED rejoin

MqBackoffOver ==
  /\ sup # "reset"
  /\ mq = "backoff" /\ mqTimer = 0
  /\ mq' = "link"
  /\ UNCHANGED <<mqTimer, mqBackoff, failures, supVars, link, rejoin, healthy,
                 radio, ipAge, env>>

\* wait_for_link returns: a new attempt starts, unhealthy.
MqStart ==
  /\ sup # "reset"
  /\ mq = "link"
  /\ link = "Connected"
  /\ mq' = "tcp" /\ mqTimer' = ConnectTimeout
  /\ healthy' = FALSE
  /\ UNCHANGED <<mqBackoff, failures, supVars, link, rejoin, radio, ipAge, env>>

Reachable == lease /\ station = "live" /\ "broker" \in up

\* The TCP connect and then the MQTT handshake succeed, each with a timeout.
MqStepOk ==
  /\ sup # "reset"
  /\ mq \in {"tcp", "handshake"}
  /\ Reachable
  /\ IF mq = "tcp" THEN mq' = "handshake" /\ mqTimer' = ConnectTimeout
                   ELSE mq' = "subscribe" /\ UNCHANGED mqTimer
  /\ UNCHANGED <<mqBackoff, failures, supVars, link, rejoin, healthy, radio,
                 ipAge, env>>

\* SUBACK: the session is live and the run of failures is over.
MqSubscribed ==
  /\ sup # "reset"
  /\ mq = "subscribe"
  /\ Reachable
  /\ mq' = "serve"
  /\ healthy' = TRUE
  /\ failures' = 0
  /\ UNCHANGED <<mqTimer, mqBackoff, supVars, link, rejoin, radio, ipAge, env>>

\* Any step before that fails or times out.
MqAttemptFails ==
  /\ sup # "reset"
  /\ mq \in {"tcp", "handshake", "subscribe"}
  /\ ~Reachable \/ (mq \in MqTimed /\ mqTimer = 0)
  /\ NoteFailure
  /\ MqRest(mqBackoff)
  /\ UNCHANGED <<supVars, link, healthy, radio, ipAge, env>>

\* An established connection fails; serve_connection answers true and the
\* backoff starts again.
MqLost ==
  /\ sup # "reset"
  /\ mq = "serve"
  /\ ~Reachable
  /\ healthy' = FALSE
  /\ MqRest(BackoffInitial)
  /\ UNCHANGED <<failures, supVars, link, rejoin, radio, ipAge, env>>

-----------------------------------------------------------------------------
(* The environment                                                         *)

Outage == outages < MaxOutages /\ outages' = outages + 1

\* The radio loses its association.
RadioDown(state) ==
  /\ station' = state
  /\ lease' = FALSE
  /\ dropped' = Associated

ServiceDown(s) ==
  /\ s \in up
  /\ Outage
  /\ up' = up \ {s}
  /\ IF s = "ap" /\ Associated THEN RadioDown("off") ELSE UNCHANGED radio
  /\ UNCHANGED <<supVars, link, rejoin, mqVars, healthy, ipAge>>

ServiceUp(s) ==
  /\ s \notin up
  /\ up' = up \cup {s}
  /\ UNCHANGED <<supVars, link, rejoin, mqVars, healthy, radio, ipAge, outages>>

\* The access point drops the station once, or the radio jams.
RadioFails(state) ==
  /\ state = "off" => Associated
  /\ Outage
  /\ RadioDown(state)
  /\ UNCHANGED <<supVars, link, rejoin, mqVars, healthy, ipAge, up>>

\* The association stays up and its traffic stops.
TrafficStops ==
  /\ station = "live"
  /\ Outage
  /\ station' = "dead"
  /\ UNCHANGED <<supVars, link, rejoin, mqVars, healthy, dropped, lease, ipAge, up>>

\* embassy-net's DHCP client on an association: it gets a lease, or the lease
\* expires while the server does not answer.
Leased ==
  /\ station = "live" /\ ~lease /\ "dhcp" \in up
  /\ lease' = TRUE
  /\ UNCHANGED <<supVars, link, rejoin, mqVars, healthy, station, dropped,
                 ipAge, env>>

LeaseExpires ==
  /\ lease
  /\ "dhcp" \notin up \/ station = "dead"
  /\ lease' = FALSE
  /\ UNCHANGED <<supVars, link, rejoin, mqVars, healthy, station, dropped,
                 ipAge, env>>

\* One tick, once every expired wait has been served.
Tick ==
  /\ sup # "reset"
  /\ sup \in SupTimed => supTimer > 0
  /\ mq \in MqTimed => mqTimer > 0
  /\ supTimer' = IF sup \in SupTimed THEN supTimer - 1 ELSE supTimer
  /\ mqTimer' = IF mq \in MqTimed THEN mqTimer - 1 ELSE mqTimer
  /\ ipAge' = Least(ipAge + 1, NoIpReboot)
  /\ UNCHANGED <<sup, supBackoff, started, attempts, link, rejoin, mq,
                 mqBackoff, failures, healthy, radio, env>>

-----------------------------------------------------------------------------

Supervisor ==
  \/ BackoffOver \/ StartOk \/ StartFails \/ LeaveOk \/ LeaveTimedOut
  \/ JoinOk \/ JoinFails \/ DhcpOk \/ DhcpTimedOut \/ DhcpRejoin
  \/ ProbeDone \/ LinkDropped \/ UpRejoin \/ Reboot

Mqtt == MqBackoffOver \/ MqStart \/ MqStepOk \/ MqSubscribed
        \/ MqAttemptFails \/ MqLost

Environment ==
  \/ \E s \in Services : ServiceDown(s) \/ ServiceUp(s)
  \/ \E state \in {"off", "wedged"} : RadioFails(state)
  \/ TrafficStops \/ Leased \/ LeaseExpires

Next == Supervisor \/ Mqtt \/ Environment \/ Tick

Spec == Init /\ [][Next]_vars

\* The executor polls each of the two tasks once its wait is over, and time
\* passes.  A radio, an access point, a DHCP server and a broker that keep
\* answering answer in time once in a while.
Fairness ==
  /\ WF_vars(Tick) /\ WF_vars(Supervisor) /\ WF_vars(Mqtt)
  /\ SF_vars(StartOk) /\ SF_vars(JoinOk)
  /\ SF_vars(Leased /\ sup = "dhcp") /\ SF_vars(DhcpOk)
  /\ SF_vars(MqStepOk /\ mq = "tcp") /\ SF_vars(MqStepOk /\ mq = "handshake")
  /\ SF_vars(MqSubscribed)

FairSpec == Spec /\ Fairness

-----------------------------------------------------------------------------
(* Properties                                                              *)

\* However the lease went, the device gets one back or resets: it never idles
\* without an address, even where only the failing MQTT attempts notice.
Escalation == ~lease ~> (lease \/ sup = "reset")

\* A request to re-associate never stays latched: a wait of the supervisor takes
\* it, or the reset that ends a long outage clears it.
RejoinServed == rejoin ~> ~rejoin

\* Once the network is well again, sessions are established again, whatever
\* state the outages left the radio and the two loops in.
Recovery == <>[](up = Services) => []<>healthy

=============================================================================
