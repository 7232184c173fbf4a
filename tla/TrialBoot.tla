----------------------------- MODULE TrialBoot -----------------------------
(***************************************************************************)
(* A trial boot: the self test composed with the network tasks whose       *)
(* signals it waits for.  Wi-Fi comes up, a lease is got and an MQTT       *)
(* session opened, each with its timeouts and backoffs, while the window   *)
(* of the self test runs.  The executor is cooperative: while one task is  *)
(* busy (a TLS handshake of ota_task, a flash operation) no other is       *)
(* polled and time passes, and an image that hangs is never polled again.  *)
(* The model ends with the trial.                                          *)
(***************************************************************************)
EXTENDS WifiRecovery, SelfTest

CONSTANTS
  Latency,    \* ticks in which a service that does not miss a call answers
  MaxMisses,  \* bound: calls answered late or not at all
  MaxStalls   \* bound: stalls of the executor

\* NO_IP_REBOOT_MS is longer than any trial.
ASSUME TrialAssumption ==
  /\ Latency \in Nat /\ MaxMisses \in Nat /\ MaxStalls \in Nat
  /\ Window + PollPeriod + MaxStall < NoIpReboot

VARIABLES
  stall,        \* ticks the executor is still busy; Hang: for ever
  polled,       \* the self test has been polled since the last stall
  stalls, misses,
  everHealthy,  \* history: the session has been live
  together      \* history: ticks for which both signals have been up

busy    == <<stall, polled, stalls, misses>>
history == <<everHealthy, together>>
allVars == <<vars, trialVars, busy, history>>

Hang == MaxStall + 1

\* The longest time between two polls.
PollGap == PollPeriod + MaxStall

TrialBootTypeOK ==
  /\ TypeOK /\ TrialTypeOK
  /\ stall \in 0..Hang /\ stalls \in 0..MaxStalls /\ misses \in 0..MaxMisses
  /\ polled \in BOOLEAN
  /\ everHealthy \in BOOLEAN /\ together \in 0..(PollGap + 1)

TrialBootInit ==
  /\ Init /\ TrialInit
  /\ stall = 0 /\ polled = TRUE /\ stalls = 0 /\ misses = 0
  /\ everHealthy = FALSE /\ together = 0

-----------------------------------------------------------------------------

BothUp == link = "Connected" /\ healthy

\* What the histories see of a step that takes the given number of ticks.
Watch(ticks) ==
  /\ everHealthy' = (everHealthy \/ healthy')
  /\ together' = IF BothUp /\ BothUp' THEN Least(together + ticks, PollGap + 1) ELSE 0

Running == test = "polling" /\ wdt < WdtTimeout

\* The network tasks, and the services they talk to.  A start that fails at once
\* is a miss as well.
Network ==
  /\ Running
  /\ \/ stall = 0 /\ (Supervisor \/ Mqtt)
     \/ Environment
  /\ misses' = misses + (IF sup = "start" /\ sup' = "backoff" THEN 1 ELSE 0)
  /\ misses' <= MaxMisses
  /\ UNCHANGED <<trialVars, stall, polled, stalls>>
  /\ Watch(0)

SelfTestPoll ==
  /\ Running /\ stall = 0
  /\ Poll(link = "Connected", healthy)
  /\ polled' = TRUE
  /\ UNCHANGED <<vars, stall, stalls, misses>>
  /\ Watch(0)

\* The time a wait for an answer may take.
Allowed(pc) ==
  CASE pc \in {"start", "join"} -> JoinTimeout
    [] pc = "leave" -> LeaveTimeout
    [] pc = "dhcp" -> DhcpTimeout
    [] pc \in {"tcp", "handshake"} -> ConnectTimeout

\* The waits that get later than Latency in the next tick.
Late ==
  (IF sup \in SupTimed \ {"backoff"} /\ Allowed(sup) - supTimer = Latency THEN 1 ELSE 0)
  + (IF mq \in MqTimed \ {"backoff"} /\ Allowed(mq) - mqTimer = Latency THEN 1 ELSE 0)
  + (IF mq = "subscribe" THEN 1 ELSE 0)

\* A network task has something to do.
Ready ==
  \/ sup = "dhcp" /\ (lease \/ rejoin)
  \/ sup = "up" /\ (dropped \/ rejoin)
  \/ mq = "link" /\ link = "Connected"
  \/ mq = "serve" /\ ~Reachable

\* A tick passes once every task that is due has been polled.
TrialTick ==
  /\ stall = 0 /\ pollIn > 0 /\ ~Ready
  /\ Tick /\ Elapse
  /\ misses' = misses + Late /\ misses' <= MaxMisses
  /\ UNCHANGED <<stall, polled, stalls>>
  /\ Watch(1)

\* A task keeps the executor busy, for a while or for good.  In one round of the
\* executor every task that is due is polled once, in any order.
BeginStall ==
  /\ Running /\ stall = 0 /\ polled
  /\ stalls < MaxStalls /\ stalls' = stalls + 1
  /\ stall' \in 1..Hang /\ polled' = FALSE
  /\ UNCHANGED <<vars, trialVars, misses>>
  /\ Watch(0)

\* Time passes while it is busy: waits expire and nobody is polled.
StallTick ==
  /\ stall > 0
  /\ Elapse
  /\ stall' = IF stall = Hang THEN Hang ELSE stall - 1
  /\ supTimer' = IF sup \in SupTimed /\ supTimer > 0 THEN supTimer - 1 ELSE supTimer
  /\ mqTimer' = IF mq \in MqTimed /\ mqTimer > 0 THEN mqTimer - 1 ELSE mqTimer
  /\ ipAge' = Least(ipAge + 1, NoIpReboot)
  /\ UNCHANGED <<sup, supBackoff, started, attempts, link, rejoin, mq, mqBackoff,
                 failures, healthy, radio, env, polled, stalls, misses>>
  /\ Watch(1)

WatchdogReset ==
  /\ WatchdogFires
  /\ UNCHANGED <<vars, busy>>
  /\ Watch(0)

TrialNext ==
  \/ Network \/ SelfTestPoll \/ TrialTick \/ BeginStall \/ StallTick \/ WatchdogReset

TrialSpec == TrialBootInit /\ [][TrialNext]_allVars

\* Time passes, the watchdog works, and the executor polls the tasks.
TrialFairness == WF_allVars(TrialNext)

TrialFairSpec == TrialSpec /\ TrialFairness

-----------------------------------------------------------------------------
(* Properties                                                              *)

\* While the executor runs at all the watchdog never fires: an 8 s timeout, fed
\* at most once a second, survives every stall it is meant to survive.
WatchdogQuiet == stall # Hang => wdt < WdtTimeout

\* The window is enforced: no trial is undecided for longer than the window and
\* the time to the next poll.
VerdictInTime == test = "polling" /\ stall # Hang => age < Window + PollGap

\* Only an image with inactive outputs that has had a live session is confirmed.
ConfirmedIsHealthy == test = "confirmed" => gpioSafe /\ everHealthy

\* Signals that are up are noticed: a trial is not rejected while both are up, the
\* end of the window included, and is decided once they have stayed up for longer
\* than two polls are apart.
HealthNoticed ==
  gpioSafe =>
    /\ BothUp => test # "rejected"
    /\ together > PollGap /\ stall # Hang => test # "polling"

\* The window leaves room for one service to miss one call, whichever it is: a
\* good image is not rejected for it.
OneMissTolerated ==
  gpioSafe /\ misses <= 1 /\ stalls = 0 /\ outages = 0 => test # "rejected"

\* Every trial ends, that of an image that hangs included.
TrialEnds == <>(test # "polling")

=============================================================================
