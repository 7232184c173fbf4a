------------------------------ MODULE SelfTest ------------------------------
(***************************************************************************)
(* The self test of a trial boot: the tracker of skylights-core            *)
(* (ota/selftest.rs) and the task of skylights-app (ota/selftest.rs) that  *)
(* polls the two health signals, feeds the hardware watchdog and acts on   *)
(* the verdict.  The signals are the arguments of Poll; TrialBoot connects *)
(* them to the network tasks.                                              *)
(***************************************************************************)
EXTENDS Integers

CONSTANTS
  Window,        \* SELF_TEST_WINDOW_MS, in ticks, like the three that follow
  PollPeriod,    \* POLL_PERIOD_MS
  FeedInterval,  \* FEED_INTERVAL_MS
  WdtTimeout,    \* WATCHDOG_TIMEOUT_US
  MaxStall       \* the longest the executor is busy with something else

\* The last conjunct is what the three constants of the task have to keep: a
\* feed, a poll period and a stall fit into the timeout of the watchdog.
ASSUME SelfTestAssumption ==
  /\ Window \in Nat \ {0} /\ PollPeriod \in Nat \ {0}
  /\ FeedInterval \in Nat \ {0} /\ WdtTimeout \in Nat \ {0}
  /\ MaxStall \in Nat
  /\ FeedInterval + PollPeriod + MaxStall <= WdtTimeout

VARIABLES
  test,                 \* what has become of the trial
  gpioSafe,             \* the boot probe: all window outputs inactive
  wifiSeen, mqttSeen,   \* SelfTestSignals, latched
  age,                  \* ticks since the tracker was created
  pollIn,               \* ticks left of the wait for the next poll
  lastFeed,             \* last_feed_ms
  wdt                   \* the hardware watchdog: ticks since it was fed

trialVars == <<test, gpioSafe, wifiSeen, mqttSeen, age, pollIn, lastFeed, wdt>>

\* The slot is confirmed or marked invalid, the chip resets without having
\* settled it (an operation on otadata failed), or the watchdog resets it.
Outcomes == {"confirmed", "rejected", "unsettled", "watchdog"}

TrialTypeOK ==
  /\ test \in {"polling"} \cup Outcomes
  /\ gpioSafe \in BOOLEAN /\ wifiSeen \in BOOLEAN /\ mqttSeen \in BOOLEAN
  /\ age \in Nat /\ lastFeed \in 0..age
  /\ pollIn \in 0..PollPeriod
  /\ wdt \in 0..WdtTimeout /\ wdt = age - lastFeed

\* The watchdog is armed and fed, and the first poll comes at once.
TrialInit ==
  /\ test = "polling"
  /\ gpioSafe \in BOOLEAN
  /\ wifiSeen = FALSE /\ mqttSeen = FALSE
  /\ age = 0 /\ pollIn = 0 /\ lastFeed = 0 /\ wdt = 0

-----------------------------------------------------------------------------
(* The tracker                                                             *)

\* observe: a signal that was seen stays seen.
Latched(seen, now) == seen \/ now

\* Mutants: the window is looked at before the signals; one signal is enough; the
\* window is not looked at.
VerdictWindowFirst(wifi, mqtt) ==
  IF ~gpioSafe \/ age >= Window THEN "failed"
  ELSE IF wifi /\ mqtt THEN "passed" ELSE "pending"
VerdictEither(wifi, mqtt) ==
  IF ~gpioSafe THEN "failed"
  ELSE IF wifi \/ mqtt THEN "passed"
  ELSE IF age >= Window THEN "failed" ELSE "pending"
VerdictPatient(wifi, mqtt) ==
  IF ~gpioSafe THEN "failed" ELSE IF wifi /\ mqtt THEN "passed" ELSE "pending"

\* evaluate: unsafe outputs fail a trial whatever else was seen, and signals that
\* are complete at the end of the window still pass it.
Verdict(wifi, mqtt) ==
  IF ~gpioSafe THEN "failed"
  ELSE IF wifi /\ mqtt THEN "passed"
  ELSE IF age >= Window THEN "failed" ELSE "pending"

-----------------------------------------------------------------------------
(* self_test_task                                                          *)

\* Mutant: the time of the last feed is compared with the whole timeout.
FeedDueLate == age - lastFeed >= WdtTimeout

FeedDue == age - lastFeed >= FeedInterval

\* Mutant: the feed is not recorded.
FeedUnrecorded == wdt' = 0 /\ UNCHANGED lastFeed

Feed == wdt' = 0 /\ lastFeed' = age

\* mark_valid or mark_invalid, which may fail; either way the loop is left.
Settle(verdict) ==
  /\ \/ verdict = "passed" /\ test' = "confirmed"
     \/ verdict = "failed" /\ test' = "rejected"
     \/ verdict # "pending" /\ test' = "unsettled"
  /\ UNCHANGED <<pollIn, lastFeed, wdt>>

\* One turn of the loop: observe, evaluate, act on the verdict or feed and sleep.
Poll(wifi, mqtt) ==
  LET wifiNow == Latched(wifiSeen, wifi)
      mqttNow == Latched(mqttSeen, mqtt)
      verdict == Verdict(wifiNow, mqttNow)
  IN  /\ test = "polling" /\ pollIn = 0
      /\ wifiSeen' = wifiNow /\ mqttSeen' = mqttNow
      /\ \/ verdict # "pending" /\ Settle(verdict)
         \/ /\ verdict = "pending"
            /\ pollIn' = PollPeriod
            /\ IF FeedDue THEN Feed ELSE UNCHANGED <<lastFeed, wdt>>
            /\ UNCHANGED test
      /\ UNCHANGED <<gpioSafe, age>>

\* One tick, of the clock, the sleep and the watchdog.
Elapse ==
  /\ test = "polling" /\ wdt < WdtTimeout
  /\ age' = age + 1
  /\ pollIn' = (IF pollIn > 0 THEN pollIn - 1 ELSE 0)
  /\ wdt' = wdt + 1
  /\ UNCHANGED <<test, gpioSafe, wifiSeen, mqttSeen, lastFeed>>

\* Mutant: the watchdog is never enabled.
WatchdogDisabled == FALSE

\* TIMG1 resets the chip.
WatchdogFires ==
  /\ test = "polling" /\ wdt = WdtTimeout
  /\ test' = "watchdog"
  /\ UNCHANGED <<gpioSafe, wifiSeen, mqttSeen, age, pollIn, lastFeed, wdt>>

=============================================================================
