-------------------------- MODULE TrialBootProofs --------------------------
(***************************************************************************)
(* Theorems about TrialBoot, for every window, poll period, feed interval  *)
(* and watchdog timeout that SelfTestAssumption allows, and any number of  *)
(* missed calls and stalls.                                                *)
(***************************************************************************)
EXTENDS TrialBoot, WifiRecoveryProofs

LEMMA Intervals ==
  /\ Window \in Nat \ {0} /\ PollPeriod \in Nat \ {0}
  /\ FeedInterval \in Nat \ {0} /\ WdtTimeout \in Nat \ {0} /\ MaxStall \in Nat
  /\ FeedInterval + PollPeriod + MaxStall <= WdtTimeout
  /\ Hang \in Nat /\ Hang = MaxStall + 1
  /\ PollGap \in Nat /\ PollGap = PollPeriod + MaxStall
  BY SelfTestAssumption DEF Hang, PollGap

\* How much longer than a poll period the next poll may be away: once every task
\* has been polled a stall may begin.
Slack == IF polled THEN 0 ELSE MaxStall

\* Until the next poll no clock runs further than its limit: the watchdog and the
\* window,
ClocksInTime ==
  test = "polling" /\ stall # Hang =>
    /\ wdt + pollIn + stall <= FeedInterval - 1 + PollPeriod + Slack
    /\ age + pollIn + stall <= Window - 1 + PollPeriod + Slack

\* and the time for which both signals have been up.
SignalsInTime ==
  test = "polling" /\ stall # Hang /\ gpioSafe =>
    together + pollIn + stall <= PollPeriod + Slack

\* What has been seen was there.
SeenWasThere ==
  /\ healthy => everHealthy
  /\ mqttSeen => everHealthy

StallsAfterPoll == polled => stall = 0

\* The types of the variables that TrialBoot adds.
BusyTypeOK == stall \in 0..Hang /\ polled \in BOOLEAN
HistoryTypeOK == everHealthy \in BOOLEAN /\ together \in 0..(PollGap + 1)

NotRejectedWhileUp == gpioSafe /\ BothUp => test # "rejected"

\* The inductive invariant.
TrialInv ==
  /\ TypeOK /\ TrialTypeOK /\ BusyTypeOK /\ HistoryTypeOK
  /\ StallsAfterPoll /\ ClocksInTime /\ SignalsInTime /\ SeenWasThere
  /\ WatchdogQuiet /\ ConfirmedIsHealthy /\ NotRejectedWhileUp

-----------------------------------------------------------------------------

LEMMA SlackRange ==
  ASSUME BusyTypeOK
  PROVE  /\ Slack \in Nat /\ Slack <= MaxStall
         /\ polled => Slack = 0
         /\ ~polled => Slack = MaxStall
<1>1. CASE polled
  <2>1. Slack = 0
    BY <1>1 DEF Slack
  <2> QED
    BY <1>1, <2>1, Intervals
<1>2. CASE ~polled
  <2>1. Slack = MaxStall
    BY <1>2 DEF Slack
  <2> QED
    BY <1>2, <2>1, Intervals
<1> QED
  BY <1>1, <1>2

LEMMA ClockTypes ==
  ASSUME TrialTypeOK
  PROVE  /\ age \in Nat /\ lastFeed \in 0..age
         /\ pollIn \in 0..PollPeriod
         /\ wdt \in 0..WdtTimeout /\ wdt = age - lastFeed
  BY DEF TrialTypeOK

LEMMA FlagTypes ==
  ASSUME TrialTypeOK
  PROVE  gpioSafe \in BOOLEAN /\ wifiSeen \in BOOLEAN /\ mqttSeen \in BOOLEAN
  BY DEF TrialTypeOK

LEMMA StallTypes == ASSUME BusyTypeOK PROVE stall \in 0..Hang
  BY DEF BusyTypeOK

LEMMA TogetherTypes == ASSUME HistoryTypeOK PROVE together \in 0..(PollGap + 1)
  BY DEF HistoryTypeOK

\* A clock, the sleep and the stall: what the three may do to their sum.
LEMMA SumShrinks ==
  ASSUME NEW c \in Nat, NEW d \in Nat, NEW p \in Nat, NEW s \in Nat, NEW limit \in Int,
         c + p + s <= limit, d <= c + 0
  PROVE  d + p + s <= limit
  OBVIOUS

LEMMA SumShifts ==
  ASSUME NEW c \in Nat, NEW p \in Nat, NEW s \in Nat, NEW limit \in Int,
         NEW d \in Nat, NEW q \in Nat, NEW t \in Nat,
         c + p + s <= limit, d <= c + 1, q + t + 1 <= p + s
  PROVE  d + q + t <= limit
  OBVIOUS

LEMMA SumStalls ==
  ASSUME NEW c \in Nat, NEW p \in Nat, NEW limit \in Int, NEW t \in Nat,
         c + p + 0 <= limit + 0, t <= MaxStall
  PROVE  c + p + t <= limit + MaxStall
  BY Intervals

LEMMA SumBelow ==
  ASSUME NEW c \in Nat, NEW p \in Nat, NEW s \in Nat, NEW slack \in Nat,
         slack <= MaxStall, c + p + s <= FeedInterval - 1 + PollPeriod + slack
  PROVE  c < WdtTimeout
  BY Intervals

LEMMA Limits ==
  ASSUME NEW slack \in Nat
  PROVE  /\ FeedInterval - 1 + PollPeriod + slack \in Int
         /\ Window - 1 + PollPeriod + slack \in Int
         /\ PollPeriod + slack \in Int
         /\ FeedInterval - 1 + PollPeriod \in Int
         /\ Window - 1 + PollPeriod \in Int
         /\ PollPeriod \in Int
  BY Intervals

LEMMA TrialInvInit == TrialBootInit => TrialInv
<1> SUFFICES ASSUME TrialBootInit PROVE TrialInv
  OBVIOUS
<1>1. TypeOK
  BY TypeInit DEF TrialBootInit
<1>2. /\ test = "polling"
      /\ age = 0 /\ pollIn = 0 /\ lastFeed = 0 /\ wdt = 0
      /\ stall = 0 /\ together = 0
  BY DEF TrialBootInit, TrialInit
<1>3. /\ gpioSafe \in BOOLEAN /\ wifiSeen = FALSE /\ mqttSeen = FALSE
      /\ polled = TRUE /\ everHealthy = FALSE /\ healthy = FALSE
  BY DEF TrialBootInit, TrialInit, Init
<1>4. TrialTypeOK
  <2>1. /\ age \in Nat /\ lastFeed \in 0..age /\ pollIn \in 0..PollPeriod
        /\ wdt \in 0..WdtTimeout /\ wdt = age - lastFeed
    BY <1>2, Intervals
  <2>2. test \in {"polling"} \cup Outcomes
    BY <1>2
  <2>3. gpioSafe \in BOOLEAN /\ wifiSeen \in BOOLEAN /\ mqttSeen \in BOOLEAN
    BY <1>3
  <2> QED
    BY <2>1, <2>2, <2>3 DEF TrialTypeOK
<1>5. BusyTypeOK /\ HistoryTypeOK
  <2>1. stall \in 0..Hang /\ together \in 0..(PollGap + 1)
    BY <1>2, Intervals
  <2>2. polled \in BOOLEAN /\ everHealthy \in BOOLEAN
    BY <1>3
  <2> QED
    BY <2>1, <2>2 DEF BusyTypeOK, HistoryTypeOK
<1>6. Slack = 0
  BY <1>3 DEF Slack
<1>7. ClocksInTime
  BY <1>2, <1>6, Intervals DEF ClocksInTime
<1>8. SignalsInTime
  <2>1. together + pollIn + stall <= PollPeriod + Slack
    BY <1>2, <1>6, Intervals
  <2> QED
    BY <2>1 DEF SignalsInTime
<1>9. WatchdogQuiet
  BY <1>2, Intervals DEF WatchdogQuiet
<1>10. StallsAfterPoll
  BY <1>2 DEF StallsAfterPoll
<1>11. SeenWasThere
  BY <1>3 DEF SeenWasThere
<1>12. ConfirmedIsHealthy /\ NotRejectedWhileUp
  BY <1>2 DEF ConfirmedIsHealthy, NotRejectedWhileUp
<1> QED
  BY <1>1, <1>4, <1>5, <1>7, <1>8, <1>9, <1>10, <1>11, <1>12 DEF TrialInv

\* What the histories do in a step: the count of ticks starts again whenever a
\* signal is down,
LEMMA Watched ==
  ASSUME HistoryTypeOK, NEW ticks \in Nat, Watch(ticks), healthy' \in BOOLEAN
  PROVE  /\ HistoryTypeOK' /\ together \in Nat /\ together' \in Nat
         /\ together' <= together + ticks
         /\ ~BothUp => together' = 0
<1>1. everHealthy' \in BOOLEAN
  BY DEF Watch, HistoryTypeOK
<1>2. together \in 0..(PollGap + 1)
  BY TogetherTypes
<1>3. together' = IF BothUp /\ BothUp' THEN Least(together + ticks, PollGap + 1) ELSE 0
  BY DEF Watch
<1>4. CASE BothUp /\ BothUp'
  <2>1. together' = Least(together + ticks, PollGap + 1)
    BY <1>3, <1>4
  <2>2. together' \in 0..(PollGap + 1) /\ together' <= together + ticks
    BY <1>2, <2>1, Intervals DEF Least
  <2>3. HistoryTypeOK'
    BY <1>1, <2>2 DEF HistoryTypeOK, PollGap
  <2> QED
    BY <1>2, <1>4, <2>2, <2>3, Intervals
<1>5. CASE ~(BothUp /\ BothUp')
  <2>1. together' = 0
    BY <1>3, <1>5
  <2>2. together' \in 0..(PollGap + 1) /\ together' <= together + ticks
    BY <1>2, <2>1, Intervals
  <2>3. HistoryTypeOK'
    BY <1>1, <2>2 DEF HistoryTypeOK, PollGap
  <2> QED
    BY <1>2, <2>1, <2>2, <2>3, Intervals
<1> QED
  BY <1>4, <1>5

\* and a session that is live has been live.
LEMMA Remembered ==
  ASSUME NEW ticks \in Nat, Watch(ticks)
  PROVE  (everHealthy => everHealthy') /\ (healthy' => everHealthy')
  BY DEF Watch

\* A step that moves no clock and neither decides the trial nor begins a stall.
LEMMA ClocksKept ==
  ASSUME TrialInv, TypeOK', Watch(0), test = "polling",
         UNCHANGED trialVars, UNCHANGED stall, UNCHANGED polled
  PROVE  TrialInv'
<1>1. /\ test = "polling" /\ test' = "polling"
      /\ UNCHANGED <<gpioSafe, wifiSeen, mqttSeen, age, pollIn, lastFeed, wdt>>
  BY DEF trialVars
<1>2. /\ HistoryTypeOK' /\ together \in Nat /\ together' \in Nat
      /\ together' <= together + 0
  <2>1. HistoryTypeOK /\ healthy' \in BOOLEAN
    BY DEF TypeOK, TrialInv
  <2> QED
    BY <2>1, Watched
<1>3. TrialTypeOK'
  BY <1>1 DEF TrialInv, TrialTypeOK
<1>4. BusyTypeOK' /\ StallsAfterPoll'
  BY DEF TrialInv, BusyTypeOK, StallsAfterPoll, Hang
<1>5. Slack' = Slack /\ Slack \in Nat /\ Hang' = Hang
  BY SlackRange DEF TrialInv, Slack, Hang
<1>6. ClocksInTime'
  BY <1>1, <1>5 DEF TrialInv, ClocksInTime
<1>7. SignalsInTime'
  <2>1. pollIn \in Nat /\ stall \in Nat
    BY ClockTypes, StallTypes, Intervals DEF TrialInv
  <2>2. ASSUME stall # Hang, gpioSafe
        PROVE  together' + pollIn + stall <= PollPeriod + Slack
    <3>1. together + pollIn + stall <= PollPeriod + Slack
      BY <1>1, <2>2 DEF TrialInv, SignalsInTime
    <3> QED
      BY <1>2, <1>5, <2>1, <3>1, SumShrinks, Limits
  <2>3. pollIn' = pollIn /\ gpioSafe' = gpioSafe
    BY <1>1
  <2> QED
    BY <1>5, <2>2, <2>3 DEF SignalsInTime
<1>8. SeenWasThere'
  <2>1. (everHealthy => everHealthy') /\ (healthy' => everHealthy')
    BY Remembered
  <2> QED
    BY <1>1, <2>1 DEF TrialInv, SeenWasThere
<1>9. WatchdogQuiet'
  BY <1>1 DEF TrialInv, WatchdogQuiet, Hang
<1>10. ConfirmedIsHealthy' /\ NotRejectedWhileUp'
  BY <1>1 DEF ConfirmedIsHealthy, NotRejectedWhileUp
<1>11. HistoryTypeOK'
  BY <1>2
<1> QED
  BY <1>3, <1>4, <1>6, <1>7, <1>8, <1>9, <1>10, <1>11 DEF TrialInv

\* The network tasks and services move: no clock does.
LEMMA NetworkKeeps == TrialInv /\ Network => TrialInv'
<1> SUFFICES ASSUME TrialInv, Network PROVE TrialInv'
  OBVIOUS
<1>1. TypeOK'
  BY TypeNext DEF Network, TrialInv, Next
<1> QED
  BY <1>1, ClocksKept DEF Network, Running

\* A poll: it decides, or the clocks are within their limits for another period.
LEMMA PollKeeps == TrialInv /\ SelfTestPoll => TrialInv'
<1> SUFFICES ASSUME TrialInv, SelfTestPoll PROVE TrialInv'
  OBVIOUS
<1> DEFINE wifi == Latched(wifiSeen, link = "Connected")
           mqtt == Latched(mqttSeen, healthy)
           verdict == Verdict(wifi, mqtt)
<1>1. /\ test = "polling" /\ stall = 0 /\ pollIn = 0 /\ wdt < WdtTimeout
      /\ wifiSeen' = wifi /\ mqttSeen' = mqtt
      /\ UNCHANGED vars /\ UNCHANGED <<gpioSafe, age, stall>>
      /\ polled' = TRUE /\ Watch(0)
  BY DEF SelfTestPoll, Running, Poll
<1>2. \/ verdict # "pending" /\ Settle(verdict)
      \/ /\ verdict = "pending"
         /\ pollIn' = PollPeriod
         /\ IF FeedDue THEN Feed ELSE UNCHANGED <<lastFeed, wdt>>
         /\ UNCHANGED test
  BY DEF SelfTestPoll, Poll
<1>3. TypeOK' /\ link' = link /\ healthy' = healthy /\ healthy \in BOOLEAN
  BY <1>1, TypeNext DEF TrialInv, TypeOK, vars, supVars, mqVars
<1>4. HistoryTypeOK' /\ (~BothUp => together' = 0)
  BY <1>1, <1>3, Watched DEF TrialInv
<1>5. wifiSeen \in BOOLEAN /\ mqttSeen \in BOOLEAN /\ gpioSafe \in BOOLEAN
  BY FlagTypes DEF TrialInv
<1>6. wifi \in BOOLEAN /\ mqtt \in BOOLEAN /\ (BothUp => wifi /\ mqtt)
  BY <1>3, <1>5 DEF Latched, BothUp
<1>7. (mqtt => everHealthy') /\ (healthy' => everHealthy')
  <2>1. (everHealthy => everHealthy') /\ (healthy' => everHealthy')
    BY <1>1, Remembered
  <2> QED
    BY <1>3, <2>1 DEF TrialInv, SeenWasThere, Latched
<1>8. /\ verdict = "passed" => gpioSafe /\ wifi /\ mqtt
      /\ verdict = "failed" => ~(gpioSafe /\ wifi /\ mqtt)
      /\ verdict = "pending" => gpioSafe /\ ~(wifi /\ mqtt)
      /\ verdict = "pending" => ~(age >= Window)
  BY DEF Verdict
<1>9. gpioSafe' = gpioSafe /\ (BothUp' <=> BothUp)
  BY <1>1, <1>3 DEF BothUp
<1>10. BusyTypeOK' /\ StallsAfterPoll'
  BY <1>1, Intervals DEF BusyTypeOK, StallsAfterPoll
<1>11. SeenWasThere'
  BY <1>1, <1>7 DEF SeenWasThere
<1> HIDE DEF wifi, mqtt, verdict
<1>12. CASE verdict # "pending" /\ Settle(verdict)
  <2>1. /\ test' \in {"confirmed", "rejected", "unsettled"}
        /\ test' = "confirmed" => verdict = "passed"
        /\ test' = "rejected" => verdict = "failed"
        /\ UNCHANGED <<pollIn, lastFeed, wdt>>
    BY <1>12 DEF Settle
  <2>2. TrialTypeOK'
    <3>1. test' \in {"polling"} \cup Outcomes
      BY <2>1 DEF Outcomes
    <3>2. wifiSeen' \in BOOLEAN /\ mqttSeen' \in BOOLEAN /\ gpioSafe' \in BOOLEAN
      BY <1>1, <1>5, <1>6
    <3>3. /\ age' \in Nat /\ lastFeed' \in 0..age' /\ pollIn' \in 0..PollPeriod
          /\ wdt' \in 0..WdtTimeout /\ wdt' = age' - lastFeed'
      BY <1>1, <2>1 DEF TrialInv, TrialTypeOK
    <3> QED
      BY <3>1, <3>2, <3>3 DEF TrialTypeOK
  <2>3. ClocksInTime' /\ SignalsInTime'
    BY <2>1 DEF ClocksInTime, SignalsInTime
  <2>4. WatchdogQuiet'
    BY <1>1, <2>1 DEF WatchdogQuiet
  <2>5. ConfirmedIsHealthy'
    BY <1>7, <1>8, <1>9, <2>1 DEF ConfirmedIsHealthy
  <2>6. NotRejectedWhileUp'
    BY <1>6, <1>8, <1>9, <2>1 DEF NotRejectedWhileUp
  <2> QED
    BY <1>3, <1>4, <1>10, <1>11, <2>2, <2>3, <2>4, <2>5, <2>6 DEF TrialInv
<1>13. CASE /\ verdict = "pending"
            /\ pollIn' = PollPeriod
            /\ IF FeedDue THEN Feed ELSE UNCHANGED <<lastFeed, wdt>>
            /\ UNCHANGED test
  <2>1. /\ wdt' \in 0..(FeedInterval - 1) /\ wdt' \in 0..WdtTimeout
        /\ lastFeed' \in 0..age /\ wdt' = age - lastFeed'
    <3>1. wdt \in 0..WdtTimeout /\ wdt = age - lastFeed /\ age \in Nat /\ lastFeed \in 0..age
      BY DEF TrialInv, TrialTypeOK
    <3>2. CASE FeedDue
      <4>1. wdt' = 0 /\ lastFeed' = age
        BY <1>13, <3>2 DEF Feed
      <4> QED
        BY <3>1, <4>1, Intervals
    <3>3. CASE ~FeedDue
      <4>1. wdt' = wdt /\ lastFeed' = lastFeed
        BY <1>13, <3>3
      <4>2. ~(age - lastFeed >= FeedInterval)
        BY <3>3 DEF FeedDue
      <4> QED
        BY <3>1, <4>1, <4>2, Intervals
    <3> QED
      BY <3>2, <3>3
  <2>2. /\ age' = age /\ pollIn' = PollPeriod /\ stall' = 0 /\ Slack' = 0
        /\ test' = "polling" /\ age \in Nat /\ age < Window
    <3>1. ~(age >= Window)
      BY <1>8, <1>13
    <3>2. age \in Nat
      BY ClockTypes DEF TrialInv
    <3>3. age < Window
      BY <3>1, <3>2, Intervals
    <3>4. age' = age /\ stall' = 0 /\ Slack' = 0
      BY <1>1 DEF Slack
    <3> QED
      BY <1>1, <1>13, <3>2, <3>3, <3>4
  <2>3. TrialTypeOK'
    <3>1. wifiSeen' \in BOOLEAN /\ mqttSeen' \in BOOLEAN /\ gpioSafe' \in BOOLEAN
      BY <1>1, <1>5, <1>6
    <3>2. /\ age' \in Nat /\ lastFeed' \in 0..age' /\ pollIn' \in 0..PollPeriod
          /\ wdt' \in 0..WdtTimeout /\ wdt' = age' - lastFeed'
      <4>1. PollPeriod \in 0..PollPeriod
        BY Intervals
      <4> QED
        BY <2>1, <2>2, <4>1
    <3> QED
      BY <2>2, <3>1, <3>2 DEF TrialTypeOK
  <2>4. together' = 0
    BY <1>4, <1>6, <1>8, <1>13
  <2>5. ClocksInTime'
    <3>1. ASSUME NEW w \in 0..(FeedInterval - 1)
          PROVE  /\ w + PollPeriod + 0 <= FeedInterval - 1 + PollPeriod + 0
                 /\ age + PollPeriod + 0 <= Window - 1 + PollPeriod + 0
      <4>1. age \in Nat /\ age < Window
        BY <2>2
      <4> QED
        BY <4>1, Intervals
    <3> QED
      BY <2>1, <2>2, <3>1 DEF ClocksInTime
  <2>6. SignalsInTime'
    <3>1. together' + pollIn' + stall' <= PollPeriod + Slack'
      BY <2>2, <2>4, Intervals
    <3> QED
      BY <3>1 DEF SignalsInTime
  <2>7. WatchdogQuiet'
    BY <2>1, Intervals DEF WatchdogQuiet
  <2>8. ConfirmedIsHealthy' /\ NotRejectedWhileUp'
    BY <2>2 DEF ConfirmedIsHealthy, NotRejectedWhileUp
  <2> QED
    BY <1>3, <1>4, <1>10, <1>11, <2>3, <2>5, <2>6, <2>7, <2>8 DEF TrialInv
<1> QED
  BY <1>2, <1>12, <1>13

\* A tick that the self test sleeps through, with the executor idle or busy: what
\* a clock gains the sleep or the stall has lost.
LEMMA ElapseKeeps ==
  ASSUME TrialInv, Elapse, TypeOK', Watch(1), polled' = polled,
         \/ stall = 0 /\ pollIn > 0 /\ stall' = 0
         \/ stall > 0 /\ stall' = IF stall = Hang THEN Hang ELSE stall - 1
  PROVE  TrialInv'
<1>1. /\ test = "polling" /\ test' = "polling" /\ wdt < WdtTimeout
      /\ age' = age + 1 /\ wdt' = wdt + 1
      /\ pollIn' = (IF pollIn > 0 THEN pollIn - 1 ELSE 0)
      /\ UNCHANGED <<gpioSafe, wifiSeen, mqttSeen, lastFeed>>
  BY DEF Elapse
<1>2. /\ HistoryTypeOK' /\ together \in Nat /\ together' \in Nat
      /\ together' <= together + 1
  <2>1. HistoryTypeOK /\ healthy' \in BOOLEAN
    BY DEF TypeOK, TrialInv
  <2> QED
    BY <2>1, Watched
<1>3. /\ age \in Nat /\ wdt \in 0..WdtTimeout /\ pollIn \in 0..PollPeriod
      /\ lastFeed \in 0..age /\ wdt = age - lastFeed /\ stall \in 0..Hang
  BY ClockTypes, StallTypes DEF TrialInv
<1>4. /\ test = "polling" /\ wdt < WdtTimeout
       /\ age' = age + 1 /\ wdt' = wdt + 1 /\ lastFeed' = lastFeed
  BY <1>1
<1>5. /\ stall' \in 0..Hang /\ (stall' # Hang => stall # Hang)
      /\ pollIn' \in 0..PollPeriod
      /\ stall # Hang => pollIn' + stall' + 1 <= pollIn + stall
  BY <1>1, <1>3, Intervals
<1>6. BusyTypeOK'
  BY <1>5 DEF TrialInv, BusyTypeOK, Hang
<1>7. StallsAfterPoll'
  BY <1>3, Intervals DEF TrialInv, StallsAfterPoll
<1>8. TrialTypeOK'
  <2>1. /\ age' \in Nat /\ lastFeed' \in 0..age' /\ pollIn' \in 0..PollPeriod
        /\ wdt' \in 0..WdtTimeout /\ wdt' = age' - lastFeed'
    BY <1>3, <1>4, <1>5, Intervals
  <2> QED
    BY <1>1, <2>1, FlagTypes DEF TrialInv, TrialTypeOK
<1>9. /\ Slack' = Slack /\ Slack \in Nat /\ Slack <= MaxStall /\ Hang' = Hang
  BY SlackRange DEF TrialInv, Slack, Hang
<1>10. ASSUME stall' # Hang
      PROVE  /\ wdt' + pollIn' + stall' <= FeedInterval - 1 + PollPeriod + Slack
             /\ age' + pollIn' + stall' <= Window - 1 + PollPeriod + Slack
  <2>1. stall # Hang
    BY <1>5, <1>10
  <2>2. /\ wdt + pollIn + stall <= FeedInterval - 1 + PollPeriod + Slack
        /\ age + pollIn + stall <= Window - 1 + PollPeriod + Slack
    BY <1>1, <2>1 DEF TrialInv, ClocksInTime
  <2> QED
    <3>1. /\ wdt \in Nat /\ age \in Nat /\ pollIn \in Nat /\ stall \in Nat
          /\ wdt' \in Nat /\ age' \in Nat /\ pollIn' \in Nat /\ stall' \in Nat
          /\ wdt' <= wdt + 1 /\ age' <= age + 1
      BY <1>3, <1>4, <1>5, Intervals
    <3>2. pollIn' + stall' + 1 <= pollIn + stall
      BY <1>5, <2>1
    <3>3. wdt' + pollIn' + stall' <= FeedInterval - 1 + PollPeriod + Slack
      BY <1>9, <2>2, <3>1, <3>2, SumShifts, Limits
    <3>4. age' + pollIn' + stall' <= Window - 1 + PollPeriod + Slack
      <4>1. Window - 1 + PollPeriod + Slack \in Int
        BY <1>9, Limits
      <4>2. age + pollIn + stall <= Window - 1 + PollPeriod + Slack
        BY <2>2
      <4> QED
        BY <3>1, <3>2, <4>1, <4>2, SumShifts
    <3> QED
      BY <3>3, <3>4
<1>11. ClocksInTime'
  BY <1>9, <1>10 DEF ClocksInTime
<1>12. SignalsInTime'
  <2>1. ASSUME stall' # Hang, gpioSafe
        PROVE  together' + pollIn' + stall' <= PollPeriod + Slack
    <3>1. stall # Hang
      BY <1>5, <2>1
    <3>2. together + pollIn + stall <= PollPeriod + Slack
      BY <1>1, <2>1, <3>1 DEF TrialInv, SignalsInTime
    <3> QED
      <4>1. pollIn \in Nat /\ stall \in Nat /\ pollIn' \in Nat /\ stall' \in Nat
        BY <1>3, <1>5, Intervals
      <4>2. pollIn' + stall' + 1 <= pollIn + stall
        BY <1>5, <3>1
      <4> QED
        BY <1>2, <1>9, <3>2, <4>1, <4>2, SumShifts, Limits
  <2> QED
    BY <1>1, <1>9, <2>1 DEF SignalsInTime
<1>13. WatchdogQuiet'
  <2>1. ASSUME stall' # Hang PROVE wdt' < WdtTimeout
    <3>1. wdt' + pollIn' + stall' <= FeedInterval - 1 + PollPeriod + Slack
      BY <1>10, <2>1
    <3>2. wdt' \in Nat /\ pollIn' \in Nat /\ stall' \in Nat
      BY <1>3, <1>4, <1>5, Intervals
    <3> QED
      BY <1>9, <3>1, <3>2, SumBelow
  <2> QED
    BY <1>9, <2>1 DEF WatchdogQuiet
<1>14. SeenWasThere'
  <2>1. (everHealthy => everHealthy') /\ (healthy' => everHealthy')
    BY Remembered
  <2> QED
    BY <1>1, <2>1 DEF TrialInv, SeenWasThere
<1>15. ConfirmedIsHealthy' /\ NotRejectedWhileUp'
  BY <1>1 DEF ConfirmedIsHealthy, NotRejectedWhileUp
<1>16. HistoryTypeOK'
  BY <1>2
<1> QED
  BY <1>6, <1>7, <1>8, <1>11, <1>12, <1>13, <1>14, <1>15, <1>16 DEF TrialInv

LEMMA TickKeeps == TrialInv /\ TrialTick => TrialInv'
<1> SUFFICES ASSUME TrialInv, TrialTick PROVE TrialInv'
  OBVIOUS
<1>1. TypeOK'
  BY TickTyped DEF TrialTick, TrialInv
<1> QED
  BY <1>1, ElapseKeeps DEF TrialTick

LEMMA StallTickKeeps == TrialInv /\ StallTick => TrialInv'
<1> SUFFICES ASSUME TrialInv, StallTick PROVE TrialInv'
  OBVIOUS
<1>1. TypeOK'
  <2>1. TypeOK
    BY DEF TrialInv
  <2>2. /\ supTimer' \in 0..MaxTimer /\ mqTimer' \in 0..MaxTimer
        /\ ipAge' \in 0..NoIpReboot
    BY <2>1, TimersFit, Timings DEF StallTick, TypeOK, Least
  <2> QED
    BY <2>1, <2>2 DEF StallTick, TypeOK, radio, env
<1> QED
  BY <1>1, ElapseKeeps DEF StallTick

\* A stall begins only once every task has been polled: it lasts no longer than
\* the slack there is for it.
LEMMA StallKeeps == TrialInv /\ BeginStall => TrialInv'
<1> SUFFICES ASSUME TrialInv, BeginStall PROVE TrialInv'
  OBVIOUS
<1>1. /\ test = "polling" /\ test' = "polling"
      /\ stall = 0 /\ polled = TRUE /\ wdt < WdtTimeout
      /\ stall' \in 1..Hang /\ polled' = FALSE
      /\ UNCHANGED vars
      /\ UNCHANGED <<gpioSafe, wifiSeen, mqttSeen, age, pollIn, lastFeed, wdt>>
      /\ Watch(0)
  BY DEF BeginStall, Running, TrialInv, BusyTypeOK, trialVars
<1>2. TypeOK' /\ healthy' = healthy /\ healthy \in BOOLEAN
  BY <1>1, TypeNext DEF TrialInv, TypeOK, vars, mqVars
<1>3. /\ HistoryTypeOK' /\ together \in Nat /\ together' \in Nat
      /\ together' <= together + 0
  BY <1>1, <1>2, Watched DEF TrialInv
<1>4. TrialTypeOK'
  BY <1>1 DEF TrialInv, TrialTypeOK
<1>5. BusyTypeOK' /\ StallsAfterPoll'
  <2>1. stall' \in 1..Hang /\ polled' = FALSE
    BY <1>1
  <2>2. \A t \in 1..Hang : t \in 0..Hang
    BY Intervals
  <2> QED
    BY <2>1, <2>2 DEF BusyTypeOK, StallsAfterPoll, Hang
<1>6. Slack = 0 /\ Slack' = MaxStall /\ Hang' = Hang
  BY <1>1 DEF Slack, Hang
<1>7. stall = 0 /\ stall' \in 1..Hang
  BY <1>1
<1>8. /\ stall' \in Nat /\ (stall' # Hang => stall' <= MaxStall) /\ stall # Hang
      /\ age \in Nat /\ wdt \in Nat /\ pollIn \in Nat
  <2>1. age \in Nat /\ wdt \in 0..WdtTimeout /\ pollIn \in 0..PollPeriod
    BY ClockTypes DEF TrialInv
  <2> QED
    BY <1>7, <2>1, Intervals
<1>9. ClocksInTime'
  <2>1. /\ wdt + pollIn + stall <= FeedInterval - 1 + PollPeriod + Slack
        /\ age + pollIn + stall <= Window - 1 + PollPeriod + Slack
    BY <1>1, <1>8 DEF TrialInv, ClocksInTime
  <2>2. ASSUME stall' # Hang
        PROVE  /\ wdt + pollIn + stall' <= FeedInterval - 1 + PollPeriod + MaxStall
               /\ age + pollIn + stall' <= Window - 1 + PollPeriod + MaxStall
    <3>1. /\ wdt + pollIn + 0 <= FeedInterval - 1 + PollPeriod + 0
          /\ age + pollIn + 0 <= Window - 1 + PollPeriod + 0
      BY <1>6, <1>7, <2>1
    <3>2. stall' <= MaxStall
      BY <1>8, <2>2
    <3> QED
      BY <1>8, <3>1, <3>2, SumStalls, Limits
  <2> QED
    BY <1>1, <1>6, <2>2 DEF ClocksInTime
<1>10. SignalsInTime'
  <2>1. ASSUME stall' # Hang, gpioSafe
        PROVE  together' + pollIn + stall' <= PollPeriod + MaxStall
    <3>1. together + pollIn + stall <= PollPeriod + Slack
      BY <1>1, <1>8, <2>1 DEF TrialInv, SignalsInTime
    <3>2. stall' # Hang
      BY <2>1
    <3> QED
      <4>1. /\ together + pollIn + stall' <= PollPeriod + MaxStall
            /\ MaxStall \in Nat
        <5>1. together + pollIn + 0 <= PollPeriod + 0
          BY <1>6, <1>7, <3>1
        <5>2. stall' <= MaxStall
          BY <1>8, <3>2
        <5> QED
          BY <1>3, <1>8, <5>1, <5>2, SumStalls, Limits, Intervals
      <4> QED
        BY <1>3, <1>8, <4>1, SumShrinks, Limits
  <2> QED
    BY <1>1, <1>6, <2>1 DEF SignalsInTime
<1>11. WatchdogQuiet'
  BY <1>1 DEF WatchdogQuiet
<1>12. SeenWasThere'
  <2>1. (everHealthy => everHealthy') /\ (healthy' => everHealthy')
    BY <1>1, Remembered
  <2> QED
    BY <1>1, <2>1 DEF TrialInv, SeenWasThere
<1>13. ConfirmedIsHealthy' /\ NotRejectedWhileUp'
  BY <1>1 DEF ConfirmedIsHealthy, NotRejectedWhileUp
<1>14. TypeOK' /\ HistoryTypeOK'
  BY <1>2, <1>3
<1> QED
  BY <1>4, <1>5, <1>9, <1>10, <1>11, <1>12, <1>13, <1>14 DEF TrialInv

\* The watchdog fires for a hang only.
LEMMA ResetKeeps == TrialInv /\ WatchdogReset => TrialInv'
<1> SUFFICES ASSUME TrialInv, WatchdogReset PROVE TrialInv'
  OBVIOUS
<1>1. /\ test' = "watchdog" /\ wdt = WdtTimeout
      /\ UNCHANGED <<gpioSafe, wifiSeen, mqttSeen, age, pollIn, lastFeed, wdt>>
      /\ UNCHANGED vars /\ UNCHANGED <<stall, polled>>
      /\ Watch(0)
  BY DEF WatchdogReset, WatchdogFires, busy
<1>2. TypeOK' /\ healthy' = healthy /\ healthy \in BOOLEAN
  BY <1>1, TypeNext DEF TrialInv, TypeOK, vars, mqVars
<1>3. HistoryTypeOK'
  BY <1>1, <1>2, Watched DEF TrialInv
<1>4. TrialTypeOK'
  BY <1>1 DEF TrialInv, TrialTypeOK, Outcomes
<1>5. stall = Hang
  <2>1. wdt = WdtTimeout /\ ~(wdt < WdtTimeout)
    BY <1>1, Intervals
  <2> QED
    BY <2>1 DEF TrialInv, WatchdogQuiet
<1>6. WatchdogQuiet'
  BY <1>1, <1>5 DEF WatchdogQuiet, Hang
<1>7. BusyTypeOK' /\ StallsAfterPoll'
  BY <1>1 DEF TrialInv, BusyTypeOK, StallsAfterPoll, Hang
<1>8. ClocksInTime' /\ SignalsInTime'
  BY <1>1 DEF ClocksInTime, SignalsInTime
<1>9. SeenWasThere'
  <2>1. (everHealthy => everHealthy') /\ (healthy' => everHealthy')
    BY <1>1, Remembered
  <2> QED
    BY <1>1, <2>1 DEF TrialInv, SeenWasThere
<1>10. ConfirmedIsHealthy' /\ NotRejectedWhileUp'
  BY <1>1 DEF ConfirmedIsHealthy, NotRejectedWhileUp
<1> QED
  BY <1>2, <1>3, <1>4, <1>6, <1>7, <1>8, <1>9, <1>10 DEF TrialInv

LEMMA TrialInvNext == TrialInv /\ [TrialNext]_allVars => TrialInv'
<1> SUFFICES ASSUME TrialInv, [TrialNext]_allVars PROVE TrialInv'
  OBVIOUS
<1>1. CASE UNCHANGED allVars
  <2>1. /\ UNCHANGED vars
        /\ UNCHANGED <<test, gpioSafe, wifiSeen, mqttSeen, age, pollIn, lastFeed, wdt>>
        /\ UNCHANGED <<stall, polled, everHealthy, together, healthy, link>>
    BY <1>1 DEF allVars, trialVars, busy, history, vars, supVars, mqVars
  <2>2. TypeOK'
    BY <2>1, TypeNext DEF TrialInv
  <2>3. TrialTypeOK' /\ BusyTypeOK' /\ HistoryTypeOK'
    BY <2>1 DEF TrialInv, TrialTypeOK, BusyTypeOK, HistoryTypeOK, Hang, PollGap
  <2>4. StallsAfterPoll' /\ SeenWasThere' /\ ConfirmedIsHealthy'
    BY <2>1 DEF TrialInv, StallsAfterPoll, SeenWasThere, ConfirmedIsHealthy
  <2>5. ClocksInTime' /\ SignalsInTime' /\ WatchdogQuiet'
    BY <2>1 DEF TrialInv, ClocksInTime, SignalsInTime, WatchdogQuiet, Slack, Hang
  <2>6. NotRejectedWhileUp'
    BY <2>1 DEF TrialInv, NotRejectedWhileUp, BothUp
  <2> QED
    BY <2>2, <2>3, <2>4, <2>5, <2>6 DEF TrialInv
<1> QED
  BY <1>1, NetworkKeeps, PollKeeps, TickKeeps, StallTickKeeps, StallKeeps, ResetKeeps
  DEF TrialNext

LEMMA TrialInvariance == TrialSpec => []TrialInv
  BY TrialInvInit, TrialInvNext, PTL DEF TrialSpec

-----------------------------------------------------------------------------

\* While the executor runs at all, the watchdog does not fire: its timeout covers
\* a feed interval, a poll period and the longest stall, whatever they are.
THEOREM WatchdogStaysQuiet == TrialSpec => []WatchdogQuiet
<1>1. TrialInv => WatchdogQuiet
  BY DEF TrialInv
<1> QED
  BY <1>1, TrialInvariance, PTL

\* No trial outlasts the window by more than the time between two polls.
THEOREM VerdictComesInTime == TrialSpec => []VerdictInTime
<1>1. TrialInv => VerdictInTime
  <2> SUFFICES ASSUME TrialInv, test = "polling", stall # Hang
               PROVE  age < Window + PollGap
    BY DEF VerdictInTime
  <2>1. age + pollIn + stall <= Window - 1 + PollPeriod + Slack
    BY DEF TrialInv, ClocksInTime
  <2>2. Slack \in Nat /\ Slack <= MaxStall
    BY SlackRange DEF TrialInv
  <2>3. age \in Nat /\ pollIn \in Nat /\ stall \in Nat
    BY Intervals DEF TrialInv, TrialTypeOK, BusyTypeOK
  <2> QED
    BY <2>1, <2>2, <2>3, Intervals
<1> QED
  BY <1>1, TrialInvariance, PTL

\* A slot is confirmed only after a live session, with inactive outputs.
THEOREM ConfirmedWasHealthy == TrialSpec => []ConfirmedIsHealthy
<1>1. TrialInv => ConfirmedIsHealthy
  BY DEF TrialInv
<1> QED
  BY <1>1, TrialInvariance, PTL

\* Two signals that are up are never judged a failure, and decide the trial
\* within the time between two polls.
THEOREM HealthIsNoticed == TrialSpec => []HealthNoticed
<1>1. TrialInv => HealthNoticed
  <2> SUFFICES ASSUME TrialInv, gpioSafe PROVE
               /\ BothUp => test # "rejected"
               /\ together > PollGap /\ stall # Hang => test # "polling"
    BY DEF HealthNoticed
  <2>1. BothUp => test # "rejected"
    BY DEF TrialInv, NotRejectedWhileUp
  <2>2. ASSUME together > PollGap, stall # Hang, test = "polling"
        PROVE  FALSE
    <3>1. together + pollIn + stall <= PollPeriod + Slack
      BY <2>2 DEF TrialInv, SignalsInTime
    <3>2. Slack \in Nat /\ Slack <= MaxStall
      BY SlackRange DEF TrialInv
    <3>3. together \in Nat /\ pollIn \in Nat /\ stall \in Nat
      BY Intervals DEF TrialInv, TrialTypeOK, BusyTypeOK, HistoryTypeOK
    <3> QED
      BY <2>2, <3>1, <3>2, <3>3, Intervals
  <2> QED
    BY <2>1, <2>2
<1> QED
  BY <1>1, TrialInvariance, PTL

\* The bounds of the model: calls missed and stalls begun.
BoundsTypeOK == stalls \in 0..MaxStalls /\ misses \in 0..MaxMisses

\* A tick makes no more calls late than there are waits.
LEMMA LateIsNat == Late \in Nat
<1> DEFINE a == IF sup \in SupTimed \ {"backoff"} /\ Allowed(sup) - supTimer = Latency THEN 1 ELSE 0
           b == IF mq \in MqTimed \ {"backoff"} /\ Allowed(mq) - mqTimer = Latency THEN 1 ELSE 0
           c == IF mq = "subscribe" THEN 1 ELSE 0
<1>1. a \in Nat /\ b \in Nat /\ c \in Nat
  OBVIOUS
<1>2. Late = a + b + c
  BY DEF Late
<1> HIDE DEF a, b, c
<1> QED
  BY <1>1, <1>2

\* The watchdog's count, the waits and the histories keep their types through
\* every step of the composition (selftest.rs self_test_task with net.rs and
\* mqtt.rs).
THEOREM TrialTyping == TrialSpec => []TrialBootTypeOK
<1>1. TrialBootInit => BoundsTypeOK
  BY TrialAssumption DEF TrialBootInit, BoundsTypeOK
<1>2. BoundsTypeOK /\ [TrialNext]_allVars => BoundsTypeOK'
  <2> SUFFICES ASSUME BoundsTypeOK, [TrialNext]_allVars PROVE BoundsTypeOK'
    OBVIOUS
  <2>0. MaxStalls \in Nat /\ MaxMisses \in Nat
    BY TrialAssumption
  <2>1. CASE Network
    <3>1. \/ misses' = misses + 1
          \/ misses' = misses + 0
      BY <2>1 DEF Network
    <3>2. misses' <= MaxMisses /\ stalls' = stalls
      BY <2>1 DEF Network
    <3> QED
      BY <2>0, <3>1, <3>2 DEF BoundsTypeOK
  <2>2. CASE TrialTick
    <3>1. misses' = misses + Late /\ misses' <= MaxMisses /\ stalls' = stalls
      BY <2>2 DEF TrialTick
    <3> QED
      BY <2>0, <3>1, LateIsNat DEF BoundsTypeOK
  <2>3. CASE BeginStall
    <3>1. stalls < MaxStalls /\ stalls' = stalls + 1 /\ misses' = misses
      BY <2>3 DEF BeginStall
    <3> QED
      BY <2>0, <3>1 DEF BoundsTypeOK
  <2>4. CASE SelfTestPoll \/ StallTick \/ WatchdogReset \/ UNCHANGED allVars
    <3>1. misses' = misses /\ stalls' = stalls
      BY <2>4 DEF SelfTestPoll, StallTick, WatchdogReset, allVars, busy
    <3> QED
      BY <3>1 DEF BoundsTypeOK
  <2> QED
    BY <2>1, <2>2, <2>3, <2>4 DEF TrialNext
<1>3. TrialInv /\ BoundsTypeOK => TrialBootTypeOK
  BY DEF TrialInv, BoundsTypeOK, BusyTypeOK, HistoryTypeOK, TrialBootTypeOK
<1> QED
  BY <1>1, <1>2, <1>3, TrialInvariance, PTL DEF TrialSpec

-----------------------------------------------------------------------------
(* One missed call                                                         *)

\* The window leaves room for five answers of Latency, of the station, the access
\* point, the DHCP server and the broker twice, and for what one missed call
\* costs: the rest of its timeout, the wait before it is made again and the answers
\* that are needed once more.  No single miss escalates.
WindowFits ==
  /\ \A limit \in {JoinTimeout, DhcpTimeout, ConnectTimeout} : Latency < limit
  /\ DhcpAttempts > 1 /\ RejoinFailures > 1
  /\ \A cost \in {JoinTimeout + BackoffInitial, DhcpTimeout,
                  ConnectTimeout + BackoffInitial + Latency} :
       5 * Latency + cost < Window

OneMiss == misses <= 1 /\ stalls = 0 /\ outages = 0

\* A wait that goes on for longer than an answer takes.
Overdue(limit, timer) == limit - timer > Latency

\* The ticks left of a wait: to the answer or, where it did not come in time, to
\* the end of the wait and through what it takes to make the call again.
Wait(limit, timer, again) ==
  IF Overdue(limit, timer) THEN timer + again ELSE Latency - (limit - timer)

\* The ticks until the link is up, and then until the session is.
LinkLeft(pc, timer, begun) ==
  IF pc = "start" THEN Wait(JoinTimeout, timer, 0) + 2 * Latency
  ELSE IF pc = "join" THEN Wait(JoinTimeout, timer, BackoffInitial + Latency) + Latency
  ELSE IF pc = "dhcp" THEN Wait(DhcpTimeout, timer, Latency)
  ELSE IF pc = "backoff" THEN timer + (IF begun THEN 2 * Latency ELSE 3 * Latency)
  ELSE 0

SessionLeft(pc, timer) ==
  IF pc = "link" THEN 2 * Latency
  ELSE IF pc = "tcp" THEN Wait(ConnectTimeout, timer, BackoffInitial + Latency) + Latency
  ELSE IF pc = "handshake" THEN Wait(ConnectTimeout, timer, BackoffInitial + 2 * Latency)
  ELSE IF pc = "backoff" THEN timer + 2 * Latency
  ELSE 0

Left == LinkLeft(sup, supTimer, started) + SessionLeft(mq, mqTimer)

\* The calls are made in order: the link comes up, then the session.
CallsInOrder ==
  /\ stall = 0 /\ up = Services /\ ~dropped /\ ~rejoin /\ ipAge <= age
  /\ \/ /\ sup \in {"start", "join", "backoff"} /\ station = "off" /\ ~lease
        /\ link # "Connected" /\ mq = "link"
     \/ sup = "dhcp" /\ station = "live" /\ link # "Connected" /\ mq = "link"
     \/ sup \in {"probe", "up"} /\ station = "live" /\ lease /\ link = "Connected"
  /\ sup = "start" => ~started
  /\ sup = "join" => started
  /\ mq = "serve" => healthy

\* Until a call is missed the two tasks have nothing to make up for, and a call that
\* is late is the only one.
MissKept ==
  /\ misses = 0 =>
       /\ supBackoff = BackoffInitial /\ mqBackoff = BackoffInitial
       /\ failures = 0 /\ attempts <= 1
  /\ sup = "start" /\ Overdue(JoinTimeout, supTimer) => misses # 0
  /\ sup = "join" /\ Overdue(JoinTimeout, supTimer) =>
       misses # 0 /\ supBackoff = BackoffInitial
  /\ sup = "dhcp" /\ Overdue(DhcpTimeout, supTimer) => misses # 0 /\ attempts <= 1
  /\ mq \in {"tcp", "handshake"} /\ Overdue(ConnectTimeout, mqTimer) =>
       misses # 0 /\ mqBackoff = BackoffInitial /\ failures = 0
  /\ sup = "backoff" \/ mq = "backoff" => misses # 0

\* The bring-up ends in five answers, and with a miss within the window.
InWindow ==
  mq # "serve" =>
    age + Left <= IF misses = 0 THEN 5 * Latency ELSE Window - 1

OnTheWay == CallsInOrder /\ MissKept /\ InWindow

BringUp == test = "polling" /\ OneMiss => OnTheWay

LEMMA WindowNumbers ==
  ASSUME WindowFits
  PROVE  /\ Latency \in Nat /\ Window \in Nat /\ BackoffInitial \in Nat \ {0}
         /\ JoinTimeout \in Nat \ {0} /\ DhcpTimeout \in Nat \ {0}
         /\ ConnectTimeout \in Nat \ {0} /\ NoIpReboot \in Nat /\ Window < NoIpReboot
         /\ Latency < JoinTimeout /\ Latency < DhcpTimeout /\ Latency < ConnectTimeout
         /\ DhcpAttempts \in Nat /\ DhcpAttempts > 1
         /\ RejoinFailures \in Nat /\ RejoinFailures > 1
         /\ 5 * Latency + JoinTimeout + BackoffInitial < Window
         /\ 5 * Latency + DhcpTimeout < Window
         /\ 5 * Latency + ConnectTimeout + BackoffInitial + Latency < Window
<1>1. /\ Latency \in Nat /\ Window \in Nat /\ PollPeriod \in Nat /\ MaxStall \in Nat
      /\ Window + PollPeriod + MaxStall < NoIpReboot
  BY Intervals, TrialAssumption
<1> QED
  BY <1>1, Timings DEF WindowFits

LEMMA WaitValue ==
  ASSUME NEW limit \in Nat, NEW timer \in Nat, NEW again \in Nat, Latency \in Nat
  PROVE  /\ limit - timer > Latency => Overdue(limit, timer)
         /\ limit - timer <= Latency => ~Overdue(limit, timer)
         /\ Overdue(limit, timer) => limit - timer > Latency
         /\ Overdue(limit, timer) => Wait(limit, timer, again) = timer + again
         /\ ~Overdue(limit, timer) => Wait(limit, timer, again) = Latency - (limit - timer)
  BY DEF Wait, Overdue

LEMMA WaitStarts ==
  ASSUME NEW limit \in Nat, NEW again, Latency \in Nat
  PROVE  ~Overdue(limit, limit) /\ Wait(limit, limit, again) = Latency
  BY DEF Wait, Overdue

\* What is left at each place.
LEMMA LinkLeftAt ==
  ASSUME NEW timer, NEW begun
  PROVE  /\ LinkLeft("start", timer, begun) = Wait(JoinTimeout, timer, 0) + 2 * Latency
         /\ LinkLeft("join", timer, begun) =
              Wait(JoinTimeout, timer, BackoffInitial + Latency) + Latency
         /\ LinkLeft("dhcp", timer, begun) = Wait(DhcpTimeout, timer, Latency)
         /\ begun => LinkLeft("backoff", timer, begun) = timer + 2 * Latency
         /\ ~begun => LinkLeft("backoff", timer, begun) = timer + 3 * Latency
         /\ LinkLeft("probe", timer, begun) = 0 /\ LinkLeft("up", timer, begun) = 0
  BY DEF LinkLeft

LEMMA SessionLeftAt ==
  ASSUME NEW timer
  PROVE  /\ SessionLeft("link", timer) = 2 * Latency
         /\ SessionLeft("tcp", timer) =
              Wait(ConnectTimeout, timer, BackoffInitial + Latency) + Latency
         /\ SessionLeft("handshake", timer) =
              Wait(ConnectTimeout, timer, BackoffInitial + 2 * Latency)
         /\ SessionLeft("subscribe", timer) = 0
         /\ SessionLeft("backoff", timer) = timer + 2 * Latency
  BY DEF SessionLeft

\* In a bring-up in time the no-IP watchdog is far from due.
LEMMA RoundInTime ==
  ASSUME ipAge \in Nat, ipAge < NoIpReboot, NoIpReboot \in Nat, EndRound
  PROVE  /\ sup' = "backoff" /\ link' = "Disconnected" /\ supTimer' = supBackoff
<1>1. ~RebootDue
  BY DEF RebootDue
<1> QED
  BY <1>1 DEF EndRound

\* The clocks of a bring-up, as the cases need them.
LEMMA OnTheWayTypes ==
  ASSUME TypeOK, TrialTypeOK, BoundsTypeOK
  PROVE  /\ supTimer \in Nat /\ mqTimer \in Nat /\ age \in Nat /\ ipAge \in Nat
         /\ misses \in Nat /\ stalls \in Nat /\ outages \in Nat
         /\ attempts \in Nat /\ failures \in Nat
         /\ started \in BOOLEAN /\ rejoin \in BOOLEAN /\ dropped \in BOOLEAN
         /\ lease \in BOOLEAN /\ healthy \in BOOLEAN /\ sup \in SupPcs /\ mq \in MqPcs
  BY Timings, TimersFit, TrialAssumption DEF TypeOK, TrialTypeOK, BoundsTypeOK

LEMMA WaitType ==
  ASSUME NEW limit \in Nat, NEW timer \in Nat, NEW again \in Nat, Latency \in Nat
  PROVE  Wait(limit, timer, again) \in Nat
<1>1. CASE Overdue(limit, timer)
  <2>1. Wait(limit, timer, again) = timer + again
    BY <1>1, WaitValue
  <2> QED
    BY <2>1
<1>2. CASE ~Overdue(limit, timer)
  BY <1>2, WaitValue
<1> QED
  BY <1>1, <1>2

LEMMA LeftTypes ==
  ASSUME WindowFits, NEW timer \in Nat, NEW pc, NEW begun
  PROVE  LinkLeft(pc, timer, begun) \in Nat /\ SessionLeft(pc, timer) \in Nat
<1>1. /\ Wait(JoinTimeout, timer, 0) \in Nat
      /\ Wait(JoinTimeout, timer, BackoffInitial + Latency) \in Nat
      /\ Wait(DhcpTimeout, timer, Latency) \in Nat
      /\ Wait(ConnectTimeout, timer, BackoffInitial + Latency) \in Nat
      /\ Wait(ConnectTimeout, timer, BackoffInitial + 2 * Latency) \in Nat
  <2>1. /\ JoinTimeout \in Nat /\ DhcpTimeout \in Nat /\ ConnectTimeout \in Nat
        /\ 0 \in Nat /\ Latency \in Nat /\ BackoffInitial + Latency \in Nat
        /\ BackoffInitial + 2 * Latency \in Nat
    BY WindowNumbers
  <2> QED
    BY <2>1, WaitType
<1>2. LinkLeft(pc, timer, begun) \in Nat
  BY <1>1, WindowNumbers DEF LinkLeft
<1>3. SessionLeft(pc, timer) \in Nat
  BY <1>1, WindowNumbers DEF SessionLeft
<1> QED
  BY <1>2, <1>3

\* A bring-up on its way is within the window.
LEMMA WithinWindow ==
  ASSUME WindowFits, TypeOK, TrialTypeOK, BoundsTypeOK, InWindow, mq # "serve"
  PROVE  age <= Window - 1 /\ age + Left <= Window - 1
<1>1. Left \in Nat
  <2>1. LinkLeft(sup, supTimer, started) \in Nat /\ SessionLeft(mq, mqTimer) \in Nat
    BY OnTheWayTypes, LeftTypes
  <2> QED
    BY <2>1 DEF Left
<1>2. age + Left <= Window - 1
  <2>1. 5 * Latency <= Window - 1
    BY WindowNumbers
  <2>2. age + Left <= IF misses = 0 THEN 5 * Latency ELSE Window - 1
    BY DEF InWindow
  <2> QED
    BY <1>1, <2>1, <2>2, OnTheWayTypes, WindowNumbers
<1> QED
  BY <1>1, <1>2, OnTheWayTypes, WindowNumbers

\* While the link is not up no session is tried.
LEMMA LinkFirst ==
  ASSUME CallsInOrder, sup \in {"start", "join", "backoff", "dhcp"}
  PROVE  mq = "link" /\ link # "Connected"
  BY DEF CallsInOrder

\* The supervisor's part of a step that takes no time: the calls of mqtt_task and
\* what it remembers stay as they are.
LEMMA LinkMoves ==
  ASSUME WindowFits, TypeOK, TrialTypeOK, BoundsTypeOK, OnTheWay,
         UNCHANGED <<mqVars, healthy, env, age, stall, rejoin>>,
         ipAge' <= age, dropped' = FALSE, CallsInOrder', misses' \in {misses, misses + 1},
         misses' = 0 => supBackoff' = BackoffInitial /\ attempts' <= 1,
         sup' = "start" /\ Overdue(JoinTimeout, supTimer') => misses' # 0,
         sup' = "join" /\ Overdue(JoinTimeout, supTimer') =>
           misses' # 0 /\ supBackoff' = BackoffInitial,
         sup' = "dhcp" /\ Overdue(DhcpTimeout, supTimer') => misses' # 0 /\ attempts' <= 1,
         sup' = "backoff" => misses' # 0,
         mq # "serve" =>
           age + (LinkLeft(sup', supTimer', started') + SessionLeft(mq, mqTimer))
             <= IF misses' = 0 THEN 5 * Latency ELSE Window - 1
  PROVE  OnTheWay'
<1>1. misses # 0 => misses' # 0
  BY OnTheWayTypes
<1>2. /\ mq' = mq /\ mqTimer' = mqTimer /\ mqBackoff' = mqBackoff /\ failures' = failures
      /\ age' = age
  BY DEF mqVars
<1>3. MissKept'
  <2>1. misses' = 0 => mqBackoff' = BackoffInitial /\ failures' = 0
    BY <1>1, <1>2 DEF OnTheWay, MissKept
  <2>2. /\ mq' \in {"tcp", "handshake"} /\ Overdue(ConnectTimeout, mqTimer') =>
             misses' # 0 /\ mqBackoff' = BackoffInitial /\ failures' = 0
        /\ mq' = "backoff" => misses' # 0
    BY <1>1, <1>2 DEF OnTheWay, MissKept, Overdue
  <2> QED
    BY <2>1, <2>2 DEF MissKept, Overdue
<1>4. InWindow'
  BY <1>2 DEF InWindow, Left
<1> QED
  BY <1>3, <1>4 DEF OnTheWay

\* The same of mqtt_task, once the link is up.
LEMMA SessionMoves ==
  ASSUME WindowFits, TypeOK, TrialTypeOK, BoundsTypeOK, OnTheWay,
         UNCHANGED <<supVars, link, rejoin, radio, env, ipAge, age, stall, misses>>,
         sup \in {"probe", "up"}, mq' = "serve" => healthy',
         mqBackoff' = mqBackoff \/ misses # 0, failures' = failures \/ misses # 0 \/ failures' = 0,
         mq' \in {"tcp", "handshake"} => mqTimer' = ConnectTimeout,
         mq' = "backoff" => misses # 0,
         mq' # "serve" =>
           age + (0 + SessionLeft(mq', mqTimer')) <= IF misses = 0 THEN 5 * Latency ELSE Window - 1
  PROVE  OnTheWay'
<1>1. /\ sup' = sup /\ supTimer' = supTimer /\ supBackoff' = supBackoff /\ started' = started
      /\ attempts' = attempts /\ link' = link /\ rejoin' = rejoin /\ station' = station
      /\ dropped' = dropped /\ lease' = lease /\ up' = up /\ misses' = misses
      /\ age' = age /\ ipAge' = ipAge /\ stall' = stall
  BY DEF supVars, radio, env
<1>2. CallsInOrder'
  BY <1>1 DEF OnTheWay, CallsInOrder
<1>3. ~Overdue(ConnectTimeout, ConnectTimeout)
  BY WindowNumbers DEF Overdue
<1>4. MissKept'
  <2>1. mq' \in {"tcp", "handshake"} => ~Overdue(ConnectTimeout, mqTimer')
    BY <1>3
  <2>2. misses' = 0 =>
          /\ supBackoff' = BackoffInitial /\ mqBackoff' = BackoffInitial
          /\ failures' = 0 /\ attempts' <= 1
    BY <1>1 DEF OnTheWay, MissKept
  <2>3. sup' \notin {"start", "join", "dhcp", "backoff"}
    BY <1>1
  <2> QED
    BY <1>1, <2>1, <2>2, <2>3 DEF MissKept, Overdue
<1>5. LinkLeft(sup', supTimer', started') = 0
  BY <1>1, LinkLeftAt
<1>6. InWindow'
  BY <1>1, <1>5 DEF InWindow, Left
<1> QED
  BY <1>2, <1>4, <1>6 DEF OnTheWay

\* The bring-up so far, which a step leaves where it is.
LEMMA LinkUp ==
  ASSUME CallsInOrder, mq # "link"
  PROVE  sup \in {"probe", "up"} /\ Reachable /\ link = "Connected"
  BY DEF CallsInOrder, Reachable, Services

LEMMA SessionWhere ==
  ASSUME WindowFits, TypeOK, TrialTypeOK, BoundsTypeOK, OnTheWay,
         sup \in {"probe", "up"}, mq # "serve"
  PROVE  age + SessionLeft(mq, mqTimer) <= IF misses = 0 THEN 5 * Latency ELSE Window - 1
<1>1. LinkLeft(sup, supTimer, started) = 0
  BY LinkLeftAt
<1>2. SessionLeft(mq, mqTimer) \in Nat
  BY OnTheWayTypes, LeftTypes
<1>3. Left = SessionLeft(mq, mqTimer)
  BY <1>1, <1>2 DEF Left
<1> QED
  BY <1>3 DEF OnTheWay, InWindow

\* A step of mqtt_task.
LEMMA SessionGoesOn ==
  ASSUME WindowFits, TypeOK, TrialTypeOK, BoundsTypeOK, OnTheWay, Mqtt, misses <= 1,
         UNCHANGED <<age, stall, misses>>
  PROVE  OnTheWay'
<1>1. CallsInOrder /\ MissKept
  BY DEF OnTheWay
<1>2. /\ supTimer \in Nat /\ mqTimer \in Nat /\ age \in Nat /\ misses \in Nat
      /\ failures \in Nat
  BY OnTheWayTypes
<1>3. PICK L \in Nat, W \in Nat, C \in Nat, B \in Nat :
        /\ L = Latency /\ W = Window /\ C = ConnectTimeout /\ B = BackoffInitial
        /\ L < C /\ 5 * L + C + B + L < W /\ 5 * L < W /\ B # 0
  BY WindowNumbers
<1>4. PICK budget \in Nat : budget = IF misses = 0 THEN 5 * Latency ELSE Window - 1
  BY <1>3
<1>5. CASE MqBackoffOver
  <2>1. /\ mq = "backoff" /\ mqTimer = 0 /\ mq' = "link"
        /\ UNCHANGED <<mqTimer, mqBackoff, failures, supVars, link, rejoin, healthy, radio, ipAge, env>>
    BY <1>5 DEF MqBackoffOver
  <2>2. sup \in {"probe", "up"} /\ misses # 0
    BY <1>1, <2>1, LinkUp DEF MissKept
  <2>3. age + (0 + 2 * Latency) <= budget
    BY <1>2, <1>3, <1>4, <2>1, <2>2, SessionWhere, SessionLeftAt
  <2> QED
    BY <1>4, <2>1, <2>2, <2>3, SessionMoves, SessionLeftAt
<1>6. CASE MqStart
  <2>1. /\ mq = "link" /\ link = "Connected" /\ mq' = "tcp" /\ mqTimer' = ConnectTimeout
        /\ UNCHANGED <<mqBackoff, failures, supVars, link, rejoin, radio, ipAge, env>>
    BY <1>6 DEF MqStart
  <2>2. sup \in {"probe", "up"}
    BY <1>1, <2>1 DEF CallsInOrder
  <2>3. SessionLeft(mq', mqTimer') = 2 * Latency
    <3>1. Wait(ConnectTimeout, ConnectTimeout, BackoffInitial + Latency) = Latency
      BY WindowNumbers, WaitStarts
    <3> QED
      BY <1>3, <2>1, <3>1, SessionLeftAt
  <2>4. age + (0 + 2 * Latency) <= budget
    BY <1>2, <1>3, <1>4, <2>1, <2>2, SessionWhere, SessionLeftAt
  <2> QED
    BY <1>4, <2>1, <2>2, <2>3, <2>4, SessionMoves
<1>7. CASE MqStepOk
  <2>1. /\ mq \in {"tcp", "handshake"}
        /\ mq = "tcp" => mq' = "handshake" /\ mqTimer' = ConnectTimeout
        /\ mq = "handshake" => mq' = "subscribe" /\ mqTimer' = mqTimer
        /\ UNCHANGED <<mqBackoff, failures, supVars, link, rejoin, healthy, radio, ipAge, env>>
    BY <1>7 DEF MqStepOk
  <2>2. sup \in {"probe", "up"}
    BY <1>1, <2>1, LinkUp
  <2>3. age + (0 + SessionLeft(mq', mqTimer')) <= budget
    <3>1. CASE mq = "tcp"
      <4>1. SessionLeft(mq', mqTimer') = Latency
        <5>1. SessionLeft("handshake", ConnectTimeout)
                = Wait(ConnectTimeout, ConnectTimeout, BackoffInitial + 2 * Latency)
          BY SessionLeftAt
        <5>2. Wait(ConnectTimeout, ConnectTimeout, BackoffInitial + 2 * Latency) = Latency
          BY <1>3, WaitStarts
        <5> QED
          BY <2>1, <3>1, <5>1, <5>2
      <4>2. PICK w \in Nat : w = Wait(ConnectTimeout, mqTimer, BackoffInitial + Latency)
        <5>1. Wait(ConnectTimeout, mqTimer, BackoffInitial + Latency) \in Nat
          <6>1. ConnectTimeout \in Nat /\ BackoffInitial + Latency \in Nat /\ Latency \in Nat
            BY <1>3
          <6> QED
            BY ONLY <1>2, <6>1, WaitType
        <5> QED
          BY <5>1
      <4>3. age + (w + Latency) <= budget
        <5>1. age + SessionLeft(mq, mqTimer) <= budget
          BY <1>4, <2>2, <3>1, SessionWhere
        <5> QED
          BY <3>1, <4>2, <5>1, SessionLeftAt
      <4>4. Latency \in Nat /\ budget \in Nat /\ age \in Nat
        BY <1>2, <1>3
      <4>5. age + (0 + Latency) <= budget
        BY ONLY w \in Nat, <4>3, <4>4
      <4> QED
        BY <4>1, <4>5
    <3>2. CASE mq = "handshake"
      <4>1. SessionLeft(mq', mqTimer') = 0
        BY <2>1, <3>2, SessionLeftAt
      <4>2. SessionLeft(mq, mqTimer) \in Nat
        BY <1>2, LeftTypes
      <4>3. age + SessionLeft(mq, mqTimer) <= budget
        BY <1>4, <2>2, <3>2, SessionWhere
      <4> QED
        BY <1>2, <4>1, <4>2, <4>3
    <3> QED
      BY <2>1, <3>1, <3>2
  <2> QED
    BY <1>4, <2>1, <2>2, <2>3, SessionMoves
<1>8. CASE MqSubscribed
  <2>1. /\ mq = "subscribe" /\ mq' = "serve" /\ healthy' = TRUE /\ failures' = 0
        /\ UNCHANGED <<mqTimer, mqBackoff, supVars, link, rejoin, radio, ipAge, env>>
    BY <1>8 DEF MqSubscribed
  <2>2. sup \in {"probe", "up"}
    BY <1>1, <2>1, LinkUp
  <2> QED
    BY <2>1, <2>2, SessionMoves
<1>9. CASE MqAttemptFails
  <2>1. /\ mq \in {"tcp", "handshake", "subscribe"}
        /\ ~Reachable \/ (mq \in MqTimed /\ mqTimer = 0)
        /\ NoteFailure /\ MqRest(mqBackoff)
        /\ UNCHANGED <<supVars, link, healthy, radio, ipAge, env>>
    BY <1>9 DEF MqAttemptFails
  <2>2. sup \in {"probe", "up"} /\ Reachable
    BY <1>1, <2>1, LinkUp
  <2>3. mq \in {"tcp", "handshake"} /\ mqTimer = 0
    BY <2>1, <2>2 DEF MqTimed
  <2>4. Overdue(ConnectTimeout, mqTimer)
    BY <1>2, <1>3, <2>3, WaitValue
  <2>5. misses # 0 /\ mqBackoff = BackoffInitial /\ failures = 0
    BY <1>1, <2>3, <2>4 DEF MissKept
  <2>6. mq' = "backoff" /\ mqTimer' = BackoffInitial /\ rejoin' = rejoin
    BY <2>1, <2>5, WindowNumbers DEF MqRest, NoteFailure
  <2>7. SessionLeft(mq, mqTimer) = BackoffInitial + 2 * Latency
    BY <1>2, <1>3, <2>3, <2>4, SessionLeftAt, WaitValue
  <2>8. SessionLeft(mq', mqTimer') = BackoffInitial + 2 * Latency
    BY <2>6, SessionLeftAt
  <2>9. age + (0 + (BackoffInitial + 2 * Latency)) <= budget
    BY <1>2, <1>3, <1>4, <2>2, <2>3, <2>7, SessionWhere
  <2> QED
    BY <1>4, <2>1, <2>2, <2>5, <2>6, <2>8, <2>9, SessionMoves
<1>10. ~MqLost
  BY <1>1, LinkUp DEF MqLost
<1> QED
  BY <1>5, <1>6, <1>7, <1>8, <1>9, <1>10 DEF Mqtt

LEMMA LinkWhere ==
  ASSUME WindowFits, TypeOK, TrialTypeOK, BoundsTypeOK, OnTheWay,
         sup \in {"start", "join", "backoff", "dhcp"}
  PROVE  /\ mq = "link" /\ SessionLeft(mq, mqTimer) = 2 * Latency
         /\ age + (LinkLeft(sup, supTimer, started) + 2 * Latency)
              <= IF misses = 0 THEN 5 * Latency ELSE Window - 1
<1>1. mq = "link"
  BY LinkFirst DEF OnTheWay
<1>2. SessionLeft(mq, mqTimer) = 2 * Latency
  BY <1>1, SessionLeftAt
<1> QED
  BY <1>1, <1>2 DEF OnTheWay, InWindow, Left

\* A step of connection_task.
LEMMA LinkGoesOn ==
  ASSUME WindowFits, TypeOK, TrialTypeOK, BoundsTypeOK, OnTheWay, Supervisor,
         UNCHANGED <<age, stall>>, misses' <= 1,
         misses' = misses + (IF sup = "start" /\ sup' = "backoff" THEN 1 ELSE 0)
  PROVE  OnTheWay'
<1>1. CallsInOrder /\ MissKept
  BY DEF OnTheWay
<1>2. /\ supTimer \in Nat /\ mqTimer \in Nat /\ age \in Nat /\ misses \in Nat
      /\ ipAge \in Nat /\ attempts \in Nat /\ started \in BOOLEAN
  BY OnTheWayTypes
<1>3. PICK L \in Nat, W \in Nat, J \in Nat, D \in Nat, B \in Nat :
        /\ L = Latency /\ W = Window /\ J = JoinTimeout /\ D = DhcpTimeout /\ B = BackoffInitial
        /\ L < J /\ L < D /\ 5 * L + J + B < W /\ 5 * L + D < W /\ 5 * L < W /\ B # 0
  <2>1. /\ Latency \in Nat /\ Window \in Nat /\ JoinTimeout \in Nat /\ DhcpTimeout \in Nat
        /\ BackoffInitial \in Nat /\ BackoffInitial # 0
        /\ Latency < JoinTimeout /\ Latency < DhcpTimeout
        /\ 5 * Latency + JoinTimeout + BackoffInitial < Window
        /\ 5 * Latency + DhcpTimeout < Window
    BY WindowNumbers
  <2>2. 5 * Latency < Window
    BY <2>1
  <2> QED
    BY <2>1, <2>2, Zenon
<1>4. PICK budget \in Nat : budget = IF misses = 0 THEN 5 * Latency ELSE Window - 1
  BY <1>3
<1>5. sup # "start" \/ sup' # "backoff" => misses' = misses
  BY <1>2
<1>6. sup \in {"start", "join", "backoff", "dhcp"} => ipAge < NoIpReboot /\ NoIpReboot \in Nat
  <2>1. sup \in {"start", "join", "backoff", "dhcp"} => age <= Window - 1
    BY LinkWhere, WithinWindow DEF OnTheWay
  <2>2. ipAge <= age
    BY <1>1 DEF CallsInOrder
  <2> QED
    BY <1>2, <2>1, <2>2, WindowNumbers
<1>7. /\ Wait(JoinTimeout, JoinTimeout, BackoffInitial + Latency) = Latency
      /\ Wait(JoinTimeout, JoinTimeout, 0) = Latency
      /\ Wait(DhcpTimeout, DhcpTimeout, Latency) = Latency
      /\ ~Overdue(JoinTimeout, JoinTimeout) /\ ~Overdue(DhcpTimeout, DhcpTimeout)
  BY WindowNumbers, WaitStarts
<1>8. dropped = FALSE /\ stall = 0 /\ up = Services /\ rejoin = FALSE /\ ipAge <= age
  BY <1>1 DEF CallsInOrder
<1>9. /\ sup \in {"start", "join", "backoff"} => station = "off" /\ ~lease /\ link # "Connected"
      /\ sup = "dhcp" => station = "live" /\ link # "Connected"
      /\ sup = "start" => ~started
      /\ sup = "join" => started
  BY <1>1 DEF CallsInOrder
<1>10. CASE BackoffOver
  <2>1. /\ sup = "backoff" /\ supTimer = 0 /\ link' = "Connecting"
        /\ IF started THEN LeaveOrJoin ELSE sup' = "start" /\ supTimer' = JoinTimeout
        /\ UNCHANGED <<supBackoff, started, attempts, rejoin, mqVars, healthy, radio, ipAge, env>>
    BY <1>10 DEF BackoffOver
  <2>2. /\ started => sup' = "join" /\ supTimer' = JoinTimeout
        /\ ~started => sup' = "start" /\ supTimer' = JoinTimeout
    BY <1>9, <2>1 DEF LeaveOrJoin, Associated
  <2>3. misses # 0 /\ misses' = misses /\ mq = "link"
    BY <1>1, <1>5, <2>1, LinkWhere DEF MissKept
  <2>4. LinkLeft(sup', supTimer', started') <= LinkLeft(sup, supTimer, started)
        /\ LinkLeft(sup', supTimer', started') \in Nat
        /\ LinkLeft(sup, supTimer, started) \in Nat
    BY <1>2, <1>3, <1>7, <2>1, <2>2, LinkLeftAt, LeftTypes
  <2>5. age + (LinkLeft(sup', supTimer', started') + 2 * Latency) <= budget
    BY <1>2, <1>3, <1>4, <2>1, <2>4, LinkWhere
  <2>6. CallsInOrder'
    BY <1>1, <1>8, <1>9, <2>1, <2>2, <2>3 DEF CallsInOrder, mqVars, radio, env
  <2>7. ~Overdue(JoinTimeout, supTimer') /\ ipAge' <= age /\ dropped' = FALSE
    BY <1>7, <1>8, <2>1, <2>2 DEF radio
  <2>8. sup' \in {"join", "start"}
    BY <2>2
  <2>9. UNCHANGED <<mqVars, healthy, env, age, stall, rejoin>>
    BY <2>1
  <2> QED
    BY <1>4, <2>1, <2>3, <2>5, <2>6, <2>7, <2>8, <2>9, LinkMoves, LinkWhere

<1>11. CASE StartOk
  <2>1. /\ sup = "start" /\ started' = TRUE /\ LeaveOrJoin
        /\ UNCHANGED <<supBackoff, attempts, link, rejoin, mqVars, healthy, radio, ipAge, env>>
    BY <1>11 DEF StartOk
  <2>2. sup' = "join" /\ supTimer' = JoinTimeout
    BY <1>9, <2>1 DEF LeaveOrJoin, Associated
  <2>3. misses' = misses /\ mq = "link"
    BY <1>5, <2>1, <2>2, LinkWhere
  <2>4. LinkLeft(sup', supTimer', started') = 2 * Latency
    BY <1>3, <1>7, <2>2, LinkLeftAt
  <2>5. LinkLeft(sup, supTimer, started) \in Nat /\ LinkLeft(sup, supTimer, started) >= 2 * Latency
    <3>1. PICK w \in Nat : w = Wait(JoinTimeout, supTimer, 0)
      BY <1>2, <1>3, WaitType
    <3> QED
      BY <1>3, <2>1, <3>1, LinkLeftAt
  <2>6. age + (LinkLeft(sup', supTimer', started') + 2 * Latency) <= budget
    BY <1>2, <1>3, <1>4, <2>1, <2>4, <2>5, LinkWhere
  <2>7. CallsInOrder'
    BY <1>1, <1>8, <1>9, <2>1, <2>2, <2>3 DEF CallsInOrder, mqVars, radio, env
  <2>8. ~Overdue(JoinTimeout, supTimer') /\ ipAge' <= age /\ dropped' = FALSE
    BY <1>7, <1>8, <2>1, <2>2 DEF radio
  <2>9. misses' = 0 => supBackoff' = BackoffInitial /\ attempts' <= 1
    BY <1>1, <2>1, <2>3 DEF MissKept
  <2>10. UNCHANGED <<mqVars, healthy, env, age, stall, rejoin>>
    BY <2>1
  <2> QED
    BY <1>4, <2>1, <2>2, <2>3, <2>6, <2>7, <2>8, <2>9, <2>10, LinkMoves, LinkWhere
<1>12. CASE StartFails
  <2>1. /\ sup = "start" /\ EndRound
        /\ UNCHANGED <<started, attempts, rejoin, mqVars, healthy, radio, ipAge, env>>
    BY <1>12 DEF StartFails
  <2>2. sup' = "backoff" /\ link' = "Disconnected" /\ supTimer' = supBackoff
    BY <1>2, <1>6, <2>1, RoundInTime
  <2>3. misses' = misses + 1 /\ misses = 0 /\ misses' = 1 /\ mq = "link"
    BY <1>2, <2>1, <2>2, LinkWhere
  <2>4. supBackoff = BackoffInitial /\ started = FALSE
    BY <1>1, <1>2, <1>9, <2>1, <2>3 DEF MissKept
  <2>5. LinkLeft(sup', supTimer', started') = BackoffInitial + 3 * Latency
    BY <2>1, <2>2, <2>4, LinkLeftAt
  <2>6. age <= 5 * Latency - 4 * Latency
    <3>1. LinkLeft(sup, supTimer, started) \in Nat /\ LinkLeft(sup, supTimer, started) >= 2 * Latency
      <4>1. PICK w \in Nat : w = Wait(JoinTimeout, supTimer, 0)
        BY <1>2, <1>3, WaitType
      <4> QED
        BY <1>3, <2>1, <4>1, LinkLeftAt
    <3>2. age + (LinkLeft(sup, supTimer, started) + 2 * Latency) <= 5 * Latency
      BY <2>1, <2>3, LinkWhere
    <3> QED
      BY <1>2, <1>3, <3>1, <3>2
  <2>7. age + (LinkLeft(sup', supTimer', started') + 2 * Latency) <= Window - 1
    BY <1>2, <1>3, <2>5, <2>6
  <2>8. CallsInOrder'
    BY <1>1, <1>8, <1>9, <2>1, <2>2, <2>3 DEF CallsInOrder, mqVars, radio, env
  <2>9. ipAge' <= age /\ dropped' = FALSE /\ misses' # 0 /\ misses' \in {misses, misses + 1}
    BY <1>8, <2>1, <2>3 DEF radio
  <2>10. UNCHANGED <<mqVars, healthy, env, age, stall, rejoin>>
    BY <2>1
  <2> QED
    BY <2>1, <2>2, <2>7, <2>8, <2>9, <2>10, LinkMoves, LinkWhere
<1>13. ~LeaveOk /\ ~LeaveTimedOut /\ ~DhcpRejoin /\ ~LinkDropped /\ ~UpRejoin /\ ~Reboot
  BY <1>1, <1>8 DEF CallsInOrder, LeaveOk, LeaveTimedOut, DhcpRejoin, LinkDropped, UpRejoin, Reboot
<1>14. CASE JoinOk
  <2>1. /\ sup = "join" /\ sup' = "dhcp" /\ supTimer' = DhcpTimeout /\ attempts' = 1
        /\ station' = "live" /\ dropped' = FALSE
        /\ UNCHANGED <<supBackoff, started, link, rejoin, mqVars, healthy, lease, ipAge, env>>
    BY <1>14 DEF JoinOk
  <2>2. misses' = misses /\ mq = "link"
    BY <1>5, <2>1, LinkWhere
  <2>3. LinkLeft(sup', supTimer', started') = Latency
    BY <1>7, <2>1, LinkLeftAt
  <2>4. LinkLeft(sup, supTimer, started) \in Nat /\ LinkLeft(sup, supTimer, started) >= Latency
    <3>1. PICK w \in Nat : w = Wait(JoinTimeout, supTimer, BackoffInitial + Latency)
      <4>1. BackoffInitial + Latency \in Nat
        BY <1>3
      <4> QED
        BY <1>2, <1>3, <4>1, WaitType
    <3> QED
      BY <1>3, <2>1, <3>1, LinkLeftAt
  <2>5. age + (LinkLeft(sup', supTimer', started') + 2 * Latency) <= budget
    BY <1>2, <1>3, <1>4, <2>1, <2>3, <2>4, LinkWhere
  <2>6. CallsInOrder'
    BY <1>1, <1>8, <1>9, <2>1, <2>2 DEF CallsInOrder, mqVars, env
  <2>7. ~Overdue(DhcpTimeout, supTimer') /\ ipAge' <= age
    BY <1>7, <1>8, <2>1
  <2>8. misses' = 0 => supBackoff' = BackoffInitial /\ attempts' <= 1
    BY <1>1, <2>1, <2>2 DEF MissKept
  <2>9. UNCHANGED <<mqVars, healthy, env, age, stall, rejoin>>
    BY <2>1
  <2> QED
    BY <1>4, <2>1, <2>2, <2>5, <2>6, <2>7, <2>8, <2>9, LinkMoves, LinkWhere
<1>15. CASE JoinFails
  <2>1. /\ sup = "join" /\ EndRound
        /\ "ap" \notin up \/ station = "wedged" \/ supTimer = 0
        /\ UNCHANGED <<started, attempts, rejoin, mqVars, healthy, radio, ipAge, env>>
    BY <1>15 DEF JoinFails
  <2>2. sup' = "backoff" /\ link' = "Disconnected" /\ supTimer' = supBackoff
    BY <1>2, <1>6, <2>1, RoundInTime
  <2>3. supTimer = 0 /\ Overdue(JoinTimeout, supTimer)
    BY <1>2, <1>3, <1>8, <1>9, <2>1, WaitValue DEF Services
  <2>4. misses' = misses /\ mq = "link" /\ misses # 0 /\ supBackoff = BackoffInitial
    BY <1>1, <1>5, <2>1, <2>3, LinkWhere DEF MissKept
  <2>5. LinkLeft(sup', supTimer', started') = BackoffInitial + 2 * Latency
    BY <1>9, <2>1, <2>2, <2>4, LinkLeftAt
  <2>6. LinkLeft(sup, supTimer, started) = BackoffInitial + 2 * Latency
    <3>1. Wait(JoinTimeout, supTimer, BackoffInitial + Latency) = BackoffInitial + Latency
      BY <1>3, <2>3, WaitValue
    <3> QED
      BY <1>3, <2>1, <3>1, LinkLeftAt
  <2>7. age + (LinkLeft(sup', supTimer', started') + 2 * Latency) <= budget
    BY <1>4, <2>1, <2>5, <2>6, LinkWhere
  <2>8. CallsInOrder'
    BY <1>1, <1>8, <1>9, <2>1, <2>2, <2>4 DEF CallsInOrder, mqVars, radio, env
  <2>9. ipAge' <= age /\ dropped' = FALSE
    BY <1>8, <2>1 DEF radio
  <2>10. UNCHANGED <<mqVars, healthy, env, age, stall, rejoin>>
    BY <2>1
  <2> QED
    BY <1>4, <2>1, <2>2, <2>4, <2>7, <2>8, <2>9, <2>10, LinkMoves, LinkWhere

<1>16. CASE DhcpOk
  <2>1. /\ sup = "dhcp" /\ lease /\ sup' = "probe" /\ supBackoff' = BackoffInitial
        /\ link' = "Connected" /\ ipAge' = 0
        /\ UNCHANGED <<supTimer, started, attempts, rejoin, mqVars, healthy, radio, env>>
    BY <1>16 DEF DhcpOk
  <2>2. misses' = misses /\ mq = "link" /\ SessionLeft(mq, mqTimer) = 2 * Latency
    BY <1>5, <2>1, LinkWhere
  <2>3. LinkLeft(sup', supTimer', started') = 0
    BY <2>1, LinkLeftAt
  <2>4. LinkLeft(sup, supTimer, started) \in Nat
    BY <1>2, LeftTypes
  <2>5. age + (LinkLeft(sup', supTimer', started') + 2 * Latency) <= budget
    BY <1>2, <1>3, <1>4, <2>1, <2>3, <2>4, LinkWhere
  <2>6. CallsInOrder'
    BY <1>1, <1>2, <1>8, <1>9, <2>1, <2>2 DEF CallsInOrder, mqVars, radio, env
  <2>7. ipAge' <= age /\ dropped' = FALSE
    BY <1>2, <1>8, <2>1 DEF radio
  <2>8. misses' = 0 => supBackoff' = BackoffInitial /\ attempts' <= 1
    BY <1>1, <2>1, <2>2 DEF MissKept
  <2>9. UNCHANGED <<mqVars, healthy, env, age, stall, rejoin>>
    BY <2>1
  <2> QED
    BY <1>4, <2>1, <2>2, <2>5, <2>6, <2>7, <2>8, <2>9, LinkMoves
<1>17. CASE DhcpTimedOut
  <2>1. /\ sup = "dhcp" /\ ~lease /\ supTimer = 0
        /\ UNCHANGED <<started, rejoin, mqVars, healthy, radio, ipAge, env>>
    BY <1>17 DEF DhcpTimedOut
  <2>2. Overdue(DhcpTimeout, supTimer)
    BY <1>2, <1>3, <2>1, WaitValue
  <2>3. misses # 0 /\ attempts <= 1 /\ mq = "link"
    BY <1>1, <2>1, <2>2, LinkWhere DEF MissKept
  <2>4. /\ supTimer' = DhcpTimeout /\ UNCHANGED <<sup, supBackoff, link>>
    BY <1>2, <1>17, <2>3, WindowNumbers DEF DhcpTimedOut
  <2>5. misses' = misses
    BY <1>5, <2>1
  <2>6. LinkLeft(sup', supTimer', started') = Latency
    BY <1>7, <2>1, <2>4, LinkLeftAt
  <2>7. LinkLeft(sup, supTimer, started) = Latency
    BY <1>3, <2>1, <2>2, LinkLeftAt, WaitValue
  <2>8. age + (LinkLeft(sup', supTimer', started') + 2 * Latency) <= budget
    BY <1>4, <2>1, <2>6, <2>7, LinkWhere
  <2>9. CallsInOrder'
    BY <1>1, <1>8, <1>9, <2>1, <2>3, <2>4 DEF CallsInOrder, mqVars, radio, env
  <2>10. ~Overdue(DhcpTimeout, supTimer') /\ ipAge' <= age /\ dropped' = FALSE
    BY <1>7, <1>8, <2>1, <2>4 DEF radio
  <2>11. UNCHANGED <<mqVars, healthy, env, age, stall, rejoin>>
    BY <2>1
  <2> QED
    BY <1>4, <2>1, <2>3, <2>4, <2>5, <2>8, <2>9, <2>10, <2>11, LinkMoves, LinkWhere
<1>18. CASE ProbeDone
  <2>1. /\ sup = "probe" /\ sup' = "up"
        /\ UNCHANGED <<supTimer, supBackoff, started, attempts, link, rejoin, mqVars, healthy,
                       radio, ipAge, env>>
    BY <1>18 DEF ProbeDone
  <2>2. misses' = misses
    BY <1>5, <2>1
  <2>3. LinkLeft(sup', supTimer', started') = 0
    BY <2>1, LinkLeftAt
  <2>4. SessionLeft(mq, mqTimer) \in Nat
    BY <1>2, LeftTypes
  <2>5. mq # "serve" =>
          age + (LinkLeft(sup', supTimer', started') + SessionLeft(mq, mqTimer)) <= budget
    BY <1>4, <2>1, <2>3, <2>4, SessionWhere
  <2>6. CallsInOrder'
    BY <1>1, <2>1 DEF CallsInOrder, mqVars, radio, env
  <2>7. ipAge' <= age /\ dropped' = FALSE
    BY <1>8, <2>1 DEF radio
  <2>8. misses' = 0 => supBackoff' = BackoffInitial /\ attempts' <= 1
    BY <1>1, <2>1, <2>2 DEF MissKept
  <2>9. UNCHANGED <<mqVars, healthy, env, age, stall, rejoin>>
    BY <2>1
  <2> QED
    BY <1>4, <2>1, <2>2, <2>5, <2>6, <2>7, <2>8, <2>9, LinkMoves
<1> QED
  BY <1>10, <1>11, <1>12, <1>13, <1>14, <1>15, <1>16, <1>17, <1>18 DEF Supervisor

\* The services answer or stay as they are.
LEMMA SurroundingsKeep ==
  ASSUME WindowFits, TypeOK, TrialTypeOK, BoundsTypeOK, OnTheWay, Environment, outages' = 0,
         UNCHANGED <<age, stall, misses>>
  PROVE  OnTheWay'
<1>1. CallsInOrder /\ MissKept /\ InWindow
  BY DEF OnTheWay
<1>2. ~Outage
  BY OnTheWayTypes DEF Outage
<1>3. up = Services
  BY <1>1 DEF CallsInOrder
<1>4. station = "off" \/ station = "live"
  BY <1>1 DEF CallsInOrder
<1>5. Leased
  <2>1. ~LeaseExpires
    BY <1>3, <1>4 DEF LeaseExpires, Services
  <2>2. \A s \in Services : ~ServiceUp(s) /\ ~ServiceDown(s)
    BY <1>2, <1>3 DEF ServiceUp, ServiceDown
  <2>3. ~TrafficStops /\ \A state \in {"off", "wedged"} : ~RadioFails(state)
    BY <1>2 DEF TrafficStops, RadioFails
  <2> QED
    BY <2>1, <2>2, <2>3 DEF Environment
<1>6. /\ station = "live" /\ ~lease /\ lease' = TRUE
      /\ UNCHANGED <<supVars, link, rejoin, mqVars, healthy, station, dropped, ipAge, env>>
  BY <1>5 DEF Leased
<1>7. sup = "dhcp"
  BY <1>1, <1>6 DEF CallsInOrder
<1>8. /\ UNCHANGED <<sup, supTimer, supBackoff, started, attempts, mq, mqTimer, mqBackoff, failures>>
      /\ UNCHANGED <<link, rejoin, healthy, station, dropped, ipAge, up, age, stall, misses>>
  BY <1>6 DEF supVars, mqVars, env
<1>9. CallsInOrder'
  BY <1>1, <1>7, <1>8 DEF CallsInOrder
<1>10. MissKept'
  BY <1>1, <1>8 DEF MissKept, Overdue
<1>11. InWindow'
  <2>1. Left' = Left
    BY <1>8 DEF Left
  <2> QED
    BY <1>1, <1>8, <2>1 DEF InWindow
<1> QED
  BY <1>9, <1>10, <1>11 DEF OnTheWay

\* A tick of a wait: it is late as it was before, or gets late, or the answer may
\* still come in time.
LEMMA WaitTicks ==
  ASSUME NEW limit \in Nat, NEW timer \in Nat, timer > 0, NEW again \in Nat,
         Latency \in Nat
  PROVE  /\ Overdue(limit, timer) =>
              /\ limit - timer # Latency /\ Overdue(limit, timer - 1)
              /\ Wait(limit, timer, again) = Wait(limit, timer - 1, again) + 1
         /\ limit - timer = Latency =>
              /\ ~Overdue(limit, timer) /\ Wait(limit, timer, again) = 0
              /\ Wait(limit, timer - 1, again) = (limit - Latency - 1) + again
         /\ ~Overdue(limit, timer) /\ limit - timer # Latency =>
              /\ ~Overdue(limit, timer - 1)
              /\ Wait(limit, timer, again) = Wait(limit, timer - 1, again) + 1
<1>1. timer - 1 \in Nat
  OBVIOUS
<1>2. CASE Overdue(limit, timer)
  <2>1. Wait(limit, timer, again) = timer + again /\ limit - timer > Latency
    BY <1>2, WaitValue
  <2>2. Overdue(limit, timer - 1)
    BY <1>1, <2>1, WaitValue
  <2>3. Wait(limit, timer - 1, again) = (timer - 1) + again
    BY <1>1, <2>2, WaitValue
  <2> QED
    BY <1>1, <1>2, <2>1, <2>2, <2>3
<1>3. CASE ~Overdue(limit, timer) /\ limit - timer = Latency
  <2>1. Wait(limit, timer, again) = 0
    BY <1>3, WaitValue
  <2>2. Overdue(limit, timer - 1)
    BY <1>1, <1>3, WaitValue
  <2>3. Wait(limit, timer - 1, again) = (timer - 1) + again
    BY <1>1, <2>2, WaitValue
  <2> QED
    BY <1>1, <1>3, <2>1, <2>3
<1>4. CASE ~Overdue(limit, timer) /\ limit - timer # Latency
  <2>1. Wait(limit, timer, again) = Latency - (limit - timer) /\ limit - timer < Latency
    BY <1>1, <1>4, WaitValue
  <2>2. ~Overdue(limit, timer - 1)
    BY <1>1, <2>1, WaitValue
  <2>3. Wait(limit, timer - 1, again) = Latency - (limit - (timer - 1))
    BY <1>1, <2>2, WaitValue
  <2> QED
    BY <1>1, <1>4, <2>1, <2>2, <2>3
<1> QED
  BY <1>2, <1>3, <1>4

\* In a tick at most one of the two tasks waits for an answer.
LEMMA LateLink ==
  ASSUME mq = "link"
  PROVE  /\ sup = "start" => Late = IF JoinTimeout - supTimer = Latency THEN 1 ELSE 0
         /\ sup = "join" => Late = IF JoinTimeout - supTimer = Latency THEN 1 ELSE 0
         /\ sup = "dhcp" => Late = IF DhcpTimeout - supTimer = Latency THEN 1 ELSE 0
         /\ sup = "backoff" => Late = 0
  BY DEF Late, Allowed, SupTimed, MqTimed

LEMMA LateSession ==
  ASSUME sup \in {"probe", "up"}
  PROVE  /\ mq = "tcp" => Late = IF ConnectTimeout - mqTimer = Latency THEN 1 ELSE 0
         /\ mq = "handshake" => Late = IF ConnectTimeout - mqTimer = Latency THEN 1 ELSE 0
         /\ mq = "subscribe" => Late = 1
         /\ mq \in {"backoff", "serve"} => Late = 0
  BY DEF Late, Allowed, SupTimed, MqTimed

\* What a tick leaves as it is.
LEMMA TickEffect ==
  ASSUME WindowFits, TypeOK, TrialTypeOK, BoundsTypeOK, OnTheWay, TrialTick
  PROVE  /\ CallsInOrder' /\ age' = age + 1 /\ misses' = misses + Late /\ ~Ready
         /\ UNCHANGED <<sup, supBackoff, started, attempts, mq, mqBackoff, failures>>
         /\ sup \in SupTimed => supTimer > 0 /\ supTimer' = supTimer - 1
         /\ sup \notin SupTimed => supTimer' = supTimer
         /\ mq \in MqTimed => mqTimer > 0 /\ mqTimer' = mqTimer - 1
         /\ mq \notin MqTimed => mqTimer' = mqTimer
<1>1. /\ Tick /\ Elapse /\ ~Ready /\ misses' = misses + Late /\ stall' = stall
  BY DEF TrialTick
<1>2. /\ age' = age + 1 /\ ipAge' = Least(ipAge + 1, NoIpReboot)
      /\ UNCHANGED <<sup, supBackoff, started, attempts, link, rejoin, mq, mqBackoff, failures,
                     healthy, station, dropped, lease, up>>
  BY <1>1 DEF Tick, Elapse, radio, env
<1>3. ipAge' <= age'
  BY <1>2, OnTheWayTypes, WindowNumbers DEF OnTheWay, CallsInOrder, Least
<1>4. CallsInOrder'
  BY <1>1, <1>2, <1>3 DEF OnTheWay, CallsInOrder
<1> QED
  BY <1>1, <1>2, <1>4 DEF Tick

LEMMA LinkTicks ==
  ASSUME WindowFits, TypeOK, TrialTypeOK, BoundsTypeOK, OnTheWay, TrialTick, misses' <= 1,
         sup \in {"start", "join", "dhcp", "backoff"}
  PROVE  OnTheWay'
<1>1. /\ CallsInOrder' /\ age' = age + 1 /\ misses' = misses + Late
      /\ UNCHANGED <<sup, supBackoff, started, attempts, mq, mqBackoff, failures>>
      /\ supTimer > 0 /\ supTimer' = supTimer - 1
  BY TickEffect DEF SupTimed
<1>2. /\ mq = "link" /\ mq' = "link"
      /\ age + (LinkLeft(sup, supTimer, started) + 2 * Latency)
           <= IF misses = 0 THEN 5 * Latency ELSE Window - 1
  BY <1>1, LinkWhere
<1>3. /\ supTimer \in Nat /\ age \in Nat /\ misses \in Nat /\ started \in BOOLEAN
      /\ supTimer - 1 \in Nat /\ 0 \in Nat
  BY <1>1, OnTheWayTypes
<1>4. /\ Latency \in Nat /\ Window \in Nat /\ JoinTimeout \in Nat /\ DhcpTimeout \in Nat
      /\ BackoffInitial \in Nat
      /\ 2 * Latency \in Nat /\ 3 * Latency \in Nat /\ 4 * Latency \in Nat
      /\ BackoffInitial + Latency \in Nat
      /\ 5 * Latency + (JoinTimeout - Latency + 0) < Window
      /\ 5 * Latency + (JoinTimeout - Latency + (BackoffInitial + Latency)) < Window
      /\ 5 * Latency + (DhcpTimeout - Latency + Latency) < Window
  BY WindowNumbers
<1>5. MissKept
  BY DEF OnTheWay
<1>6. SessionLeft(mq', mqTimer') = 2 * Latency
  BY <1>2, SessionLeftAt
\* What has to be shown of each wait.
<1>7. ASSUME age' + (LinkLeft(sup', supTimer', started') + 2 * Latency)
               <= IF misses' = 0 THEN 5 * Latency ELSE Window - 1,
             misses' = 0 => misses = 0,
             misses # 0 => misses' # 0,
             sup = "start" => (Overdue(JoinTimeout, supTimer') => misses' # 0),
             sup = "join" => (Overdue(JoinTimeout, supTimer') =>
               misses' # 0 /\ (Overdue(JoinTimeout, supTimer) \/ misses = 0)),
             sup = "dhcp" => (Overdue(DhcpTimeout, supTimer') =>
               misses' # 0 /\ (Overdue(DhcpTimeout, supTimer) \/ misses = 0))
      PROVE  OnTheWay'
  <2>1. MissKept'
    BY <1>1, <1>2, <1>5, <1>7 DEF MissKept, Overdue
  <2>2. InWindow'
    BY <1>6, <1>7 DEF InWindow, Left
  <2> QED
    BY <1>1, <2>1, <2>2 DEF OnTheWay
<1>8. CASE sup = "start"
  <2>1. PICK late \in {0, 1} : late = Late /\ (late = 1 <=> JoinTimeout - supTimer = Latency)
    BY <1>2, <1>8, LateLink
  <2>2. PICK w \in Nat, v \in Nat :
          w = Wait(JoinTimeout, supTimer, 0) /\ v = Wait(JoinTimeout, supTimer - 1, 0)
    BY <1>3, <1>4, WaitType
  <2>3. age + w + 4 * Latency <= IF misses = 0 THEN 5 * Latency ELSE Window - 1
    BY <1>2, <1>3, <1>4, <1>8, <2>2, LinkLeftAt
  <2>4. Overdue(JoinTimeout, supTimer) => misses # 0
    BY <1>5, <1>8 DEF MissKept
  <2>8. misses + late <= 1 /\ supTimer > 0
    BY <1>1, <2>1
  <2>5. /\ (age + 1) + v + 4 * Latency <= IF misses + late = 0 THEN 5 * Latency ELSE Window - 1
        /\ Overdue(JoinTimeout, supTimer - 1) => misses + late # 0
    <3>1. /\ Overdue(JoinTimeout, supTimer) =>
               JoinTimeout - supTimer # Latency /\ Overdue(JoinTimeout, supTimer - 1) /\ w = v + 1
          /\ JoinTimeout - supTimer = Latency =>
               ~Overdue(JoinTimeout, supTimer) /\ w = 0 /\ v = (JoinTimeout - Latency - 1) + (0)
          /\ ~Overdue(JoinTimeout, supTimer) /\ JoinTimeout - supTimer # Latency =>
               ~Overdue(JoinTimeout, supTimer - 1) /\ w = v + 1
      BY <1>3, <1>4, <2>2, <2>8, WaitTicks
    <3> QED
      BY <1>3, <1>4, <2>1, <2>3, <2>4, <2>8, <3>1
  <2>6. LinkLeft(sup', supTimer', started') = v + 2 * Latency
    BY <1>1, <1>8, <2>2, LinkLeftAt
  <2>7. age' + (LinkLeft(sup', supTimer', started') + 2 * Latency)
          <= IF misses' = 0 THEN 5 * Latency ELSE Window - 1
    BY <1>1, <1>3, <1>4, <2>1, <2>2, <2>5, <2>6
  <2> QED
    BY <1>1, <1>3, <1>7, <1>8, <2>1, <2>5, <2>7
<1>9. CASE sup = "join"
  <2>1. PICK late \in {0, 1} : late = Late /\ (late = 1 <=> JoinTimeout - supTimer = Latency)
    BY <1>2, <1>9, LateLink
  <2>2. PICK w \in Nat, v \in Nat :
          /\ w = Wait(JoinTimeout, supTimer, BackoffInitial + Latency)
          /\ v = Wait(JoinTimeout, supTimer - 1, BackoffInitial + Latency)
    BY <1>3, <1>4, WaitType
  <2>3. age + w + 3 * Latency <= IF misses = 0 THEN 5 * Latency ELSE Window - 1
    BY <1>2, <1>3, <1>4, <1>9, <2>2, LinkLeftAt
  <2>4. Overdue(JoinTimeout, supTimer) => misses # 0
    BY <1>5, <1>9 DEF MissKept
  <2>8. misses + late <= 1 /\ supTimer > 0
    BY <1>1, <2>1
  <2>5. /\ (age + 1) + v + 3 * Latency <= IF misses + late = 0 THEN 5 * Latency ELSE Window - 1
        /\ Overdue(JoinTimeout, supTimer - 1) =>
             misses + late # 0 /\ (Overdue(JoinTimeout, supTimer) \/ misses = 0)
    <3>1. /\ Overdue(JoinTimeout, supTimer) =>
               JoinTimeout - supTimer # Latency /\ Overdue(JoinTimeout, supTimer - 1) /\ w = v + 1
          /\ JoinTimeout - supTimer = Latency =>
               ~Overdue(JoinTimeout, supTimer) /\ w = 0 /\ v = (JoinTimeout - Latency - 1) + (BackoffInitial + Latency)
          /\ ~Overdue(JoinTimeout, supTimer) /\ JoinTimeout - supTimer # Latency =>
               ~Overdue(JoinTimeout, supTimer - 1) /\ w = v + 1
      BY <1>3, <1>4, <2>2, <2>8, WaitTicks
    <3> QED
      BY <1>3, <1>4, <2>1, <2>3, <2>4, <2>8, <3>1
  <2>6. LinkLeft(sup', supTimer', started') = v + Latency
    BY <1>1, <1>9, <2>2, LinkLeftAt
  <2>7. age' + (LinkLeft(sup', supTimer', started') + 2 * Latency)
          <= IF misses' = 0 THEN 5 * Latency ELSE Window - 1
    BY <1>1, <1>3, <1>4, <2>1, <2>2, <2>5, <2>6
  <2> QED
    BY <1>1, <1>3, <1>7, <1>9, <2>1, <2>5, <2>7
<1>10. CASE sup = "dhcp"
  <2>1. PICK late \in {0, 1} : late = Late /\ (late = 1 <=> DhcpTimeout - supTimer = Latency)
    BY <1>2, <1>10, LateLink
  <2>2. PICK w \in Nat, v \in Nat :
          w = Wait(DhcpTimeout, supTimer, Latency) /\ v = Wait(DhcpTimeout, supTimer - 1, Latency)
    BY <1>3, <1>4, WaitType
  <2>3. age + w + 2 * Latency <= IF misses = 0 THEN 5 * Latency ELSE Window - 1
    BY <1>2, <1>3, <1>4, <1>10, <2>2, LinkLeftAt
  <2>4. Overdue(DhcpTimeout, supTimer) => misses # 0
    BY <1>5, <1>10 DEF MissKept
  <2>8. misses + late <= 1 /\ supTimer > 0
    BY <1>1, <2>1
  <2>5. /\ (age + 1) + v + 2 * Latency <= IF misses + late = 0 THEN 5 * Latency ELSE Window - 1
        /\ Overdue(DhcpTimeout, supTimer - 1) =>
             misses + late # 0 /\ (Overdue(DhcpTimeout, supTimer) \/ misses = 0)
    <3>1. /\ Overdue(DhcpTimeout, supTimer) =>
               DhcpTimeout - supTimer # Latency /\ Overdue(DhcpTimeout, supTimer - 1) /\ w = v + 1
          /\ DhcpTimeout - supTimer = Latency =>
               ~Overdue(DhcpTimeout, supTimer) /\ w = 0 /\ v = (DhcpTimeout - Latency - 1) + (Latency)
          /\ ~Overdue(DhcpTimeout, supTimer) /\ DhcpTimeout - supTimer # Latency =>
               ~Overdue(DhcpTimeout, supTimer - 1) /\ w = v + 1
      BY <1>3, <1>4, <2>2, <2>8, WaitTicks
    <3> QED
      BY <1>3, <1>4, <2>1, <2>3, <2>4, <2>8, <3>1
  <2>6. LinkLeft(sup', supTimer', started') = v
    BY <1>1, <1>10, <2>2, LinkLeftAt
  <2>7. age' + (LinkLeft(sup', supTimer', started') + 2 * Latency)
          <= IF misses' = 0 THEN 5 * Latency ELSE Window - 1
    BY <1>1, <1>3, <1>4, <2>1, <2>2, <2>5, <2>6
  <2> QED
    BY <1>1, <1>3, <1>7, <1>10, <2>1, <2>5, <2>7
<1>11. CASE sup = "backoff"
  <2>1. Late = 0 /\ misses' = misses
    BY <1>1, <1>2, <1>3, <1>11, LateLink
  <2>2. age' + (LinkLeft(sup', supTimer', started') + 2 * Latency)
          <= IF misses' = 0 THEN 5 * Latency ELSE Window - 1
    <3>1. PICK rest \in {2 * Latency, 3 * Latency} :
            \A t : LinkLeft("backoff", t, started) = t + rest
      BY LinkLeftAt, <1>3
    <3>2. LinkLeft(sup, supTimer, started) = supTimer + rest
          /\ LinkLeft(sup', supTimer', started') = (supTimer - 1) + rest
      BY <1>1, <1>11, <3>1
    <3> QED
      BY <1>1, <1>2, <1>3, <1>4, <2>1, <3>2
  <2> QED
    BY <1>1, <1>3, <1>7, <1>11, <2>1, <2>2
<1> QED
  BY <1>8, <1>9, <1>10, <1>11

LEMMA SessionTicks ==
  ASSUME WindowFits, TypeOK, TrialTypeOK, BoundsTypeOK, OnTheWay, TrialTick, misses' <= 1,
         sup \in {"probe", "up"}
  PROVE  OnTheWay'
<1>1. /\ CallsInOrder' /\ age' = age + 1 /\ misses' = misses + Late
      /\ UNCHANGED <<sup, supBackoff, started, attempts, mq, mqBackoff, failures>>
      /\ mq \in {"tcp", "handshake", "backoff"} => mqTimer > 0 /\ mqTimer' = mqTimer - 1
      /\ mq # "link"
  <2>1. link = "Connected"
    BY DEF OnTheWay, CallsInOrder
  <2> QED
    BY <2>1, TickEffect DEF MqTimed, Ready
<1>2. mq # "serve" =>
        age + SessionLeft(mq, mqTimer) <= IF misses = 0 THEN 5 * Latency ELSE Window - 1
  BY SessionWhere
<1>3. /\ mqTimer \in Nat /\ age \in Nat /\ misses \in Nat /\ mq \in MqPcs
  BY OnTheWayTypes
<1>4. /\ Latency \in Nat /\ Window \in Nat /\ ConnectTimeout \in Nat /\ BackoffInitial \in Nat
      /\ BackoffInitial + Latency \in Nat /\ BackoffInitial + 2 * Latency \in Nat
      /\ 5 * Latency + ConnectTimeout + BackoffInitial + Latency < Window
      /\ ConnectTimeout > 0
  BY WindowNumbers
<1>5. MissKept
  BY DEF OnTheWay
<1>6. LinkLeft(sup', supTimer', started') = 0
  BY <1>1, LinkLeftAt
\* What has to be shown of each wait.
<1>7. ASSUME mq # "serve" => age' + (0 + SessionLeft(mq', mqTimer'))
               <= IF misses' = 0 THEN 5 * Latency ELSE Window - 1,
             misses' = 0 => misses = 0,
             mq = "backoff" => misses' # 0,
             mq \in {"tcp", "handshake"} => (Overdue(ConnectTimeout, mqTimer') =>
               misses' # 0 /\ (Overdue(ConnectTimeout, mqTimer) \/ misses = 0))
      PROVE  OnTheWay'
  <2>1. MissKept'
    BY <1>1, <1>5, <1>7 DEF MissKept, Overdue
  <2>2. InWindow'
    BY <1>1, <1>6, <1>7 DEF InWindow, Left
  <2> QED
    BY <1>1, <2>1, <2>2 DEF OnTheWay
<1>8. CASE mq = "tcp"
  <2>1. PICK late \in {0, 1} : late = Late /\ (late = 1 <=> ConnectTimeout - mqTimer = Latency)
    BY <1>8, LateSession
  <2>2. mqTimer - 1 \in Nat /\ misses + late <= 1 /\ mqTimer > 0
    BY <1>1, <1>3, <1>8, <2>1
  <2>3. PICK w \in Nat, v \in Nat :
          /\ w = Wait(ConnectTimeout, mqTimer, BackoffInitial + Latency)
          /\ v = Wait(ConnectTimeout, mqTimer - 1, BackoffInitial + Latency)
    BY <1>3, <1>4, <2>2, WaitType
  <2>4. age + (w + Latency) <= IF misses = 0 THEN 5 * Latency ELSE Window - 1
    BY <1>2, <1>8, <2>3, SessionLeftAt
  <2>5. Overdue(ConnectTimeout, mqTimer) => misses # 0
    BY <1>5, <1>8 DEF MissKept
  <2>6. /\ Overdue(ConnectTimeout, mqTimer) =>
             ConnectTimeout - mqTimer # Latency /\ Overdue(ConnectTimeout, mqTimer - 1) /\ w = v + 1
        /\ ConnectTimeout - mqTimer = Latency =>
             /\ ~Overdue(ConnectTimeout, mqTimer) /\ w = 0
             /\ v = (ConnectTimeout - Latency - 1) + (BackoffInitial + Latency)
        /\ ~Overdue(ConnectTimeout, mqTimer) /\ ConnectTimeout - mqTimer # Latency =>
             ~Overdue(ConnectTimeout, mqTimer - 1) /\ w = v + 1
    <3>1. /\ ConnectTimeout \in Nat /\ mqTimer \in Nat /\ mqTimer > 0 /\ Latency \in Nat
          /\ BackoffInitial + Latency \in Nat /\ BackoffInitial + 2 * Latency \in Nat
      BY <1>3, <1>4, <2>2
    <3> QED
      BY ONLY <2>3, <3>1, WaitTicks
  <2>7. /\ (age + 1) + (v + Latency) <= IF misses + late = 0 THEN 5 * Latency ELSE Window - 1
        /\ Overdue(ConnectTimeout, mqTimer - 1) =>
             misses + late # 0 /\ (Overdue(ConnectTimeout, mqTimer) \/ misses = 0)
    BY <1>3, <1>4, <2>1, <2>2, <2>4, <2>5, <2>6
  <2>8. SessionLeft(mq', mqTimer') = v + Latency
    BY <1>1, <1>8, <2>3, SessionLeftAt
  <2>9. age' + (0 + SessionLeft(mq', mqTimer'))
          <= IF misses' = 0 THEN 5 * Latency ELSE Window - 1
    BY <1>1, <1>3, <1>4, <2>1, <2>3, <2>7, <2>8
  <2> QED
    BY <1>1, <1>3, <1>7, <1>8, <2>1, <2>7, <2>9
<1>9. CASE mq = "handshake"
  <2>1. PICK late \in {0, 1} : late = Late /\ (late = 1 <=> ConnectTimeout - mqTimer = Latency)
    BY <1>9, LateSession
  <2>2. mqTimer - 1 \in Nat /\ misses + late <= 1 /\ mqTimer > 0
    BY <1>1, <1>3, <1>9, <2>1
  <2>3. PICK w \in Nat, v \in Nat :
          /\ w = Wait(ConnectTimeout, mqTimer, BackoffInitial + 2 * Latency)
          /\ v = Wait(ConnectTimeout, mqTimer - 1, BackoffInitial + 2 * Latency)
    BY <1>3, <1>4, <2>2, WaitType
  <2>4. age + w <= IF misses = 0 THEN 5 * Latency ELSE Window - 1
    BY <1>2, <1>9, <2>3, SessionLeftAt
  <2>5. Overdue(ConnectTimeout, mqTimer) => misses # 0
    BY <1>5, <1>9 DEF MissKept
  <2>6. /\ Overdue(ConnectTimeout, mqTimer) =>
             ConnectTimeout - mqTimer # Latency /\ Overdue(ConnectTimeout, mqTimer - 1) /\ w = v + 1
        /\ ConnectTimeout - mqTimer = Latency =>
             /\ ~Overdue(ConnectTimeout, mqTimer) /\ w = 0
             /\ v = (ConnectTimeout - Latency - 1) + (BackoffInitial + 2 * Latency)
        /\ ~Overdue(ConnectTimeout, mqTimer) /\ ConnectTimeout - mqTimer # Latency =>
             ~Overdue(ConnectTimeout, mqTimer - 1) /\ w = v + 1
    <3>1. /\ ConnectTimeout \in Nat /\ mqTimer \in Nat /\ mqTimer > 0 /\ Latency \in Nat
          /\ BackoffInitial + Latency \in Nat /\ BackoffInitial + 2 * Latency \in Nat
      BY <1>3, <1>4, <2>2
    <3> QED
      BY ONLY <2>3, <3>1, WaitTicks
  <2>7. /\ (age + 1) + v <= IF misses + late = 0 THEN 5 * Latency ELSE Window - 1
        /\ Overdue(ConnectTimeout, mqTimer - 1) =>
             misses + late # 0 /\ (Overdue(ConnectTimeout, mqTimer) \/ misses = 0)
    BY <1>3, <1>4, <2>1, <2>2, <2>4, <2>5, <2>6
  <2>8. SessionLeft(mq', mqTimer') = v
    BY <1>1, <1>9, <2>3, SessionLeftAt
  <2>9. age' + (0 + SessionLeft(mq', mqTimer'))
          <= IF misses' = 0 THEN 5 * Latency ELSE Window - 1
    BY <1>1, <1>3, <1>4, <2>1, <2>3, <2>7, <2>8
  <2> QED
    BY <1>1, <1>3, <1>7, <1>9, <2>1, <2>7, <2>9
<1>10. CASE mq = "subscribe"
  <2>1. misses = 0 /\ misses' = 1
    BY <1>1, <1>3, <1>10, LateSession
  <2>2. age <= 5 * Latency /\ SessionLeft(mq', mqTimer') = 0
    BY <1>1, <1>2, <1>3, <1>10, <2>1, SessionLeftAt
  <2>3. age' + (0 + SessionLeft(mq', mqTimer')) <= Window - 1
    BY <1>1, <1>3, <1>4, <2>2
  <2> QED
    BY <1>7, <1>10, <2>1, <2>3
<1>11. CASE mq = "backoff"
  <2>1. misses' = misses /\ misses # 0
    BY <1>1, <1>3, <1>5, <1>11, LateSession DEF MissKept
  <2>2. /\ SessionLeft(mq, mqTimer) = mqTimer + 2 * Latency
        /\ SessionLeft(mq', mqTimer') = (mqTimer - 1) + 2 * Latency
    BY <1>1, <1>11, SessionLeftAt
  <2>3. age' + (0 + SessionLeft(mq', mqTimer')) <= Window - 1
    BY <1>1, <1>2, <1>3, <1>4, <1>11, <2>1, <2>2
  <2> QED
    BY <1>7, <1>11, <2>1, <2>3
<1>12. CASE mq = "serve"
  <2>1. misses' = misses
    BY <1>1, <1>3, <1>12, LateSession
  <2> QED
    BY <1>7, <1>12, <2>1
<1> QED
  BY <1>1, <1>3, <1>8, <1>9, <1>10, <1>11, <1>12 DEF MqPcs

LEMMA OnTheWayStarts == WindowFits /\ TrialBootInit => OnTheWay
<1> SUFFICES ASSUME WindowFits, TrialBootInit PROVE OnTheWay
  OBVIOUS
<1>1. /\ sup = "start" /\ supTimer = JoinTimeout /\ supBackoff = BackoffInitial
      /\ started = FALSE /\ attempts = 0 /\ link = "Connecting" /\ rejoin = FALSE
      /\ mq = "link" /\ mqTimer = 0 /\ mqBackoff = BackoffInitial /\ failures = 0
      /\ station = "off" /\ dropped = FALSE /\ lease = FALSE /\ ipAge = 0 /\ up = Services
      /\ age = 0 /\ stall = 0 /\ misses = 0
  BY DEF TrialBootInit, Init, TrialInit
<1>2. CallsInOrder
  BY <1>1 DEF CallsInOrder
<1>3. Wait(JoinTimeout, JoinTimeout, 0) = Latency /\ ~Overdue(JoinTimeout, JoinTimeout)
  BY WindowNumbers, WaitStarts
<1>4. MissKept
  BY <1>1, <1>3 DEF MissKept
<1>5. Left = (Latency + 2 * Latency) + 2 * Latency
  BY <1>1, <1>3, LinkLeftAt, SessionLeftAt DEF Left
<1>6. InWindow
  BY <1>1, <1>5, WindowNumbers DEF InWindow
<1> QED
  BY <1>2, <1>4, <1>6 DEF OnTheWay

LEMMA OnTheWaySame ==
  ASSUME OnTheWay, UNCHANGED vars, UNCHANGED <<age, stall, misses>>
  PROVE  OnTheWay'
<1>1. /\ UNCHANGED <<sup, supTimer, supBackoff, started, attempts, mq, mqTimer, mqBackoff, failures>>
      /\ UNCHANGED <<link, rejoin, healthy, station, dropped, lease, ipAge, up>>
  BY DEF vars, supVars, mqVars, radio, env
<1>2. Left' = Left
  BY <1>1 DEF Left
<1>3. CallsInOrder'
  BY <1>1 DEF OnTheWay, CallsInOrder
<1>4. MissKept'
  BY <1>1 DEF OnTheWay, MissKept, Overdue
<1>5. InWindow'
  BY <1>1, <1>2 DEF OnTheWay, InWindow
<1> QED
  BY <1>3, <1>4, <1>5 DEF OnTheWay

\* Neither a miss nor a stall nor an outage is ever taken back.
LEMMA OneMissKept ==
  ASSUME TypeOK, BoundsTypeOK, [TrialNext]_allVars, OneMiss'
  PROVE  OneMiss
<1>1. misses \in Nat /\ stalls \in Nat /\ outages \in Nat
  BY Timings, TrialAssumption DEF TypeOK, BoundsTypeOK
<1>2. misses' \in Nat => misses <= misses'
  <2>1. Late \in Nat
    BY LateIsNat
  <2>2. \/ misses' = misses \/ misses' = misses + 0 \/ misses' = misses + 1
        \/ misses' = misses + Late
    BY DEF TrialNext, Network, SelfTestPoll, TrialTick, BeginStall, StallTick, WatchdogReset,
           allVars, busy
  <2> QED
    BY <1>1, <2>1, <2>2
<1>3. misses' \in Nat
  <2>1. Late \in Nat
    BY LateIsNat
  <2>2. \/ misses' = misses \/ misses' = misses + 0 \/ misses' = misses + 1
        \/ misses' = misses + Late
    BY DEF TrialNext, Network, SelfTestPoll, TrialTick, BeginStall, StallTick, WatchdogReset,
           allVars, busy
  <2> QED
    BY <1>1, <2>1, <2>2
<1>4. stalls' = stalls \/ stalls' = stalls + 1
  BY DEF TrialNext, Network, SelfTestPoll, TrialTick, BeginStall, StallTick, WatchdogReset,
         allVars, busy
<1>5. outages' = outages \/ outages' = outages + 1
  <2>1. CASE Network
    <3>1. ASSUME Supervisor PROVE outages' = outages
      BY <3>1 DEF Supervisor, BackoffOver, StartOk, StartFails, LeaveOk, LeaveTimedOut, JoinOk,
        JoinFails, DhcpOk, DhcpTimedOut, DhcpRejoin, ProbeDone, LinkDropped, UpRejoin, Reboot, env
    <3>2. ASSUME Mqtt PROVE outages' = outages
      BY <3>2 DEF Mqtt, MqBackoffOver, MqStart, MqStepOk, MqSubscribed, MqAttemptFails, MqLost, env
    <3>3. ASSUME Environment PROVE outages' = outages \/ outages' = outages + 1
      BY <3>3 DEF Environment, ServiceDown, ServiceUp, RadioFails, TrafficStops, Leased,
        LeaseExpires, Outage, env
    <3> QED
      BY <2>1, <3>1, <3>2, <3>3 DEF Network
  <2>2. CASE ~Network
    BY <2>2 DEF TrialNext, SelfTestPoll, TrialTick, Tick, BeginStall, StallTick, WatchdogReset,
      allVars, vars, env
  <2> QED
    BY <2>1, <2>2
<1> QED
  BY <1>1, <1>2, <1>3, <1>4, <1>5 DEF OneMiss

LEMMA BringUpKept ==
  ASSUME WindowFits, TypeOK, TrialTypeOK, BoundsTypeOK, BringUp, [TrialNext]_allVars
  PROVE  BringUp'
<1> SUFFICES ASSUME test' = "polling", OneMiss' PROVE OnTheWay'
  BY DEF BringUp
<1>1. OneMiss
  BY OneMissKept
<1>2. test = "polling"
  BY DEF TrialNext, Network, SelfTestPoll, Poll, TrialTick, Elapse, BeginStall, StallTick,
         WatchdogReset, WatchdogFires, allVars, trialVars
<1>3. OnTheWay
  BY <1>1, <1>2 DEF BringUp
<1>4. misses \in Nat /\ stalls \in Nat /\ misses' <= 1 /\ misses <= 1 /\ outages' = 0 /\ stalls' = 0
  BY <1>1, OnTheWayTypes DEF OneMiss
<1>5. CASE Network
  <2>1. /\ UNCHANGED <<age, stall>>
        /\ misses' = misses + (IF sup = "start" /\ sup' = "backoff" THEN 1 ELSE 0)
        /\ Supervisor \/ Mqtt \/ Environment
    BY <1>5 DEF Network, trialVars
  <2>2. CASE Supervisor
    BY <1>3, <1>4, <2>1, <2>2, LinkGoesOn
  <2>3. CASE Mqtt
    <3>1. sup' = sup
      BY <2>3 DEF Mqtt, MqBackoffOver, MqStart, MqStepOk, MqSubscribed, MqAttemptFails, MqLost,
        supVars
    <3>2. misses' = misses
      BY <1>4, <2>1, <3>1
    <3> QED
      BY <1>3, <1>4, <2>1, <2>3, <3>2, SessionGoesOn
  <2>4. CASE Environment
    <3>1. sup' = sup
      BY <2>4 DEF Environment, ServiceDown, ServiceUp, RadioFails, TrafficStops, Leased,
        LeaseExpires, supVars
    <3>2. misses' = misses
      BY <1>4, <2>1, <3>1
    <3> QED
      BY <1>3, <1>4, <2>1, <2>4, <3>2, SurroundingsKeep
  <2> QED
    BY <2>1, <2>2, <2>3, <2>4
<1>6. CASE SelfTestPoll
  <2>1. UNCHANGED vars /\ UNCHANGED <<age, stall, misses>>
    BY <1>6 DEF SelfTestPoll, Poll
  <2> QED
    BY <1>3, <2>1, OnTheWaySame
<1>7. CASE TrialTick
  <2>1. sup \in {"start", "join", "dhcp", "backoff"} \/ sup \in {"probe", "up"}
    BY <1>3 DEF OnTheWay, CallsInOrder
  <2> QED
    BY <1>3, <1>4, <1>7, <2>1, LinkTicks, SessionTicks
<1>8. ~BeginStall
  BY <1>4 DEF BeginStall
<1>9. ~StallTick
  BY <1>3 DEF OnTheWay, CallsInOrder, StallTick
<1>10. ~WatchdogReset
  BY DEF WatchdogReset, WatchdogFires
<1>11. CASE UNCHANGED allVars
  <2>1. UNCHANGED vars /\ UNCHANGED <<age, stall, misses>>
    BY <1>11 DEF allVars, trialVars, busy
  <2> QED
    BY <1>3, <2>1, OnTheWaySame
<1> QED
  BY <1>5, <1>6, <1>7, <1>8, <1>9, <1>10, <1>11 DEF TrialNext

\* A poll at the end of the window finds both signals up.
LEMMA NotRejected ==
  ASSUME WindowFits, TypeOK, TrialTypeOK, BoundsTypeOK, BringUp, OneMissTolerated,
         [TrialNext]_allVars
  PROVE  OneMissTolerated'
<1> SUFFICES ASSUME gpioSafe', OneMiss', test' = "rejected" PROVE FALSE
  BY DEF OneMissTolerated, OneMiss
<1>1. OneMiss
  BY OneMissKept
<1>2. gpioSafe
  BY DEF TrialNext, Network, SelfTestPoll, Poll, TrialTick, Elapse, BeginStall, StallTick,
         WatchdogReset, WatchdogFires, allVars, trialVars
<1>3. test # "rejected"
  BY <1>1, <1>2 DEF OneMissTolerated, OneMiss
<1>4. SelfTestPoll
  BY <1>3 DEF TrialNext, Network, TrialTick, Elapse, BeginStall, StallTick,
              WatchdogReset, WatchdogFires, allVars, trialVars
<1>5. test = "polling" /\ Poll(link = "Connected", healthy)
  BY <1>4 DEF SelfTestPoll, Poll
<1>6. Verdict(Latched(wifiSeen, link = "Connected"), Latched(mqttSeen, healthy)) = "failed"
  BY <1>5 DEF Poll, Settle
<1>7. OnTheWay
  BY <1>1, <1>5 DEF BringUp
<1>8. CASE mq = "serve"
  <2>1. healthy
    BY <1>7, <1>8 DEF OnTheWay, CallsInOrder
  <2>2. link = "Connected"
    BY <1>7, <1>8 DEF OnTheWay, CallsInOrder
  <2>3. Latched(wifiSeen, link = "Connected") /\ Latched(mqttSeen, healthy)
    BY <2>1, <2>2 DEF Latched
  <2> QED
    BY <1>2, <1>6, <2>3 DEF Verdict
<1>9. CASE mq # "serve"
  <2>1. age <= Window - 1 /\ age \in Nat /\ Window \in Nat
    BY <1>7, <1>9, WithinWindow, OnTheWayTypes, WindowNumbers DEF OnTheWay
  <2>2. ~(age >= Window)
    BY <2>1
  <2> QED
    BY <1>2, <1>6, <2>2 DEF Verdict
<1> QED
  BY <1>8, <1>9

\* self_test_task with connection_task and mqtt_task: where the window covers the
\* answers and the cost of one miss, a good image is not rejected because the
\* station, the access point, the DHCP server or the broker missed one call.
THEOREM OneMissIsTolerated ==
  ASSUME WindowFits
  PROVE  TrialSpec => []OneMissTolerated
<1>1. TrialBootInit => BringUp /\ OneMissTolerated
  BY OnTheWayStarts DEF BringUp, OneMissTolerated, TrialBootInit, TrialInit
<1>2. TrialBootTypeOK /\ BringUp /\ OneMissTolerated /\ [TrialNext]_allVars
        => BringUp' /\ OneMissTolerated'
  <2>1. TrialBootTypeOK => TypeOK /\ TrialTypeOK /\ BoundsTypeOK
    BY DEF TrialBootTypeOK, BoundsTypeOK
  <2> QED
    BY <2>1, BringUpKept, NotRejected
<1> QED
  BY <1>1, <1>2, TrialTyping, PTL DEF TrialSpec

=============================================================================
