# Verification of the skylights firmware

The repository is the firmware of an ESP32 that drives three skylight windows:
it takes commands over MQTT, keeps itself on a Wi-Fi network and replaces its own
image over the air. `skylights-core` holds the logic without hardware,
`skylights-app` the tasks of one cooperative embassy executor. This directory
models the parts whose behaviour depends on the order of events: the two-slot
update and its flash, the download and the publication it meets, the trial of a
new image, the recovery of the network, and the window controllers with the
commands that reach them and the lock they share.

Tasks are cooperative, so a handler is one action from one `await` to the next.
Two things are not: power, which may go at any instant, between the erase and
the write of a flash sector included; and time, which passes while no task runs.

## Inventory

| Component | State | Operations | Interacts through | What makes it correct |
|---|---|---|---|---|
| otadata arbitration (`core ota/partition.rs`) | two sector entries | `resolve_active_slot`, `next_seq_for_slot`, `is_usable` | read by flash.rs and obeyed by the bootloader | the next number selects the slot asked for and wins |
| Flash storage (`app flash.rs`) | otadata, two slots | `mark_trial_boot`, `mark_valid`, `mark_invalid`, erase and write | called by both OTA tasks; the bootloader reads it | always one slot that boots, whatever is cut short |
| Update task (`app ota/mod.rs`, `transport.rs`) | where the check is, the slot it writes | version, digest, image, commit | latching `OTA_TRIGGER`, HTTPS server, flash | verified images only, the running slot untouched, no trigger lost |
| Session (`core ota/session.rs`) | bytes received, digest | `apply_update` | body in, flash out | length and digest decide before the commit |
| HTTP head (`core ota/http.rs`) | partial head | incremental parse | transport | every split of the bytes parses alike |
| Self test (`core` and `app ota/selftest.rs`) | latched signals, window, watchdog | observe, evaluate, confirm or reject | `WIFI_CONNECTED`, `MQTT_HEALTHY`, otadata | every trial is settled, untested images never stay |
| Wi-Fi supervisor (`app net.rs`, `core wifi.rs`, `core net.rs`) | association, backoff, watchdog | start, leave, join, DHCP, supervise, reset | `WIFI_CONNECTED`, `WIFI_REJOIN` | recovers from every outage, resets only as a last resort |
| MQTT client (`app mqtt.rs`, `core mqtt.rs`) | session, backoff, failure count | connect, subscribe, dispatch, publish | the two above, window queues, `OTA_TRIGGER` | sessions come back, commands reach their window |
| Positioner (`core window.rs`) | position, motion | `request`, `finish`, `stop` | owned by a controller | interpolation stays within the travel |
| Window controllers (`app window.rs`) | one task, queue and positioner per window | receive, actuate, travel, interrupt | `ACTUATION_LOCK`, `WINDOW_STATES`, `STATE_CHANGED` | pulses never overlap, the last command wins, telemetry converges |
| Release publication (`deploy.sh`) | files on the server | upload, rename `version`, prune, trigger | HTTPS server, MQTT | a device never sees a version without its image |
| Heap, version module, build script, CI, bench helpers, the MicroPython program that the firmware replaced | | | | not modelled, see below |

Hard behaviours: torn flash updates and resets; two tasks acting on otadata in a
trial boot; answers that come after their timeout; requests and signals that
latch or coalesce; bounded queues that refuse; a shared lock between timed
sequences; rounding. PROJECT.json lists them as hazards at their lines.

## Modules

| Module | Role |
|---|---|
| `OtaData` | otadata entries and arbitration, pure operators |
| `OtaBoot` | flash, bootloader, `ota_task`, `self_test_task` and releases, composed over `OtaData` |
| `UpdateContract` | abstract specification: one proven image, at most one candidate |
| `MCOtaBoot` | TLC instances of `OtaBoot`, and two statements of the repository it refutes |
| `OtaDataProofs`, `OtaBootProofs` | theorems about the two |
| `WifiRecovery` | `connection_task` and `mqtt_task` with the policy of skylights-core |
| `MCWifiRecovery` | its TLC instances, and a statement of the repository it refutes |
| `WifiRecoveryProofs` | typing of `WifiRecovery` |
| `SelfTest` | tracker, `self_test_task` and the hardware watchdog |
| `TrialBoot` | `SelfTest` composed with `WifiRecovery` on one cooperative executor |
| `MCTrialBoot` | its TLC instance |
| `TrialBootProofs` | theorems about the composition |
| `Units` | what the streams of a download consist of |
| `HttpHead` | the head parser and its reference definition, pure operators |
| `HttpHeadProofs` | theorems about the parser |
| `OtaSession` | `apply_update` and the sector buffer of `SlotFlasher` |
| `Release` | the files on the server and `deploy.sh` |
| `OtaDownload` | an update check from trigger to reset, composed over the three |
| `MCOtaDownload` | its TLC instance |
| `OtaDownloadProofs` | theorems about a check and what it is composed of |
| `Positioner` | plans, travel times and interpolation, pure operators |
| `MqttCommands` | command topics and `parse_action`, pure operators |
| `WindowControl` | dispatch, controllers, queues, lock, motors and telemetry, composed over the two |
| `MCWindowControl` | its TLC instances, and a statement of the repository it refutes |
| `PositionerProofs`, `WindowControlProofs` | theorems about `Positioner` and `WindowControl` |

### OtaBoot

`otadata` and `slots` are the flash; all other variables but `published`, the
history variable `confirmed` and the counters are lost in a reset (`GoDown`). A
`mark_*` function is two actions: the erase (`BeginMark`, part of `OtaCommit`,
`SelfTestPass` and `SelfTestFail`), which sets `op`, and the write (`MarkWrite`).
Flash operations block the executor, so while `op` is set no task moves
(`Awake`), but `Reset` does. A write that is cut short leaves a CRC that does not
match, since the CRC is the last word of the entry; arbitration cannot tell that
from an erased sector, and neither does the model. Each await of
`check_and_update` is a value of `otaPc`: `lookup` up to the version,
`digest`, `head` and `stream`. Every transport error, wrong status or bad body
is `OtaGiveUp`, which may come at any of them and leaves in the slot what was
flushed. The content of a slot is the release it holds or `Torn`; how it gets
there is `OtaDownload`. The verdict of the self test is a choice between
`SelfTestPass` and `SelfTestFail`; when which is given is `TrialBoot`. `OtaVersion`
waits for the first poll of `self_test_task`: it needs network traffic, and the
executor polls every spawned task once before that.

External: the bootloader (`BootSlot`, `Pending`, `Aborted`: the arbitration rules
that `partition.rs` repeats, and the effect of APP_ROLLBACK on the states) and
`Reset`.

The constants `TrialReleases` and `MaxReadFaults` switch on two circumstances in
which the code is not safe (see Findings). What is proved of fallback and rejection is
about devices that meet neither; what is proved of the running image leaves
releases free.

### WifiRecovery

`sup` and `mq` are the awaits at which the two tasks are suspended, `supTimer` and
`mqTimer` what is left of their `with_timeout` or `Timer::after`. A tick may not
pass while an expired wait is waiting to be served; an answer may come in any
tick before. `station` is the radio: off, live, dead (associated, no traffic,
until it joins again) or wedged (no join until the chip resets). `dropped` is the
pending `StaDisconnected` event, `lease` what `config_v4` would say, `ipAge` the
age that `NoIpWatchdog` measures, up to the bound where it is due. `select`
polls its first future first: `DhcpRejoin` yields to the lease and to the
timeout, `UpRejoin` to a disconnect. `Reboot` sets up what a boot sets up.

External: the radio, DHCP client and services; access point, DHCP server and
broker go down and come back, the radio drops, jams or stops carrying traffic.
From minimq and embassy-net the model takes that an operation on a connection
without traffic fails in the end (`~Reachable`); the subscribe has no timeout of
its own in the code.

### SelfTest and TrialBoot

`Poll` is one turn of the loop of `self_test_task`: latch the two signals, evaluate,
then act on the verdict or feed and sleep. `age` is the tracker's clock, `wdt` the
watchdog's count since it was last fed. A verdict changes otadata as `OtaBoot` says;
here it ends the model, with `unsettled` for the write that failed.

`TrialBoot` runs that task beside the supervisor and the MQTT client from power-on.
`Network` is any step of the two, or of their environment; `TrialTick` lets a tick
pass when every task that is due has been polled. The executor is cooperative:
in a stall (`BeginStall`, `StallTick`; a TLS handshake, a flash erase) timers expire
and nobody is polled, and a stall of length `Hang` never ends, which is an image
that hangs. Between two stalls the self test is polled, since the executor polls
each ready task once in a round. `everHealthy` and `together` are history.

External: the watchdog of the chip, and the services, which answer within `Latency`
or count as a miss, at most `MaxMisses` times.

### OtaDownload

One action is one read of the network, of any number of units, and all the code
does with it before it reads again. A unit stands for bytes that are always parsed
together: what a header line says, CR, LF, a digit, a digest, a piece of an image.

`HttpHead` is the push parser. `Acceptable` is the other description of the same
thing, by whole lines, and `ParserAgrees` compares the two. `OtaSession` abstracts
SHA-256 to the sequence that was hashed, so that two bodies have one digest exactly
when they are equal. `slot` is the passive slot in flash, unit by unit, with whole
sectors erased before they are written. `OtaDownload` adds the three requests
(`want`: version, digest, image), each over its own connection (`conn`), whose
`head` and `body` are still on the wire; what is read with the head goes to
`leftover`, then to the session. Content lengths have 64 bits and are cast to a
`usize` of 32, as in `read_small`. `StepFails` is a timeout or error at any await,
flash included; `PowerCut` drops everything but flash, at any instant, a flush included.

`Release` takes `deploy.sh` step by step: the script writes files in place, so that a
client sees any prefix, any command may fail (`DeployFails`), and one version may be
published again with another build. The prune deletes an image (`PruneBin`) and then its
digest (`PruneSha`), and may fail between the two (`PruneEnds`); a digest that is left
so stays, since `Stale` looks for images, and an upload may begin over it. `built` and
`broken` are history.

External: the web server and TLS (`Response`, `OddHeads`, `ClosedEarly`). An open file
that is overwritten is read as it is now, a deleted one as it was (`Followed`).

### MqttCommands and WindowControl

A message is a topic and the values that serde finds in its fields, `NotAByte` for a
missing or wrong one. `ParseAction` makes an action of it, with the range checks of
`Index::new` and `Percentage::new`; `Dispatch` carries it out.

`pc` is where a controller is suspended: idle in `receive`, waiting for the lock,
pulsing, or in the `select` of a travel. `record_state` takes `WINDOW_STATES`,
which nobody holds across an await, so it is part of the step that calls it; where
`drive_to` records twice in a row (an interruption that retargets) only the second
snapshot can be seen. `elapsed` is measured at the end of the `select` and used
after the stop pulse, as in the code. `Send` is `try_send`: a full queue refuses.
`lastSent` and `lastAccepted` are history variables. Time passes when nothing is
ready, as the executor is never busy for a tick. Of the WindowState enumeration
only `is_moving` is observable, which is `motion # NoMotion`.

External: `actual`, where a window physically is, in ticks of travel from closed. The
controller never reads it. It starts anywhere (`LeftAt`), because the code takes a
window to be closed at every boot, and moves with the motor (`Moved`). So the
recorded position drifts from it, by a boot or by a wait for the lock in which the
motor runs on; `SeatTravelArrives` says that the next travel to a seat ends that.

## Runs

All bounds are in the .cfg files. The type invariants are checked by `OtaSafety`,
`WifiEscalation`, `TrialBoot`, `OtaDownload` and `WindowControl`.

| Run | Shows |
|---|---|
| `OtaSafety` | `AlwaysBootable`, `FallbackReady`, `RunningIsSelected`, `UnprovenOnlyOnTrial`, `RunningSlotNeverWritten`, `ImplementsContract` with APP_ROLLBACK |
| `OtaLive` | `TrialSettles`, `TriggerServed` without APP_ROLLBACK, where no bootloader helps |
| `OtaFaults` | `ResetBootsVerified` with releases at any time and failing reads |
| `OtaTrialRelease`, `OtaMisread` | violations: see Findings |
| `OtaDownload` | `ParserAgrees`, `BodyInOrder`, `WrittenIsHashed`, `RunsPublishedImage`, `NamedPairWhole`, and the liveness of a check: `CheckEnds`, `ReleasePickedUp` |
| `TrialBoot` | `WatchdogQuiet`, `VerdictInTime`, `ConfirmedIsHealthy`, `HealthNoticed`, `OneMissTolerated`, `TrialEnds` with the timeouts of the code |
| `WifiEscalation` | `Escalation`, `RejoinServed` |
| `WifiRecovery` | `Recovery` |
| `WifiReset` | violation |
| `WindowControl` | `PulsesExclusive`, `MotorFollowsPlan`, `InterruptedOnTheWay`, `SeatTravelArrives`, `LastTargetReached`, `StopHalts`, `TelemetryConverges` |
| `WindowOverflow` | violation |

Bounds of the OTA runs. Three releases are enough for a running, a candidate and
a newer one to be distinct, and downgrades are included. In `OtaSafety` the
largest sequence number is 5: numbers 2, 3 and 4 are ordinary updates over both
sectors and both slots, and the fourth update meets saturation. Five releases, three
resets and two flash faults allow, for instance, a cut in the middle of a
confirmation followed by an update over its remains. `OtaFaults` meets saturation
as well. There a commit with the last number boots nothing new, and
`ResetBootsVerified` says so by leaving such a commit out; a device needs 2^32 updates
to get there.

Bounds of the Wi-Fi runs. Each timeout is one tick, the backoff is 1 then 2, the
escalation is due after 4, two DHCP windows and two failed attempts: the smallest
values that keep the order between them (several rounds before the escalation,
more than one window, more than one failure). Two outages suffice for one to
begin while the device recovers from the other. The services come back
freely, so the two outages may overlap, follow each other or last for ever.

Bounds of `TrialBoot`. A tick is a second and the timeouts, backoffs, window,
watchdog and feed interval are those of the code; the poll period of 100 ms is
rounded up to one tick, which only makes polls rarer. Two bounds are as large as
they can be: stalls of six seconds (feed interval, poll period and stall together
are the eight of the watchdog) and answers within two (with three, one missed
connection leaves less than the rest of the bring-up needs, and `OneMissTolerated`
fails). One missed call and one stall: each alone may come at any step. No outage, as
the access point and broker being up is what the window of 30 s assumes.

Bounds of `OtaDownload`. Sectors of two units and a slot of four: images of three,
four and one units end inside a sector, at the end of the slot and inside the first
sector. The second is the largest that fits, `OddHeads` declares one more, zero, one
and one beyond `usize`. Reads of up to three units split each head and each body in
every way and run from one into the other. Versions 1, 2 and 12 have one and two
digits, and the prune order is theirs. Two builds are published besides the one
that is flashed, as different versions, one twice, or as a downgrade. One fault, of
the network, the server, the script or flash, at any step: it ends the check or the
script, and what remains in flash or on the server is met by the next one. A prune may
fail besides, so a digest without its image is met by a check; that a third build is
uploaded over one is left to the theorems.

Bounds of the window runs. Levels 0 to 3 and a travel of 5 ticks have interior
targets, and elapsed times that are rounded. Two windows contend for the lock;
which two is the only difference a third would make, and the safety properties are
proved for any number. One starts closed, the other nearly open. Three commands to
queues of two: they overflow, retarget and cancel. The message fields hold each
value in range and those one beyond, so every check of the parser decides something.
`WindowOverflow` has the queue of four of the code and the fewest commands that
overflow it.

Deadlock. `OtaSafety`, `OtaLive`, the Wi-Fi and the window runs check it. `OtaFaults`
does not, because a device whose only image was overwritten is halted for good;
`TrialBoot` does not, because the model ends with the trial; `OtaDownload` does not,
because a device with nothing to do waits for a trigger for ever.

### Fairness

`OtaBoot`: the bootloader runs, a flash operation returns, tasks are polled, and
each await of a check has a timeout (`IO_TIMEOUT` and others in `transport.rs`),
so a check ends in one of its ways. No fairness for success: a check may give up
for ever, and neither verdict of a self test is preferred.
`WifiRecovery`: weak fairness for each task and for time, and strong fairness for
the answers of the radio, DHCP and the broker, which only occur while those
services are up. It says that a service which stays up does not miss every timeout.
The strong condition on `Leased` is for a lease within the DHCP window.
`TrialBoot`: time passes, the executor polls and the watchdog counts; no task and no
service is preferred. `TrialEnds` holds without the network ever coming up.
`OtaDownload`: the device takes its steps, each of which has a timeout in the code.
The server, the script and the network need do nothing; `ReleasePickedUp` is about
the time in which they no longer fail (`calm`).
`WindowControl`: every controller that is ready is polled, and the lock goes to a
waiter that keeps asking. embassy's async mutex wakes its waiters but does not queue
them, so the strong fairness of `Acquire` rests on three windows having pulses
of 0.7 s between travels of seconds.

## Findings

1. `OtaTrialRelease`. During a trial boot `ota_task` checks for updates, too. A
   release that appears then is written to the slot that is not active, the only
   confirmed fallback; when the self test fails, `mark_invalid` selects that
   slot, half-written. Boot, trial boot, publication, download, rejection.
2. `OtaMisread`. `active_slot` answers `Ota0` when otadata cannot be read, and a
   download that starts at that moment overwrites `ota_1`, running or not. Nothing else
   does: `ActiveSlotStaysBootableHolds` proves the refuted statement for a device
   whose otadata can be read, late releases included.
3. `WifiReset`. `note_ip` is called once per association. After ten minutes of
   uptime any end of a round resets the chip, although the lease was held up to
   it: one dropped link, or five failed connections to the broker.
4. `WindowOverflow`. A stop that is sent while its window is being started, behind
   four other commands, is dropped by the full queue, and the window travels on to
   the queued targets.

One more statement of the repository is only noted here. `deploy.sh:226` says that a failed
prune only leaves extra pairs, but `rm` deletes an image and then its digest, and a prune
that stops in between leaves a digest for good. It misleads no device:
`PublishedImageRuns` holds over it.

## Theorems

All are proved for every value of the constants, from the assumptions in the
modules (`MaxSeqAssumption`: the largest sequence number is odd and at least 3;
`ConstantsAssumption`; `SelfTestAssumption`: a feed, a poll period and a stall fit
into the watchdog's timeout; `TimingAssumption` and `TrialAssumption`; `HeadAssumption`;
`SessionAssumption`: a slot is a whole number of sectors; `ReleaseAssumption` and
`DownloadAssumption`: no image is empty or larger than a slot, which `deploy.sh` checks;
`TravelAssumption`; `CommandAssumption`; `WindowAssumption`).

`OtaDataProofs`. `NextSeqSelects`: for every otadata and either slot, the trial entry
with the next sequence number, in the sector that is not selected, is what arbitration
then selects, with that slot and as a trial, unless the number is at its limit; there
the entry is discarded and the selection stays. `NextSeqAbove` is the arithmetic of it,
and only the last two usable numbers meet the limit. The other lemmas say that
arbitration picks the highest usable entry, ignores unusable ones, and depends on
nothing else.

`OtaBootProofs`. `Typing` needs no more than the module's assumptions. What concerns the
running image, `RunningIsSelected`, `RunningSlotNeverWritten` and
`ActiveSlotStaysBootable` (C4 of the bench checklist), is proved for `MaxReadFaults = 0`
alone: releases may appear during an update or a trial. The inductive invariant is
`ActiveInv`: what runs is what otadata selects, a download goes to the other slot, and an
unfinished confirmation or rejection knows the entry it will write back, which no
entry in the other sector exceeds. By `ConfirmedWins` such an entry is selected again even
against one with the same number.

`AlwaysBootable`, `FallbackReady` and `UnprovenOnlyOnTrial` are proved for `~TrialReleases`
and `MaxReadFaults = 0`, with any number of releases, resets and flash faults, and for
both bootloaders. None is inductive by itself. The inductive invariant `Inv` adds:
where `op` is set, which entry it will write and that the sector it erased is the
one it should be; that with a trial selected the other entry (or the default of
an erased partition) selects the other slot, which holds a confirmed image; that
a download that streams writes the slot that is not selected; that no check
is past its version while a trial is selected. The proof goes by actions:
lemmas `TrialWritten`, `ConfirmWritten`, `RejectWritten` and `BootWritten` say what
each kind of write does to arbitration, `TrialDropped` and `UnselectedErased` what
the erases do, and `InvNext` combines them.

`ResetBootsVerifiedHolds` needs no assumption beyond those of the modules: releases may
appear at any time and reads may fail. Its invariant `CommitInv` says what a commit
carries between its erase and its write, and `NextSeqSelects` does the rest.
`ContractImplemented` is the refinement of `UpdateContract`, under the assumptions of
`Inv`. `ContractStep` says, action by action, which step of the contract it is: the write
of a trial entry is `StartTrial`, that of a confirmation `Confirm`, a rejection or an
abort `Reject`, and the rest stutters.

`PositionerProofs`. `InterruptedBetween`: an interruption within the planned time
leaves the position between start and target; the two rounded divisions never
add up to more than the distance.

`WifiRecoveryProofs`. `RecoveryTyping`: the timers, backoffs and counters of both
tasks stay in their ranges, for any timeouts.

`HttpHeadProofs`. `FeedSplits`: fed in two reads, or in any number of them, the parser
ends as it does when fed at once. `HeadEndsAtEmptyLine`: it completes at no other unit
than the first empty line, and there it is done. The invariants of the parser are `Sound`
(its line, counters and event are of their types and the event agrees with the
state) and `LineTracks` (its line is what came since the last LF). They hold after each unit
of any stream: `SetInduction` states induction over the units as the existence of a
first one at which a property, given as a set of positions, fails.

`ParserDecides` is the whole of what the parser promises: for heads of any number of
lines of any length, with either line ending and any body behind them, `Feed` completes
the heads that `Acceptable` accepts and no others, with the status and length they
declare, and leaves the body over. Its premise, that no line between the first and the
last is empty, is what makes a stream one head. `FlattenAppend` and `StreamAppend` say
that one more line makes the stream longer by that line and its ending. `LineFed` brings
feeding a line down to the one `EndOfLine` at its end, `LineRecorded` says what that
records, and `LinesRead`, by induction over the lines, what the parser knows after each
of them: status, length and a failure exactly as the lines before say. `AcceptableHead`
puts the reference in the same terms, `HeadDecided` joins the two at the empty line,
`OverStays` keeps the verdict over the body, and `RestLeftOver` is what remains.

`OtaDownloadProofs`. `ParserAgreesHolds` applies `ParserDecides` to the heads of the
run. `NamedPairHolds`, `BodyOrdered`, `WrittenHashed`, `PublishedImageRuns` and
`DownloadTyping` hold for any versions, images, sector, slot and buffer sizes, any
number of deployments and faults, any split into reads and any of the odd heads. The
inductive invariant `Inv` is that of the server and that of the device. `ReleaseInv`:
what the script has done when it is at a step (`ScriptAt`), that files hold parts of
images and only digests of builds of their own version (`Contents`), and that every pair
is whole which is neither uploaded nor left by an upload that failed (`Pairs`);
`NamedPairHolds` says no more of the version that is named, for while its own files are
replaced it does not hold. `CheckInv`: a digest that is on the wire, in the text or
expected is that of a build of the version asked for (`SourceInv`); the parser is at a
place in a head whose rest the connection holds, or nothing will come (`HeadInv`); what
is hashed and what is left over add up to what was delivered (`BodyInv`); while a body
streams every flushed sector is full, and when it is written what follows in the last
sector is erased (`Streaming`, `Written`). `ConsumeStep` and `FlushRestStep` carry the
last two over a chunk of any size, `HeadChunk` the parser, and `BuiltKept` lets a digest
outlive the files it came from: the history of builds only grows. With the digest of a
build in hand, `DigestMatches` makes the slot that build.

`TrialBootProofs`. `TrialTyping`, `WatchdogStaysQuiet`, `VerdictComesInTime`, `ConfirmedWasHealthy` and
`HealthIsNoticed`, for any timeouts and any number of stalls and misses. None is
inductive by itself: between a poll and the next the clocks grow. The inductive
invariant `TrialInv` bounds each clock (`ClocksInTime`, `SignalsInTime`) by its limit
less what may still pass before the next poll: the sleep that is left, the stall
that is left, and `Slack`, the stall that may still begin. `StallsAfterPoll` says that
only one can. The latches are tied to history by `SeenWasThere`, which gives
`ConfirmedIsHealthy`. `OneMissIsTolerated` assumes `WindowFits`: the window is longer than five
answers and what one missed call costs, answers come before timeouts, and one miss
escalates nothing. The constants of the code satisfy it with answers within two seconds
and not with three. Its invariant `BringUp` says that the calls are made in
order (`CallsInOrder`), what a miss has left behind (`MissKept`), and that the age of the
trial and the time to a live session from each await (`Left`) add up to no more than five
answers before a miss, and to less than the window after one (`InWindow`).

`WindowControlProofs`. `WindowTyping`, `PulsesNeverOverlap`, `MotorObeys`,
`InterruptionStaysOnTheWay` and `SeatsRecalibrate`, for any number of windows, any
capacity, any timing and any messages. `Inv` adds that a window pulses only while it
holds the lock, that a motion exists exactly when the controller is not idle and
points the way its plan says, and that the time measured in an interruption is
within the plan. `SeatsRecalibrate` needs one more, `SeatInReach`: the time that is left
of a travel to a seat is enough from wherever the window is.

Only model-checked: liveness under fairness (`OtaLive`, `Escalation`, `RejoinServed`,
`Recovery`, `TrialEnds`, `CheckEnds`, `ReleasePickedUp` and the three of `WindowControl`),
which the prover does not reach.

## Not modelled

* JSON and the formatting of replies and telemetry: serde's, and no state changes.
  A get reads a snapshot and answers.
* URL parsing, request building, base64: formatting of build-time values. The
  spelling of a version (leading zeros, surrounding text); versions are numbers.
* TLS, sockets, the esp-wifi runner, minimq's buffers: libraries and pure I/O. That an
  operation on a dead connection fails in the end is taken from them.
* `SelfTestTracker::fail`, which the firmware does not call.
* How far the recorded position may drift between two seats: the lock is not
  fair, so a wait has no bound in the code.
* Argument and environment handling, the build and the dry run of `deploy.sh`.
* Heap set-up, logging, the build script, CI, bench helpers; the MicroPython
  program (`main.py`, `window.py`, `config.py`, `mqtt_as.py`), which does not run on
  this device.

## Plan

All the components that keep state are modelled, and every safety property that a
passing run checks is proved. What remains is to keep the models with the code: a change
to a mapped function is a change to the definition that names its lines.
