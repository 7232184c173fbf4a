------------------------------ MODULE OtaBoot ------------------------------
(***************************************************************************)
(* The over-the-air update path of the controller: the flash that survives *)
(* a reset (the two otadata sectors and the two application slots), the    *)
(* task that downloads and commits an image (ota_task), the task that      *)
(* confirms or rejects a trial boot (self_test_task), the second-stage     *)
(* bootloader that picks a slot, and an operator who publishes releases.   *)
(*                                                                         *)
(* The firmware runs one cooperative executor, so a handler is atomic from *)
(* one suspension point to the next.  Power is not cooperative: erasing an *)
(* otadata sector and writing its new entry are two flash operations, and  *)
(* the device may lose power between them.  The variable op holds such an  *)
(* unfinished update of otadata; while it is set no task runs.             *)
(*                                                                         *)
(* Image contents are abstracted to the version they carry.  A slot that   *)
(* holds anything else than one whole, verified image is Torn.             *)
(***************************************************************************)
EXTENDS OtaData, FiniteSets

CONSTANTS
  Versions,       \* release numbers an operator may publish
  Factory,        \* the release flashed over USB
  Torn,           \* a slot that does not hold one whole image
  AppRollback,    \* the bootloader was built with APP_ROLLBACK
  TrialReleases,  \* releases may also appear while an update is in flight
  MaxReleases,    \* bound: releases published after the first
  MaxResets,      \* bound: power cuts, watchdog resets and panics
  MaxFaults,      \* bound: failed flash erases and writes
  MaxReadFaults   \* bound: failed reads of otadata

ASSUME ConstantsAssumption ==
  /\ Factory \in Versions
  /\ Torn \notin Versions
  /\ AppRollback \in BOOLEAN
  /\ TrialReleases \in BOOLEAN
  /\ MaxReleases \in Nat /\ MaxResets \in Nat
  /\ MaxFaults \in Nat /\ MaxReadFaults \in Nat

VARIABLES
  otadata,     \* [Sectors -> Entries]                           (flash)
  slots,       \* [Slots -> Versions \cup {Torn}]                (flash)
  op,          \* the otadata update between its erase and its write
  mode,        \* "on", "off" (in reset) or "halted" (no image to boot)
  running,     \* the slot the running image was booted from
  local,       \* the build version of the running image
  selftest,    \* self_test_task: "spawned", "testing" or "done"
  trigger,     \* OTA_TRIGGER, a latching signal
  otaPc,       \* where ota_task is suspended
  remote,      \* the version it fetches
  passive,     \* the slot it writes
  published,   \* the content of the server's version file
  confirmed,   \* history: the versions flashed at the factory or confirmed
  releases, resets, faults, readFaults   \* what the bounds count

flash   == <<otadata, slots>>
otaVars == <<otaPc, remote, passive>>
budget  == <<releases, resets, faults, readFaults>>
vars    == <<otadata, slots, op, mode, running, local, selftest, trigger,
             otaPc, remote, passive, published, confirmed, budget>>

NoOp == [kind |-> "none", sector |-> "sector0", seq |-> 0]
Ops  == [kind : {"none", "trial", "valid", "invalid"},
         sector : Sectors, seq : 0..MaxSeq]

OtaPcs == {"wait", "lookup", "digest", "head", "stream"}

TypeOK ==
  /\ otadata \in [Sectors -> Entries]
  /\ slots \in [Slots -> Versions \cup {Torn}]
  /\ op \in Ops
  /\ mode \in {"on", "off", "halted"}
  /\ running \in Slots
  /\ local \in Versions
  /\ selftest \in {"spawned", "testing", "done"}
  /\ trigger \in BOOLEAN
  /\ otaPc \in OtaPcs
  /\ remote \in Versions
  /\ passive \in Slots
  /\ published \in Versions
  /\ confirmed \subseteq Versions
  /\ releases \in 0..MaxReleases
  /\ resets \in 0..MaxResets
  /\ faults \in 0..MaxFaults
  /\ readFaults \in 0..MaxReadFaults

\* A device flashed over USB: both otadata sectors erased, the factory image
\* in ota_0 (what arbitration defaults to) and nothing in ota_1.
Init ==
  /\ otadata = [sec \in Sectors |-> ErasedEntry]
  /\ slots = [s \in Slots |-> IF s = "ota_0" THEN Factory ELSE Torn]
  /\ op = NoOp
  /\ mode = "off"
  /\ running = "ota_0"
  /\ local = Factory
  /\ selftest = "done"
  /\ trigger = FALSE
  /\ otaPc = "wait"
  /\ remote = Factory
  /\ passive = "ota_1"
  /\ published = Factory
  /\ confirmed = {Factory}
  /\ releases = 0 /\ resets = 0 /\ faults = 0 /\ readFaults = 0

-----------------------------------------------------------------------------
(* Helpers                                                                 *)

\* A task may take a step: the chip runs and no flash operation blocks it.
Awake == mode = "on" /\ op = NoOp

\* Every reset loses the tasks and their statics; flash and the server stay.
GoDown ==
  /\ mode' = "off"
  /\ op' = NoOp
  /\ selftest' = "done"
  /\ trigger' = FALSE
  /\ otaPc' = "wait"
  /\ UNCHANGED <<remote, passive>>

\* Mutant: a check that ends also drains the signal.
BackToWaitDrained ==
  otaPc' = "wait" /\ trigger' = FALSE /\ UNCHANGED <<remote, passive>>

\* ota_task is back at OTA_TRIGGER.wait().
BackToWait == otaPc' = "wait" /\ UNCHANGED <<trigger, remote, passive>>

FlashFault == faults < MaxFaults /\ faults' = faults + 1
ReadFault  == readFaults < MaxReadFaults /\ readFaults' = readFaults + 1

\* The erase that opens every mark_*: the sector reads as ones until the write.
BeginMark(kind, sector, seq) ==
  /\ otadata' = [otadata EXCEPT ![sector] = ErasedEntry]
  /\ op' = [kind |-> kind, sector |-> sector, seq |-> seq]

\* mark_* fails before its write: otadata could not be read or the sector not
\* erased.  A failed erase may or may not have cleared the sector.
FailMark(sector) ==
  /\ FlashFault
  /\ \/ UNCHANGED otadata
     \/ otadata' = [otadata EXCEPT ![sector] = ErasedEntry]

\* Mutants: a trial written as valid; a confirmation under a new sequence; a
\* rejection that leaves the state word valid.
MarkEntryUntested(kind, seq) ==
  IF kind = "invalid" THEN [NewValid(seq) EXCEPT !.state = "INVALID"] ELSE NewValid(seq)
MarkEntryRenumbered(kind, seq) ==
  CASE kind = "trial"   -> NewTrial(seq)
    [] kind = "valid"   -> NewValid(SaturatingSucc(seq))
    [] kind = "invalid" -> [NewValid(seq) EXCEPT !.state = "INVALID"]
    [] OTHER            -> ErasedEntry
MarkEntryNotRejected(kind, seq) ==
  IF kind = "trial" THEN NewTrial(seq) ELSE NewValid(seq)

\* The entry a mark_* writes after the erase.
MarkEntry(kind, seq) ==
  CASE kind = "trial"   -> NewTrial(seq)
    [] kind = "valid"   -> NewValid(seq)
    [] kind = "invalid" -> [NewValid(seq) EXCEPT !.state = "INVALID"]
    [] OTHER            -> ErasedEntry

\* Mutants: the passive slot is the active one; the trial entry replaces the
\* active entry; a check never skips.
PassiveSlotIsActive(od) == Resolve(od).slot
TrialSectorInPlace(od)  == Resolve(od).sector
DecideAlways(loc, rem)  == TRUE

PassiveSlot(od) == OtherSlot(Resolve(od).slot)

\* decide: upgrades and downgrades alike.
Decide(loc, rem) == rem # loc

\* Where mark_trial_boot(slot) puts its entry, and the entry's sequence.
TrialSector(od) == OtherSector(Resolve(od).sector)

TrialSeq(od, slot) == NextSeqForSlot(Resolve(od).seq, slot)

-----------------------------------------------------------------------------
(* The bootloader                                                          *)

\* APP_ROLLBACK: an entry still pending from an earlier boot is aborted, and
\* a new one that is about to be booted becomes pending.
Aborted(od) ==
  [sec \in Sectors |->
     IF AppRollback /\ od[sec].state = "PENDING_VERIFY"
       THEN [od[sec] EXCEPT !.state = "ABORTED"] ELSE od[sec]]

Pending(od) ==
  [sec \in Sectors |->
     IF /\ AppRollback /\ SomeUsable(od) /\ sec = Resolve(od).sector
        /\ od[sec].state = "NEW"
       THEN [od[sec] EXCEPT !.state = "PENDING_VERIFY"] ELSE od[sec]]

BootSlot(od) == Resolve(Aborted(od)).slot

\* The selected image starts; main spawns the tasks and raises OTA_TRIGGER once.
Boot ==
  /\ mode = "off"
  /\ slots[BootSlot(otadata)] # Torn
  /\ otadata' = Pending(Aborted(otadata))
  /\ mode' = "on"
  /\ running' = BootSlot(otadata)
  /\ local' = slots[BootSlot(otadata)]
  /\ selftest' = "spawned"
  /\ trigger' = TRUE
  /\ UNCHANGED <<slots, op, otaVars, published, confirmed, budget>>

\* The selected slot holds no image.
BootFails ==
  /\ mode = "off"
  /\ slots[BootSlot(otadata)] = Torn
  /\ mode' = "halted"
  /\ UNCHANGED <<flash, op, running, local, selftest, trigger, otaVars,
                 published, confirmed, budget>>

\* Power loss, the trial watchdog, a panic or the Wi-Fi escalation, anywhere.
Reset ==
  /\ mode = "on"
  /\ resets < MaxResets
  /\ resets' = resets + 1
  /\ GoDown
  /\ UNCHANGED <<flash, running, local, published, confirmed,
                 releases, faults, readFaults>>

-----------------------------------------------------------------------------
(* The write that ends a mark_*                                            *)

\* mark_booted returns and the task is done; the other two callers reset.
MarkWrite ==
  /\ mode = "on"
  /\ op # NoOp
  /\ otadata' = [otadata EXCEPT ![op.sector] = MarkEntry(op.kind, op.seq)]
  /\ \/ /\ op.kind = "valid"
        /\ op' = NoOp
        /\ selftest' = "done"
        /\ confirmed' = confirmed \cup {local}
        /\ UNCHANGED <<mode, trigger, otaVars>>
     \/ /\ op.kind \in {"trial", "invalid"}
        /\ GoDown
        /\ UNCHANGED confirmed
  /\ UNCHANGED <<slots, running, local, published, budget>>

\* The write fails and the sector stays erased.  self_test_task resets in both
\* of its cases, ota_task logs the error and waits for the next trigger.
MarkWriteFails ==
  /\ mode = "on"
  /\ op # NoOp
  /\ FlashFault
  /\ \/ op.kind \in {"valid", "invalid"} /\ GoDown
     \/ /\ op.kind = "trial"
        /\ op' = NoOp
        /\ BackToWait
        /\ UNCHANGED <<mode, selftest>>
  /\ UNCHANGED <<flash, running, local, published, confirmed,
                 releases, resets, readFaults>>

-----------------------------------------------------------------------------
(* self_test_task                                                          *)

\* The task's first poll.  It skips the test unless otadata says trial.
SelfTestStart ==
  /\ Awake
  /\ selftest = "spawned"
  /\ selftest' = IF Resolve(otadata).trial THEN "testing" ELSE "done"
  /\ UNCHANGED <<flash, op, mode, running, local, trigger, otaVars,
                 published, confirmed, budget>>

\* otadata cannot be read: the task returns and the slot stays unconfirmed.
SelfTestCannotRead ==
  /\ Awake
  /\ selftest = "spawned"
  /\ ReadFault
  /\ selftest' = "done"
  /\ UNCHANGED <<flash, op, mode, running, local, trigger, otaVars,
                 published, confirmed, releases, resets, faults>>

\* Outputs safe, Wi-Fi and MQTT seen: mark_valid.
SelfTestPass ==
  /\ Awake
  /\ selftest = "testing"
  /\ BeginMark("valid", Resolve(otadata).sector, Resolve(otadata).seq)
  /\ UNCHANGED <<slots, mode, running, local, selftest, trigger, otaVars,
                 published, confirmed, budget>>

\* A bad output or an expired window: mark_invalid.
SelfTestFail ==
  /\ Awake
  /\ selftest = "testing"
  /\ BeginMark("invalid", Resolve(otadata).sector, Resolve(otadata).seq)
  /\ UNCHANGED <<slots, mode, running, local, selftest, trigger, otaVars,
                 published, confirmed, budget>>

\* mark_valid or mark_invalid fails at once: the task resets either way.
SelfTestMarkFails ==
  /\ Awake
  /\ selftest = "testing"
  /\ FailMark(Resolve(otadata).sector)
  /\ GoDown
  /\ UNCHANGED <<slots, running, local, published, confirmed,
                 releases, resets, readFaults>>

-----------------------------------------------------------------------------
(* ota_task                                                                *)

\* skylight/reset over MQTT.
TriggerCheck ==
  /\ Awake
  /\ ~trigger
  /\ trigger' = TRUE
  /\ UNCHANGED <<flash, op, mode, running, local, selftest, otaVars,
                 published, confirmed, budget>>

OtaWake ==
  /\ Awake
  /\ otaPc = "wait"
  /\ trigger
  /\ trigger' = FALSE
  /\ otaPc' = "lookup"
  /\ UNCHANGED <<flash, op, mode, running, local, selftest, remote, passive,
                 published, confirmed, budget>>

\* The version file arrives; decide skips the version that runs.  The network
\* comes up long after the executor has polled every new task once.
OtaVersion ==
  /\ Awake
  /\ otaPc = "lookup"
  /\ selftest # "spawned"
  /\ IF Decide(local, published)
       THEN otaPc' = "digest" /\ remote' = published
       ELSE otaPc' = "wait" /\ UNCHANGED remote
  /\ UNCHANGED <<flash, op, mode, running, local, selftest, trigger, passive,
                 published, confirmed, budget>>

\* The .sha256 of that version arrives.
OtaDigest ==
  /\ Awake
  /\ otaPc = "digest"
  /\ otaPc' = "head"
  /\ UNCHANGED <<flash, op, mode, running, local, selftest, trigger, remote,
                 passive, published, confirmed, budget>>

\* The head of the .bin response arrives: the passive slot is looked up.
OtaHead ==
  /\ Awake
  /\ otaPc = "head"
  /\ otaPc' = "stream"
  /\ passive' = PassiveSlot(otadata)
  /\ UNCHANGED <<flash, op, mode, running, local, selftest, trigger, remote,
                 published, confirmed, budget>>

\* The same with otadata unreadable: active_slot answers ota_0.
OtaHeadMisread ==
  /\ Awake
  /\ otaPc = "head"
  /\ ReadFault
  /\ otaPc' = "stream"
  /\ passive' = OtherSlot("ota_0")
  /\ UNCHANGED <<flash, op, mode, running, local, selftest, trigger, remote,
                 published, confirmed, releases, resets, faults>>

\* A full sector buffer is flushed: erase, then write.
OtaSector ==
  /\ Awake
  /\ otaPc = "stream"
  /\ slots' = [slots EXCEPT ![passive] = Torn]
  /\ UNCHANGED <<otadata, op, mode, running, local, selftest, trigger, otaVars,
                 published, confirmed, budget>>

\* A flush fails; its erase may already have cleared the sector.
OtaSectorFails ==
  /\ Awake
  /\ otaPc = "stream"
  /\ FlashFault
  /\ \/ UNCHANGED slots
     \/ slots' = [slots EXCEPT ![passive] = Torn]
  /\ BackToWait
  /\ UNCHANGED <<otadata, op, mode, running, local, selftest,
                 published, confirmed, releases, resets, readFaults>>

\* Any transport error, status other than 200, unparsable body, oversize or
\* short image: what was flushed so far stays in the slot.
OtaGiveUp ==
  /\ Awake
  /\ otaPc \in {"lookup", "digest", "head", "stream"}
  /\ BackToWait
  /\ UNCHANGED <<flash, op, mode, running, local, selftest,
                 published, confirmed, budget>>

\* The digest differs: abort erases the first sector of the slot.
OtaMismatch ==
  /\ Awake
  /\ otaPc = "stream"
  /\ slots' = [slots EXCEPT ![passive] = Torn]
  /\ BackToWait
  /\ UNCHANGED <<otadata, op, mode, running, local, selftest,
                 published, confirmed, budget>>

\* The digest matches: mark_updated flushes the rest and mark_trial_boot
\* resolves otadata afresh and erases the sector of the other entry.
OtaCommit ==
  /\ Awake
  /\ otaPc = "stream"
  /\ slots' = [slots EXCEPT ![passive] = remote]
  /\ BeginMark("trial", TrialSector(otadata), TrialSeq(otadata, passive))
  /\ UNCHANGED <<mode, running, local, selftest, trigger, otaVars,
                 published, confirmed, budget>>

\* The same, but mark_trial_boot fails at once.
OtaCommitFails ==
  /\ Awake
  /\ otaPc = "stream"
  /\ slots' = [slots EXCEPT ![passive] = remote]
  /\ FailMark(TrialSector(otadata))
  /\ BackToWait
  /\ UNCHANGED <<op, mode, running, local, selftest,
                 published, confirmed, releases, resets, readFaults>>

-----------------------------------------------------------------------------
(* The operator                                                            *)

\* No update is being fetched and no trial is running.
Quiet ==
  /\ op = NoOp
  /\ otaPc \in {"wait", "lookup"}
  /\ ~Resolve(otadata).trial

\* deploy.sh renames the version file into place, after the image and its digest.
Publish(v) ==
  /\ releases < MaxReleases
  /\ v # published
  /\ TrialReleases \/ Quiet
  /\ published' = v
  /\ releases' = releases + 1
  /\ UNCHANGED <<flash, op, mode, running, local, selftest, trigger, otaVars,
                 confirmed, resets, faults, readFaults>>

-----------------------------------------------------------------------------

SelfTest == SelfTestStart \/ SelfTestCannotRead \/ SelfTestPass
            \/ SelfTestFail \/ SelfTestMarkFails

Ota == OtaWake \/ OtaVersion \/ OtaDigest \/ OtaHead \/ OtaHeadMisread
       \/ OtaSector \/ OtaSectorFails \/ OtaGiveUp \/ OtaMismatch
       \/ OtaCommit \/ OtaCommitFails

Next ==
  \/ Boot \/ BootFails \/ Reset
  \/ MarkWrite \/ MarkWriteFails
  \/ SelfTest
  \/ TriggerCheck \/ Ota
  \/ \E v \in Versions : Publish(v)

Spec == Init /\ [][Next]_vars

\* The bootloader always runs, a flash operation returns, the self test ends
\* within its window, and every await of a check has a timeout.
Fairness ==
  /\ WF_vars(Boot)
  /\ WF_vars(MarkWrite)
  /\ WF_vars(SelfTestStart)
  /\ WF_vars(SelfTestPass \/ SelfTestFail)
  /\ WF_vars(OtaWake)
  /\ WF_vars(OtaVersion)
  /\ WF_vars(OtaDigest)
  /\ WF_vars(OtaHead)
  /\ WF_vars(OtaGiveUp \/ OtaMismatch \/ OtaCommit)

FairSpec == Spec /\ Fairness

-----------------------------------------------------------------------------
(* Properties                                                              *)

\* The sectors once the entry that is selected now has become unusable.
WithoutSelected(od) == [od EXCEPT ![Resolve(od).sector] = ErasedEntry]

\* Power may be cut at any instant, between an erase and its write included,
\* and the slot that otadata then selects holds one whole image: no download
\* that was cut short, rejected or not yet committed is ever selected.
AlwaysBootable ==
  /\ slots[Resolve(otadata).slot] # Torn
  /\ slots[BootSlot(otadata)] # Torn

\* While a trial image is selected, discarding its entry (mark_invalid, or a
\* cut in the middle of mark_valid) selects the other slot, and that slot holds
\* an image that was confirmed before.
FallbackReady ==
  Resolve(otadata).trial =>
    LET fallback == Resolve(WithoutSelected(otadata))
    IN  /\ fallback.slot # Resolve(otadata).slot
        /\ ~fallback.trial
        /\ slots[fallback.slot] \in confirmed

\* What otadata says matches what runs: mark_valid and mark_invalid act on
\* the entry of the image that calls them, and passive_slot is not running.
RunningIsSelected ==
  Awake => /\ Resolve(otadata).slot = running
           /\ slots[running] = local

\* An image that runs without being under test has passed its test before:
\* no sequence of resets and failed flash operations skips the self test.
UnprovenOnlyOnTrial ==
  mode = "on" /\ selftest = "done" => local \in confirmed

\* A running device never erases or writes the slot it runs from.
RunningSlotNeverWritten ==
  [][mode = "on" => slots'[running] = slots[running]]_vars

\* Whatever failed before, when ota_task resets the chip the slot selected
\* next holds exactly the release it verified, and is booted on trial, until
\* the sequence numbers are used up.
ResetBootsVerified ==
  [][mode = "on" /\ op.kind = "trial" /\ op.seq # MaxSeq /\ otadata' # otadata =>
       /\ Resolve(otadata').slot = passive
       /\ Resolve(otadata').trial
       /\ slots'[passive] = remote]_vars

\* Every trial boot ends on an image that passed the self test, on this boot
\* or a later one, whichever image, flash or power failures come in between.
TrialSettles ==
  mode = "on" /\ selftest = "testing"
    ~> mode = "on" /\ selftest = "done" /\ local \in confirmed

\* A trigger that arrives during a check is not lost: another check follows.
TriggerServed ==
  trigger /\ otaPc \in {"digest", "head", "stream"}
    ~> mode # "on" \/ otaPc = "lookup"

-----------------------------------------------------------------------------
(* The update contract                                                     *)

\* The image a trial boot starts, up to the write that decides about it.
CandidateImage ==
  IF op.kind \in {"valid", "invalid"} THEN local
  ELSE IF Resolve(otadata).trial THEN slots[Resolve(otadata).slot]
  ELSE Torn

\* The image otadata selects once a candidate is out of the way.
ProvenImage ==
  IF Resolve(otadata).trial THEN slots[Resolve(WithoutSelected(otadata)).slot]
                            ELSE slots[Resolve(otadata).slot]

Contract == INSTANCE UpdateContract WITH
  Images <- Versions, FirstImage <- Factory, NoImage <- Torn,
  proven <- ProvenImage, candidate <- CandidateImage

\* Slots, sequence numbers, torn otadata updates, failing flash and resets
\* included, the device behaves as the update contract says.
ImplementsContract == Contract!ContractSpec

=============================================================================
