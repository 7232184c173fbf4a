--------------------------- MODULE OtaBootProofs ---------------------------
(***************************************************************************)
(* Safety of the update path, for every number of releases, resets and     *)
(* failed flash erases and writes, and for both kinds of bootloader:       *)
(* whatever is interrupted, the selected slot holds a whole image, and     *)
(* rejecting a trial falls back to a confirmed one.                        *)
(*                                                                         *)
(* Two assumptions delimit it, and the runs OtaTrialRelease and OtaMisread *)
(* show that neither can be dropped: no release appears while an update is *)
(* in flight, and otadata can be read.  What is said of the running image  *)
(* alone needs the second only.                                            *)
(***************************************************************************)
EXTENDS MCOtaBoot, OtaDataProofs

\* The selected image: on trial it is the published release and its rejection
\* selects a confirmed image in the other slot; otherwise it is confirmed.
SelectionInv ==
  /\ FallbackReady
  /\ Resolve(otadata).trial => slots[Resolve(otadata).slot] = published
  /\ ~Resolve(otadata).trial => slots[Resolve(otadata).slot] \in confirmed

\* Only the selected entry can be on trial.
TrialInv ==
  \A sec \in Sectors :
    IsUsable(otadata[sec]) /\ IsTrialState(otadata[sec].state)
      => sec = Resolve(otadata).sector

\* What the tasks know agrees with flash between two otadata updates.
RunInv ==
  /\ mode # "halted"
  /\ mode = "off" => op = NoOp /\ otaPc = "wait"
  /\ mode = "on" /\ op.kind \in {"none", "trial"} =>
       /\ running = Resolve(otadata).slot
       /\ local = slots[running]
       /\ selftest = "testing" => Resolve(otadata).trial
       /\ selftest = "done" => ~Resolve(otadata).trial

\* A download fetches the published release into the slot that does not run,
\* and only while the running image is not on trial.
OtaInv ==
  /\ otaPc \in {"digest", "head", "stream"} =>
       /\ mode = "on"
       /\ op.kind \in {"none", "trial"}
       /\ ~Resolve(otadata).trial
       /\ remote = published
  /\ otaPc = "stream" => passive = OtherSlot(Resolve(otadata).slot)

\* An unfinished otadata update knows the entry it is about to write.
OpInv ==
  /\ op.kind = "none" => op = NoOp
  /\ op.kind # "none" => mode = "on" /\ otadata[op.sector] = ErasedEntry
  /\ op.kind = "trial" =>
       /\ otaPc = "stream"
       /\ op.sector = TrialSector(otadata)
       /\ op.seq = TrialSeq(otadata, passive)
       /\ slots[passive] = remote
  /\ op.kind \in {"valid", "invalid"} =>
       /\ selftest = "testing"
       /\ op.seq \in 1..(MaxSeq - 1)
       /\ IsUsable(otadata[OtherSector(op.sector)])
            => otadata[OtherSector(op.sector)].seq < op.seq
       /\ running = SlotOfSeq(op.seq)
       /\ local = slots[running]
       /\ local = published
       /\ ~Resolve(otadata).trial
       /\ Resolve(otadata).slot # running

FlashInv == SelectionInv /\ TrialInv
TaskInv  == RunInv /\ OtaInv /\ OpInv
Inv      == FlashInv /\ TaskInv

-----------------------------------------------------------------------------
(* Types                                                                   *)

\* The entry a mark_* writes is an otadata entry, whatever it marks.
LEMMA MarkEntryType ==
  ASSUME NEW kind \in {"trial", "valid", "invalid"}, NEW seq \in 0..MaxSeq
  PROVE  MarkEntry(kind, seq) \in Entries
BY EntryTypes DEF MarkEntry, NewTrial, NewValid, Entries, States

\* next_seq_for_slot never leaves the width of the counter.
LEMMA TrialSeqType ==
  ASSUME NEW od \in [Sectors -> Entries], NEW slot \in Slots
  PROVE  TrialSector(od) \in Sectors /\ TrialSeq(od, slot) \in 0..MaxSeq
BY ResolveType, SectorPairs, NextSeqAbove, MaxSeqAssumption
   DEF TrialSector, TrialSeq

\* What the bootloader writes are entries again.
LEMMA BootloaderTypes ==
  ASSUME NEW od \in [Sectors -> Entries]
  PROVE  Aborted(od) \in [Sectors -> Entries] /\ Pending(od) \in [Sectors -> Entries]
BY DEF Aborted, Pending, Entries, States

\* Type correctness of every step: the sequence number stays within its width
\* and the bounds of the model are respected.
THEOREM Typing == Spec => []TypeOK
<1>1. Init => TypeOK
  <2> SUFFICES ASSUME Init PROVE TypeOK
    OBVIOUS
  <2>1. trigger \in BOOLEAN
    BY Zenon DEF Init
  <2>2. otadata \in [Sectors -> Entries] /\ slots \in [Slots -> Versions \cup {Torn}]
    BY ConstantsAssumption, EntryTypes DEF Init
  <2>3. op \in Ops
    BY MaxSeqAssumption DEF Init, NoOp, Ops, Sectors
  <2> QED
    BY <2>1, <2>2, <2>3, ConstantsAssumption DEF Init, TypeOK, OtaPcs, Slots
<1>2. TypeOK /\ [Next]_vars => TypeOK'
  <2> SUFFICES ASSUME TypeOK, [Next]_vars PROVE TypeOK'
    OBVIOUS
  <2> USE DEF TypeOK, flash, otaVars, budget
  <2>0. NoOp \in Ops
    BY MaxSeqAssumption DEF NoOp, Ops, Sectors
  <2>d. GoDown => /\ op' \in Ops /\ mode' \in {"on", "off"} /\ otaPc' \in OtaPcs
                  /\ selftest' \in {"spawned", "testing", "done"}
                  /\ trigger' \in BOOLEAN
                  /\ remote' = remote /\ passive' = passive
    <3>1. GoDown => trigger' \in BOOLEAN
      BY Zenon DEF GoDown
    <3> QED
      BY <2>0, <3>1 DEF GoDown, OtaPcs
  <2>1. CASE Boot
    BY <2>1, ResolveType, BootloaderTypes DEF Boot, BootSlot
  <2>2. CASE BootFails
    BY <2>2 DEF BootFails
  <2>3. CASE Reset
    BY <2>d, <2>3, ConstantsAssumption DEF Reset
  <2>4. CASE MarkWrite
    <3>1. op.kind \in {"trial", "valid", "invalid"} /\ op.seq \in 0..MaxSeq
          /\ op.sector \in Sectors
      BY <2>4 DEF MarkWrite, Ops
    <3>2. otadata' \in [Sectors -> Entries]
      BY <2>4, <3>1, MarkEntryType DEF MarkWrite
    <3>3. op' \in Ops /\ mode' \in {"on", "off"} /\ otaPc' \in OtaPcs
          /\ trigger' \in BOOLEAN /\ confirmed' \subseteq Versions
          /\ selftest' \in {"spawned", "testing", "done"}
          /\ remote' = remote /\ passive' = passive
      BY <2>0, <2>d, <2>4 DEF MarkWrite
    <3> QED
      BY <2>4, <3>2, <3>3 DEF MarkWrite
  <2>5. CASE MarkWriteFails
    BY <2>0, <2>d, <2>5, ConstantsAssumption
       DEF MarkWriteFails, BackToWait, FlashFault, OtaPcs
  <2>6. CASE SelfTest
    <3>1. CASE SelfTestStart
      BY <3>1 DEF SelfTestStart
    <3>2. CASE SelfTestCannotRead
      BY <3>2, ConstantsAssumption DEF SelfTestCannotRead, ReadFault
    <3>3. CASE SelfTestPass \/ SelfTestFail
      BY <3>3, ResolveType, EntryTypes, MaxSeqAssumption
         DEF SelfTestPass, SelfTestFail, BeginMark, Ops
    <3>4. CASE SelfTestMarkFails
      BY <2>d, <3>4, ResolveType, EntryTypes, ConstantsAssumption
         DEF SelfTestMarkFails, FailMark, FlashFault
    <3> QED
      BY <2>6, <3>1, <3>2, <3>3, <3>4 DEF SelfTest
  <2>7. CASE TriggerCheck
    BY <2>7 DEF TriggerCheck
  <2>8. CASE Ota
    <3>1. CASE OtaWake \/ OtaDigest
      <4>1. trigger' \in BOOLEAN
        BY <3>1, Zenon DEF OtaWake, OtaDigest
      <4> QED
        BY <3>1, <4>1 DEF OtaWake, OtaDigest, OtaPcs
    <3>2. CASE OtaVersion
      BY <3>2 DEF OtaVersion, OtaPcs
    <3>3. CASE OtaHead \/ OtaHeadMisread
      BY <3>3, ResolveType, SlotPairs, ConstantsAssumption
         DEF OtaHead, OtaHeadMisread, PassiveSlot, ReadFault, OtaPcs, Slots
    <3>4. CASE OtaSector \/ OtaMismatch \/ OtaGiveUp
      BY <3>4 DEF OtaSector, OtaMismatch, OtaGiveUp, BackToWait, OtaPcs
    <3>5. CASE OtaSectorFails
      BY <3>5, ConstantsAssumption
         DEF OtaSectorFails, FlashFault, BackToWait, OtaPcs
    <3>6. CASE OtaCommit
      BY <3>6, TrialSeqType, EntryTypes DEF OtaCommit, BeginMark, Ops
    <3>7. CASE OtaCommitFails
      BY <3>7, TrialSeqType, EntryTypes, ConstantsAssumption
         DEF OtaCommitFails, FailMark, FlashFault, BackToWait, OtaPcs
    <3> QED
      BY <2>8, <3>1, <3>2, <3>3, <3>4, <3>5, <3>6, <3>7 DEF Ota
  <2>9. CASE \E v \in Versions : Publish(v)
    BY <2>9, ConstantsAssumption DEF Publish
  <2>10. CASE UNCHANGED vars
    BY <2>10 DEF vars
  <2> QED
    BY <2>1, <2>2, <2>3, <2>4, <2>5, <2>6, <2>7, <2>8, <2>9, <2>10 DEF Next
<1> QED
  BY <1>1, <1>2, PTL DEF Spec

-----------------------------------------------------------------------------
(* The bootloader's writes                                                 *)

\* Marking the booted entry pending changes nothing arbitration looks at.
LEMMA PendingResolves ==
  ASSUME NEW od \in [Sectors -> Entries]
  PROVE  /\ \A sec \in Sectors :
              /\ IsUsable(Pending(od)[sec]) <=> IsUsable(od[sec])
              /\ Pending(od)[sec].seq = od[sec].seq
              /\ IsTrialState(Pending(od)[sec].state) = IsTrialState(od[sec].state)
         /\ Resolve(Pending(od)) = Resolve(od)
<1>1. Pending(od) \in [Sectors -> Entries]
  BY BootloaderTypes
<1>2. ASSUME NEW sec \in Sectors
      PROVE  /\ IsUsable(Pending(od)[sec]) <=> IsUsable(od[sec])
             /\ Pending(od)[sec].seq = od[sec].seq
             /\ IsTrialState(Pending(od)[sec].state) = IsTrialState(od[sec].state)
  BY <1>2 DEF Pending, IsUsable, IsTrialState, Entries
<1> QED
  BY <1>1, <1>2, ResolveDependsOn

\* If only the selected entry can be on trial, aborting pending entries either
\* leaves the selection alone or rejects exactly the trial that was selected.
LEMMA AbortedResolves ==
  ASSUME NEW od \in [Sectors -> Entries],
         \A sec \in Sectors : IsUsable(od[sec]) /\ IsTrialState(od[sec].state)
                                => sec = Resolve(od).sector
  PROVE  \/ /\ Resolve(Aborted(od)) = Resolve(od)
            /\ \A sec \in Sectors :
                 /\ IsUsable(Aborted(od)[sec]) <=> IsUsable(od[sec])
                 /\ IsUsable(od[sec]) => Aborted(od)[sec] = od[sec]
         \/ /\ Resolve(od).trial
            /\ Resolve(Aborted(od)) = Resolve(WithoutSelected(od))
            /\ \A sec \in Sectors :
                 IsUsable(Aborted(od)[sec]) =>
                   sec # Resolve(od).sector /\ Aborted(od)[sec] = od[sec]
<1> DEFINE r == Resolve(od)
           ab == Aborted(od)
<1>1. ab \in [Sectors -> Entries] /\ r.sector \in Sectors
  BY BootloaderTypes, ResolveType
<1>2. \A sec \in Sectors :
        ab[sec] = IF AppRollback /\ od[sec].state = "PENDING_VERIFY"
                    THEN [od[sec] EXCEPT !.state = "ABORTED"] ELSE od[sec]
  BY DEF Aborted
<1>3. \A sec \in Sectors :
        \/ ab[sec] = od[sec]
        \/ ~IsUsable(ab[sec]) /\ IsTrialState(od[sec].state)
  <2> SUFFICES ASSUME NEW sec \in Sectors, ab[sec] # od[sec]
               PROVE  ~IsUsable(ab[sec]) /\ IsTrialState(od[sec].state)
    OBVIOUS
  <2>1. /\ od[sec].state = "PENDING_VERIFY"
        /\ ab[sec] = [od[sec] EXCEPT !.state = "ABORTED"]
    BY <1>2
  <2>2. ab[sec].state = "ABORTED"
    BY <2>1 DEF Entries
  <2> QED
    BY <2>1, <2>2 DEF IsUsable, IsTrialState
<1>4. CASE IsUsable(od[r.sector]) /\ ~IsUsable(ab[r.sector])
  <2> DEFINE wo == WithoutSelected(od)
  <2>1. SomeUsable(od) /\ IsTrialState(od[r.sector].state)
    BY <1>1, <1>3, <1>4 DEF SomeUsable
  <2>2. r.trial
    BY <2>1, ResolveWinner
  <2>3. \A sec \in Sectors : IsUsable(ab[sec]) => sec # r.sector /\ ab[sec] = od[sec]
    BY <1>3, <1>4
  <2>4. wo \in [Sectors -> Entries] /\ ~IsUsable(wo[r.sector])
        /\ \A sec \in Sectors : sec # r.sector => wo[sec] = od[sec]
    BY <1>1, EntryTypes DEF WithoutSelected
  <2>5. \A sec \in Sectors : sec # r.sector => (IsUsable(ab[sec]) <=> IsUsable(od[sec]))
    BY <1>3
  <2>6. \A sec \in Sectors :
          /\ IsUsable(ab[sec]) <=> IsUsable(wo[sec])
          /\ IsUsable(wo[sec]) => ab[sec] = wo[sec]
    BY <1>4, <2>3, <2>4, <2>5
  <2>7. Resolve(ab) = Resolve(wo)
    <3> HIDE DEF wo, ab
    <3> QED BY <1>1, <2>4, <2>6, ResolveDependsOn
  <2> QED
    BY <2>2, <2>3, <2>7
<1>5. CASE ~(IsUsable(od[r.sector]) /\ ~IsUsable(ab[r.sector]))
  <2>1. \A sec \in Sectors :
          /\ IsUsable(ab[sec]) <=> IsUsable(od[sec])
          /\ IsUsable(od[sec]) => ab[sec] = od[sec]
    BY <1>1, <1>3, <1>5
  <2>2. Resolve(ab) = Resolve(od)
    <3> HIDE DEF ab
    <3> QED BY <1>1, <2>1, ResolveDependsOn
  <2> QED
    BY <2>1, <2>2
<1> QED
  BY <1>4, <1>5

-----------------------------------------------------------------------------
(* The running image                                                       *)

\* What runs is what otadata selects, a download goes to the other slot, and an
\* unfinished confirmation or rejection knows the entry of what runs.
ActiveInv ==
  /\ op.kind = "none" => op = NoOp
  /\ mode # "on" => op = NoOp /\ otaPc = "wait"
  /\ mode = "on" => local = slots[running]
  /\ mode = "on" /\ op.kind \in {"none", "trial"} => running = Resolve(otadata).slot
  /\ otaPc = "stream" => passive = OtherSlot(running)
  /\ op.kind \in {"valid", "invalid"} =>
       /\ op.seq \in 1..(MaxSeq - 1)
       /\ running = SlotOfSeq(op.seq)
       /\ IsUsable(otadata[OtherSector(op.sector)])
            => otadata[OtherSector(op.sector)].seq <= op.seq

LEMMA ActiveInit == Init => ActiveInv
  BY DEF Init, ActiveInv, NoOp

\* A reset loses everything the invariant is about.
LEMMA ActiveDown ==
  ASSUME GoDown
  PROVE  ActiveInv'
  BY DEF GoDown, ActiveInv, NoOp

\* The entry of the running image, written back with the number it had, wins
\* again, even against one with the same number.
LEMMA ConfirmedWins ==
  ASSUME TypeOK, ActiveInv, op.kind = "valid",
         otadata' = [otadata EXCEPT ![op.sector] = NewValid(op.seq)]
  PROVE  Resolve(otadata').slot = running
<1> DEFINE sec == op.sector
           won == Resolve(otadata')
<1>1. /\ otadata \in [Sectors -> Entries] /\ sec \in Sectors
      /\ OtherSector(sec) \in Sectors /\ OtherSector(sec) # sec
      /\ op.seq \in 1..(MaxSeq - 1) /\ running = SlotOfSeq(op.seq)
      /\ IsUsable(otadata[OtherSector(sec)]) => otadata[OtherSector(sec)].seq <= op.seq
      /\ MaxSeq \in Nat
  BY SectorPairs, MaxSeqAssumption DEF TypeOK, Ops, ActiveInv
<1>2. /\ NewValid(op.seq) \in Entries /\ IsUsable(NewValid(op.seq))
      /\ NewValid(op.seq).seq = op.seq
  BY <1>1, EntryTypes, MaxSeqAssumption DEF NewValid, IsUsable
<1>3. /\ otadata' \in [Sectors -> Entries]
      /\ otadata'[sec] = NewValid(op.seq)
      /\ otadata'[OtherSector(sec)] = otadata[OtherSector(sec)]
  BY <1>1, <1>2
<1>4. SomeUsable(otadata')
  BY <1>1, <1>2, <1>3 DEF SomeUsable
<1>5. /\ won.sector \in Sectors /\ won.slot = SlotOfSeq(won.seq)
      /\ won.seq \in 1..(MaxSeq - 1)
  BY <1>3, ResolveType
<1>6. /\ IsUsable(otadata'[won.sector]) /\ won.seq = otadata'[won.sector].seq
      /\ op.seq <= won.seq
  <2>1. /\ IsUsable(otadata'[won.sector]) /\ won.seq = otadata'[won.sector].seq
        /\ \A t \in Sectors : IsUsable(otadata'[t]) => otadata'[t].seq <= won.seq
    BY <1>3, <1>4, ResolveWinner
  <2>2. otadata'[sec].seq <= won.seq
    BY <1>1, <1>2, <1>3, <2>1
  <2>. QED
    BY <1>2, <1>3, <2>1, <2>2
<1>7. won.seq <= op.seq
  <2>1. won.sector = sec \/ won.sector = OtherSector(sec)
    BY <1>1, <1>5, SectorPairs
  <2>2. CASE won.sector = sec
    BY <1>1, <1>2, <1>3, <1>6, <2>2
  <2>3. CASE won.sector = OtherSector(sec)
    BY <1>1, <1>3, <1>6, <2>3
  <2>. QED
    BY <2>1, <2>2, <2>3
<1>8. won.seq = op.seq
  BY <1>1, <1>5, <1>6, <1>7
<1>. QED
  BY <1>1, <1>5, <1>8

\* One step, whatever releases appear and whatever fails, as long as otadata can
\* be read.
LEMMA ActiveNext ==
  ASSUME TypeOK, ActiveInv, Next, MaxReadFaults = 0
  PROVE  ActiveInv'
<1> USE DEF flash, otaVars, budget
<1> DEFINE r == Resolve(otadata)
<1>t. /\ otadata \in [Sectors -> Entries] /\ r.sector \in Sectors
      /\ r.slot = SlotOfSeq(r.seq) /\ r.seq \in 1..(MaxSeq - 1)
      /\ slots \in [Slots -> Versions \cup {Torn}]
      /\ running \in Slots /\ passive \in Slots
      /\ op.kind \in {"none", "trial", "valid", "invalid"}
  BY ResolveType DEF TypeOK, Ops
<1>n. NoOp.kind = "none"
  BY DEF NoOp
<1>o. OtherSlot(running) # running
  BY <1>t, SlotPairs
<1>f. ~ReadFault
  BY DEF ReadFault, TypeOK
<1>1. CASE Boot
  <2>1. /\ mode = "off" /\ op' = op /\ otaPc' = otaPc /\ slots' = slots
        /\ running' = BootSlot(otadata) /\ local' = slots[BootSlot(otadata)]
        /\ otadata' = Pending(Aborted(otadata))
    BY <1>1 DEF Boot
  <2>2. Resolve(otadata').slot = BootSlot(otadata)
    <3>1. Aborted(otadata) \in [Sectors -> Entries]
      BY <1>t, BootloaderTypes
    <3>. QED
      BY <2>1, <3>1, PendingResolves DEF BootSlot
  <2>. QED
    BY <1>n, <2>1, <2>2 DEF ActiveInv
<1>2. CASE BootFails
  BY <1>2, <1>n DEF BootFails, ActiveInv
<1>3. CASE Reset
  BY <1>3, ActiveDown DEF Reset
<1>4. CASE MarkWrite
  <2>1. CASE op.kind = "valid"
    <3>1. /\ mode = "on" /\ mode' = mode /\ op' = NoOp
          /\ otadata' = [otadata EXCEPT ![op.sector] = NewValid(op.seq)]
          /\ UNCHANGED <<slots, running, local, otaVars>>
      BY <1>4, <2>1 DEF MarkWrite, MarkEntry
    <3>2. Resolve(otadata').slot = running
      BY <2>1, <3>1, ConfirmedWins
    <3>. QED
      BY <1>n, <3>1, <3>2 DEF ActiveInv
  <2>2. CASE op.kind # "valid"
    BY <1>4, <2>2, ActiveDown DEF MarkWrite
  <2>. QED
    BY <2>1, <2>2
<1>5. CASE MarkWriteFails
  <2>1. CASE op.kind = "trial"
    <3>1. /\ mode = "on" /\ mode' = mode /\ op' = NoOp /\ otaPc' = "wait"
          /\ UNCHANGED <<otadata, slots, running, local>>
      BY <1>5, <2>1 DEF MarkWriteFails, BackToWait
    <3>. QED
      BY <1>n, <2>1, <3>1 DEF ActiveInv
  <2>2. CASE op.kind # "trial"
    BY <1>5, <2>2, ActiveDown DEF MarkWriteFails
  <2>. QED
    BY <2>1, <2>2
<1>6. CASE SelfTestPass \/ SelfTestFail
  <2>1. /\ mode = "on" /\ op = NoOp /\ mode' = mode
        /\ op'.kind \in {"valid", "invalid"} /\ op'.sector = r.sector /\ op'.seq = r.seq
        /\ otadata' = [otadata EXCEPT ![r.sector] = ErasedEntry]
        /\ UNCHANGED <<slots, running, local, otaPc, passive>>
    BY <1>6 DEF SelfTestPass, SelfTestFail, Awake, BeginMark
  <2>2. running = r.slot
    BY <1>n, <2>1 DEF ActiveInv
  <2>3. /\ OtherSector(r.sector) \in Sectors
        /\ otadata'[OtherSector(r.sector)] = otadata[OtherSector(r.sector)]
    BY <1>t, <2>1, SectorPairs
  <2>4. IsUsable(otadata[OtherSector(r.sector)])
          => otadata[OtherSector(r.sector)].seq <= r.seq
    BY <1>t, <2>3, ResolveWinner DEF SomeUsable
  <2>. HIDE DEF r
  <2>5. /\ op'.seq \in 1..(MaxSeq - 1)
        /\ running' = SlotOfSeq(op'.seq)
        /\ IsUsable(otadata'[OtherSector(op'.sector)])
             => otadata'[OtherSector(op'.sector)].seq <= op'.seq
    BY <1>t, <2>1, <2>2, <2>3, <2>4
  <2>. QED
    BY <2>1, <2>5 DEF ActiveInv
<1>7. CASE SelfTestMarkFails
  BY <1>7, ActiveDown DEF SelfTestMarkFails
<1>8. CASE OtaHead
  <2>1. /\ mode = "on" /\ op = NoOp /\ mode' = mode /\ op' = op
        /\ passive' = OtherSlot(r.slot)
        /\ UNCHANGED <<otadata, slots, running, local>>
    BY <1>8 DEF OtaHead, Awake, PassiveSlot
  <2>. QED
    BY <1>n, <2>1 DEF ActiveInv
<1>9. CASE OtaSector \/ OtaSectorFails \/ OtaMismatch
  <2>1. /\ mode = "on" /\ mode' = mode /\ op = NoOp /\ op' = op /\ otaPc = "stream"
        /\ otaPc' \in {"stream", "wait"}
        /\ slots' = slots \/ slots' = [slots EXCEPT ![passive] = Torn]
        /\ UNCHANGED <<otadata, running, local, passive>>
    BY <1>9 DEF OtaSector, OtaSectorFails, OtaMismatch, Awake, BackToWait
  <2>2. slots'[running] = slots[running]
    BY <1>t, <1>o, <2>1 DEF ActiveInv
  <2>. QED
    BY <1>n, <2>1, <2>2 DEF ActiveInv
<1>10. CASE OtaCommit \/ OtaCommitFails
  <2>1. /\ mode = "on" /\ mode' = mode /\ op = NoOp /\ otaPc = "stream"
        /\ (op' = op \/ op'.kind = "trial")
        /\ (otaPc' = otaPc \/ otaPc' = "wait")
        /\ slots' = [slots EXCEPT ![passive] = remote]
        /\ \/ otadata' = otadata
           \/ otadata' = [otadata EXCEPT ![OtherSector(r.sector)] = ErasedEntry]
        /\ UNCHANGED <<running, local, passive>>
    BY <1>10 DEF OtaCommit, OtaCommitFails, Awake, BeginMark, FailMark, BackToWait,
                 TrialSector
  <2>2. slots'[running] = slots[running]
    BY <1>t, <1>o, <2>1 DEF ActiveInv
  <2>3. Resolve(otadata') = r
    BY <1>t, <2>1, EraseUnselected
  <2>. QED
    BY <1>n, <2>1, <2>2, <2>3 DEF ActiveInv
<1>11. CASE \/ SelfTestStart \/ TriggerCheck \/ OtaWake \/ OtaVersion \/ OtaDigest
            \/ OtaGiveUp \/ \E v \in Versions : Publish(v)
  <2>1. /\ UNCHANGED <<otadata, slots, op, mode, running, local, passive>>
        /\ otaPc' = otaPc \/ (mode = "on" /\ otaPc' # "stream")
    BY <1>11 DEF SelfTestStart, TriggerCheck, OtaWake, OtaVersion, OtaDigest,
                 OtaGiveUp, BackToWait, Publish, Awake
  <2>. QED
    BY <2>1 DEF ActiveInv
<1>12. CASE SelfTestCannotRead \/ OtaHeadMisread
  BY <1>12, <1>f DEF SelfTestCannotRead, OtaHeadMisread
<1> QED
  BY <1>1, <1>2, <1>3, <1>4, <1>5, <1>6, <1>7, <1>8, <1>9, <1>10, <1>11, <1>12
     DEF Next, SelfTest, Ota

LEMMA ActiveAlways ==
  ASSUME MaxReadFaults = 0
  PROVE  Spec => [](TypeOK /\ ActiveInv)
<1>1. TypeOK /\ ActiveInv /\ [Next]_vars => ActiveInv'
  <2>1. ASSUME ActiveInv, UNCHANGED vars PROVE ActiveInv'
    BY <2>1 DEF vars, ActiveInv
  <2> QED
    BY <2>1, ActiveNext
<1> QED
  BY <1>1, ActiveInit, Typing, PTL DEF Spec

\* Outside an otadata update the active slot is the running slot, so mark_valid
\* and mark_invalid act on the caller's own entry and passive_slot never names
\* the running image (partition.rs OtaStorage), whatever releases appear while
\* an update or a trial is under way.
THEOREM RunningIsSelectedHolds ==
  ASSUME MaxReadFaults = 0
  PROVE  Spec => []RunningIsSelected
<1>1. ActiveInv => RunningIsSelected
  BY DEF ActiveInv, RunningIsSelected, Awake, NoOp
<1> QED
  BY <1>1, ActiveAlways, PTL

\* As the bench checklist asks in C4, the active slot stays bootable: as long as
\* otadata can be read, no sequence of releases, cut downloads, resets and flash
\* failures overwrites the slot that runs.
THEOREM ActiveSlotStaysBootableHolds ==
  ASSUME MaxReadFaults = 0
  PROVE  Spec => []ActiveSlotStaysBootable
<1>1. ActiveInv => ActiveSlotStaysBootable
  BY DEF ActiveInv, ActiveSlotStaysBootable
<1> QED
  BY <1>1, ActiveAlways, PTL

\* No step of a running device erases or writes the slot it runs from
\* (ota/mod.rs SlotFlasher, partition.rs passive_slot), whatever releases appear.
THEOREM RunningSlotNeverWrittenHolds ==
  ASSUME MaxReadFaults = 0
  PROVE  Spec => RunningSlotNeverWritten
<1>1. TypeOK /\ ActiveInv /\ [Next]_vars
        => [mode = "on" => slots'[running] = slots[running]]_vars
  <2> SUFFICES ASSUME TypeOK, ActiveInv, Next, mode = "on", slots' # slots
               PROVE  slots'[running] = slots[running]
    BY DEF vars
  <2>1. /\ otaPc = "stream"
        /\ \/ slots' = [slots EXCEPT ![passive] = Torn]
           \/ slots' = [slots EXCEPT ![passive] = remote]
    BY DEF Next, SelfTest, Ota, Boot, BootFails, Reset, MarkWrite, MarkWriteFails,
           SelfTestStart, SelfTestCannotRead, SelfTestPass, SelfTestFail,
           SelfTestMarkFails, TriggerCheck, OtaWake, OtaVersion, OtaDigest, OtaHead,
           OtaHeadMisread, OtaSector, OtaSectorFails, OtaGiveUp, OtaMismatch,
           OtaCommit, OtaCommitFails, Publish, flash
  <2>2. passive = OtherSlot(running) /\ running \in Slots
    BY <2>1 DEF ActiveInv, TypeOK
  <2> QED
    BY <2>1, <2>2, SlotPairs DEF TypeOK
<1> QED
  BY <1>1, ActiveAlways, PTL DEF Spec, RunningSlotNeverWritten

-----------------------------------------------------------------------------
(* What a step does to the selection                                       *)

\* A step that leaves flash and its history alone keeps the flash invariant.
LEMMA FlashKept ==
  ASSUME FlashInv, UNCHANGED <<otadata, slots, published, confirmed>>
  PROVE  FlashInv'
BY DEF FlashInv, SelectionInv, TrialInv, FallbackReady

\* Discarding the entry of a trial selects the confirmed image of the other
\* slot, and nothing is on trial any more.
LEMMA TrialDropped ==
  ASSUME TypeOK, FlashInv, Resolve(otadata).trial,
         otadata' = WithoutSelected(otadata),
         UNCHANGED <<slots, published, confirmed>>
  PROVE  /\ FlashInv'
         /\ ~Resolve(otadata').trial
         /\ Resolve(otadata').slot # Resolve(otadata).slot
         /\ \A sec \in Sectors : IsUsable(otadata'[sec]) =>
              /\ sec # Resolve(otadata).sector
              /\ otadata'[sec] = otadata[sec]
              /\ otadata'[sec].seq < Resolve(otadata).seq
<1> DEFINE r == Resolve(otadata)
<1>1. otadata \in [Sectors -> Entries] /\ r.sector \in Sectors
  BY ResolveType DEF TypeOK
<1>2. /\ otadata' \in [Sectors -> Entries]
      /\ otadata'[r.sector] = ErasedEntry
      /\ ~IsUsable(otadata'[r.sector])
      /\ \A sec \in Sectors : sec # r.sector => otadata'[sec] = otadata[sec]
  BY <1>1, EntryTypes DEF WithoutSelected
<1>3. /\ Resolve(otadata').slot # r.slot
      /\ ~Resolve(otadata').trial
      /\ slots[Resolve(otadata').slot] \in confirmed
  BY DEF FlashInv, SelectionInv, FallbackReady
<1>4. ASSUME NEW sec \in Sectors, IsUsable(otadata'[sec])
      PROVE  /\ sec # r.sector
             /\ otadata'[sec] = otadata[sec]
             /\ otadata'[sec].seq < r.seq
  <2>1. sec # r.sector /\ otadata'[sec] = otadata[sec] /\ OtherSector(sec) = r.sector
    BY <1>1, <1>2, <1>4, SectorPairs
  <2>2. SomeUsable(otadata) /\ otadata[sec].seq <= r.seq
    BY <1>1, <1>4, <2>1, ResolveWinner DEF SomeUsable
  <2>3. Resolve(otadata').slot = SlotOfSeq(otadata[sec].seq)
    BY <1>2, <1>4, <2>1, ResolveHighest
  <2>4. otadata[sec].seq # r.seq
    BY <1>1, <1>3, <2>3, ResolveType
  <2>5. otadata[sec].seq \in Nat /\ r.seq \in Nat
    BY <1>1, ResolveType, MaxSeqAssumption DEF Entries
  <2> QED
    BY <2>1, <2>2, <2>4, <2>5
<1>5. SelectionInv'
  BY <1>3 DEF SelectionInv, FallbackReady
<1>6. TrialInv'
  BY <1>4 DEF FlashInv, TrialInv
<1> QED
  BY <1>3, <1>4, <1>5, <1>6 DEF FlashInv

\* Erasing the sector of the entry that is not selected changes nothing.
LEMMA UnselectedErased ==
  ASSUME TypeOK, FlashInv, ~Resolve(otadata).trial,
         otadata' = [otadata EXCEPT ![TrialSector(otadata)] = ErasedEntry],
         slots'[Resolve(otadata).slot] = slots[Resolve(otadata).slot],
         UNCHANGED <<published, confirmed>>
  PROVE  FlashInv' /\ Resolve(otadata') = Resolve(otadata)
<1>1. otadata \in [Sectors -> Entries] /\ TrialSector(otadata) \in Sectors
  BY ResolveType, SectorPairs DEF TypeOK, TrialSector
<1>2. Resolve(otadata') = Resolve(otadata)
  BY <1>1, EraseUnselected DEF TrialSector
<1>3. SelectionInv'
  BY <1>2 DEF FlashInv, SelectionInv, FallbackReady
<1>4. \A sec \in Sectors : IsUsable(otadata'[sec]) => otadata'[sec] = otadata[sec]
  BY <1>1, EntryTypes
<1>5. TrialInv'
  BY <1>2, <1>4 DEF FlashInv, TrialInv
<1> QED
  BY <1>2, <1>3, <1>5 DEF FlashInv

\* The write that ends mark_trial_boot selects the new image on trial, with the
\* image that was selected before to fall back to.  At the limit of the counter
\* the entry is unusable and the selection stays.
LEMMA TrialWritten ==
  ASSUME TypeOK, FlashInv, ~Resolve(otadata).trial,
         otadata[TrialSector(otadata)] = ErasedEntry,
         passive = OtherSlot(Resolve(otadata).slot),
         slots[passive] = published,
         otadata' = [otadata EXCEPT ![TrialSector(otadata)] =
                       NewTrial(TrialSeq(otadata, passive))],
         UNCHANGED <<slots, published, confirmed>>
  PROVE  /\ FlashInv'
         /\ \/ Resolve(otadata') = Resolve(otadata)
            \/ /\ Resolve(otadata').trial
               /\ Resolve(otadata').slot = passive
               /\ WithoutSelected(otadata') = otadata
<1> DEFINE r   == Resolve(otadata)
           sec == TrialSector(otadata)
           n   == r.seq + 1
<1>1. /\ otadata \in [Sectors -> Entries] /\ r.sector \in Sectors /\ sec \in Sectors
      /\ sec # r.sector /\ OtherSector(sec) = r.sector /\ r.slot \in Slots
      /\ r.seq \in 1..(MaxSeq - 1) /\ r.slot = SlotOfSeq(r.seq)
  BY ResolveType, SectorPairs DEF TypeOK, TrialSector
<1>2. TrialSeq(otadata, passive) = n /\ SlotOfSeq(n) = passive /\ n \in 1..MaxSeq
  BY <1>1, NextSeqOfPassive, MaxSeqAssumption DEF TrialSeq
<1>3. NewTrial(n) \in Entries
  BY <1>2, EntryTypes, MaxSeqAssumption
<1>4. /\ otadata' \in [Sectors -> Entries]
      /\ otadata'[sec] = NewTrial(n)
      /\ otadata'[r.sector] = otadata[r.sector]
      /\ \A t \in Sectors : t # sec => otadata'[t] = otadata[t]
  BY <1>1, <1>2, <1>3
<1>5. CASE n = MaxSeq
  <2>1. ~IsUsable(otadata'[sec]) /\ ~IsUsable(otadata[sec])
    BY <1>4, <1>5, EntryTypes DEF IsUsable, NewTrial
  <2>2. Resolve(otadata') = r
    BY <1>1, <1>4, <2>1, ResolveIgnoresUnusable
  <2>3. SelectionInv'
    BY <2>2 DEF FlashInv, SelectionInv, FallbackReady
  <2>4. TrialInv'
    BY <1>4, <2>1, <2>2 DEF FlashInv, TrialInv
  <2> QED
    BY <2>2, <2>3, <2>4 DEF FlashInv
<1>6. CASE n # MaxSeq
  <2>1. IsUsable(otadata'[sec]) /\ otadata'[sec].seq = n
        /\ IsTrialState(otadata'[sec].state)
    BY <1>1, <1>2, <1>4, <1>6, MaxSeqAssumption DEF IsUsable, NewTrial, IsTrialState
  <2>2. IsUsable(otadata[r.sector]) => otadata[r.sector].seq < n
    <3>1. IsUsable(otadata[r.sector]) => otadata[r.sector].seq = r.seq
      BY <1>1, ResolveWinner DEF SomeUsable
    <3> QED
      BY <1>1, <3>1, MaxSeqAssumption
  <2>3. /\ Resolve(otadata').slot = passive
        /\ Resolve(otadata').sector = sec
        /\ Resolve(otadata').trial
    <3>1. IsUsable(otadata'[OtherSector(sec)])
            => otadata'[OtherSector(sec)].seq < otadata'[sec].seq
      BY <1>1, <1>4, <2>1, <2>2
    <3>2. /\ Resolve(otadata').slot = SlotOfSeq(otadata'[sec].seq)
          /\ Resolve(otadata').sector = sec
          /\ Resolve(otadata').trial = IsTrialState(otadata'[sec].state)
      <4> HIDE DEF sec
      <4> QED BY <1>1, <1>4, <2>1, <3>1, ResolveHighest
    <3>3. SlotOfSeq(otadata'[sec].seq) = passive
      BY <1>2, <2>1
    <3> QED
      BY <2>1, <3>2, <3>3
  <2>4. WithoutSelected(otadata') = otadata
    BY <1>1, <1>4, <2>3 DEF WithoutSelected
  <2>5. passive # r.slot
    BY <1>1, SlotPairs
  <2>6. SelectionInv'
    BY <2>3, <2>4, <2>5 DEF FlashInv, SelectionInv, FallbackReady
  <2>7. TrialInv'
    <3> SUFFICES ASSUME NEW t \in Sectors, IsUsable(otadata'[t]),
                        IsTrialState(otadata'[t].state), t # sec
                 PROVE  FALSE
      BY <2>3 DEF TrialInv
    <3>1. otadata'[t] = otadata[t] /\ t = r.sector
      BY <1>1, <1>4, SectorPairs
    <3> QED
      BY <1>1, <3>1, ResolveWinner DEF SomeUsable
  <2> QED
    BY <2>3, <2>4, <2>6, <2>7 DEF FlashInv
<1> QED
  BY <1>5, <1>6

\* The write that ends mark_valid selects the running image again, now
\* confirmed.
LEMMA ConfirmWritten ==
  ASSUME TypeOK, FlashInv, OpInv, op.kind = "valid",
         otadata' = [otadata EXCEPT ![op.sector] = NewValid(op.seq)],
         confirmed' = confirmed \cup {local},
         UNCHANGED <<slots, published>>
  PROVE  /\ FlashInv'
         /\ Resolve(otadata').slot = running
         /\ ~Resolve(otadata').trial
<1> DEFINE sec == op.sector
<1>1. /\ otadata \in [Sectors -> Entries] /\ sec \in Sectors
      /\ OtherSector(sec) \in Sectors /\ OtherSector(sec) # sec
      /\ op.seq \in 1..(MaxSeq - 1)
      /\ otadata[sec] = ErasedEntry
      /\ running = SlotOfSeq(op.seq) /\ local = slots[running]
      /\ IsUsable(otadata[OtherSector(sec)]) => otadata[OtherSector(sec)].seq < op.seq
      /\ ~Resolve(otadata).trial
  BY SectorPairs DEF TypeOK, Ops, OpInv
<1>2. NewValid(op.seq) \in Entries /\ IsUsable(NewValid(op.seq))
  BY <1>1, EntryTypes, MaxSeqAssumption DEF NewValid, IsUsable
<1>3. /\ otadata' \in [Sectors -> Entries]
      /\ otadata'[sec] = NewValid(op.seq)
      /\ \A t \in Sectors : t # sec => otadata'[t] = otadata[t]
  BY <1>1, <1>2
<1>4. NewValid(op.seq).seq = op.seq /\ ~IsTrialState(NewValid(op.seq).state)
  BY DEF NewValid, IsTrialState
<1>5. /\ Resolve(otadata').slot = running
      /\ Resolve(otadata').sector = sec
      /\ ~Resolve(otadata').trial
  <2>1. IsUsable(otadata'[OtherSector(sec)])
          => otadata'[OtherSector(sec)].seq < otadata'[sec].seq
    BY <1>1, <1>3, <1>4
  <2>2. /\ Resolve(otadata').slot = SlotOfSeq(otadata'[sec].seq)
        /\ Resolve(otadata').sector = sec
        /\ Resolve(otadata').trial = IsTrialState(otadata'[sec].state)
    <3> HIDE DEF sec
    <3>1. /\ otadata' \in [Sectors -> Entries] /\ sec \in Sectors /\ IsUsable(otadata'[sec])
          /\ IsUsable(otadata'[OtherSector(sec)])
               => otadata'[OtherSector(sec)].seq < otadata'[sec].seq
      BY <1>1, <1>2, <1>3, <2>1
    <3> QED
      BY ONLY <3>1, ResolveHighest
  <2> QED
    BY <1>1, <1>3, <1>4, <2>2
<1>6. SelectionInv'
  BY <1>1, <1>5 DEF SelectionInv, FallbackReady
<1>7. TrialInv'
  <2> SUFFICES ASSUME NEW t \in Sectors, IsUsable(otadata'[t]),
                      IsTrialState(otadata'[t].state), t # sec
               PROVE  FALSE
    BY <1>5 DEF TrialInv
  <2>1. otadata'[t] = otadata[t] /\ SomeUsable(otadata)
    BY <1>3 DEF SomeUsable
  <2>2. t = Resolve(otadata).sector
    BY <2>1 DEF FlashInv, TrialInv
  <2> QED
    BY <1>1, <2>1, <2>2, ResolveWinner
<1> QED
  BY <1>5, <1>6, <1>7 DEF FlashInv

\* The write that ends mark_invalid leaves the fallback selected.
LEMMA RejectWritten ==
  ASSUME TypeOK, FlashInv, OpInv, op.kind = "invalid",
         otadata' = [otadata EXCEPT ![op.sector] = MarkEntry("invalid", op.seq)],
         UNCHANGED <<slots, published, confirmed>>
  PROVE  FlashInv' /\ Resolve(otadata') = Resolve(otadata)
<1> DEFINE sec == op.sector
<1>1. /\ otadata \in [Sectors -> Entries] /\ sec \in Sectors
      /\ OtherSector(sec) \in Sectors /\ OtherSector(sec) # sec
      /\ op.seq \in 0..MaxSeq /\ otadata[sec] = ErasedEntry
      /\ ~Resolve(otadata).trial
  BY SectorPairs DEF TypeOK, Ops, OpInv
<1>2. MarkEntry("invalid", op.seq) \in Entries
  BY <1>1, MarkEntryType
<1>3. ~IsUsable(MarkEntry("invalid", op.seq))
  BY DEF MarkEntry, NewValid, IsUsable
<1>4. /\ otadata' \in [Sectors -> Entries]
      /\ ~IsUsable(otadata'[sec]) /\ ~IsUsable(otadata[sec])
      /\ \A t \in Sectors : t # sec => otadata'[t] = otadata[t]
  BY <1>1, <1>2, <1>3, EntryTypes
<1>5. Resolve(otadata') = Resolve(otadata)
  <2> HIDE DEF sec
  <2> QED BY <1>1, <1>4, ResolveIgnoresUnusable
<1>6. SelectionInv'
  BY <1>1, <1>5 DEF FlashInv, SelectionInv, FallbackReady
<1>7. TrialInv'
  BY <1>4, <1>5 DEF FlashInv, TrialInv
<1> QED
  BY <1>5, <1>6, <1>7 DEF FlashInv

\* What the bootloader writes keeps the flash invariant, and it boots the slot
\* that its own writes leave selected.
LEMMA BootWritten ==
  ASSUME TypeOK, FlashInv,
         otadata' = Pending(Aborted(otadata)),
         UNCHANGED <<slots, published, confirmed>>
  PROVE  /\ FlashInv'
         /\ Resolve(otadata').slot = BootSlot(otadata)
         /\ \/ /\ Resolve(otadata') = Resolve(otadata)
               /\ Resolve(WithoutSelected(otadata')) = Resolve(WithoutSelected(otadata))
            \/ /\ Resolve(otadata).trial
               /\ ~Resolve(otadata').trial
               /\ Resolve(otadata') = Resolve(WithoutSelected(otadata))
<1> DEFINE ab == Aborted(otadata)
           r  == Resolve(otadata)
<1>1. /\ otadata \in [Sectors -> Entries] /\ ab \in [Sectors -> Entries]
      /\ otadata' \in [Sectors -> Entries] /\ r.sector \in Sectors
  BY BootloaderTypes, ResolveType DEF TypeOK
<1>2. /\ Resolve(otadata') = Resolve(ab)
      /\ \A sec \in Sectors :
           /\ IsUsable(otadata'[sec]) <=> IsUsable(ab[sec])
           /\ otadata'[sec].seq = ab[sec].seq
           /\ IsTrialState(otadata'[sec].state) = IsTrialState(ab[sec].state)
  BY <1>1, PendingResolves
<1>3. \/ /\ Resolve(ab) = r
         /\ \A sec \in Sectors :
              /\ IsUsable(ab[sec]) <=> IsUsable(otadata[sec])
              /\ IsUsable(otadata[sec]) => ab[sec] = otadata[sec]
      \/ /\ r.trial
         /\ Resolve(ab) = Resolve(WithoutSelected(otadata))
         /\ \A sec \in Sectors :
              IsUsable(ab[sec]) => sec # r.sector /\ ab[sec] = otadata[sec]
  BY <1>1, AbortedResolves DEF FlashInv, TrialInv
<1>4. CASE /\ Resolve(ab) = r
           /\ \A sec \in Sectors :
                /\ IsUsable(ab[sec]) <=> IsUsable(otadata[sec])
                /\ IsUsable(otadata[sec]) => ab[sec] = otadata[sec]
  <2>1. \A sec \in Sectors :
          /\ IsUsable(otadata'[sec]) <=> IsUsable(otadata[sec])
          /\ IsUsable(otadata[sec]) =>
               /\ otadata'[sec].seq = otadata[sec].seq
               /\ IsTrialState(otadata'[sec].state) = IsTrialState(otadata[sec].state)
    BY <1>2, <1>4
  <2>2. Resolve(WithoutSelected(otadata')) = Resolve(WithoutSelected(otadata))
    <3> DEFINE wo  == WithoutSelected(otadata)
               wo2 == WithoutSelected(otadata')
    <3>1. /\ wo \in [Sectors -> Entries] /\ wo2 \in [Sectors -> Entries]
          /\ \A sec \in Sectors : wo[sec] = IF sec = r.sector THEN ErasedEntry
                                                              ELSE otadata[sec]
          /\ \A sec \in Sectors : wo2[sec] = IF sec = r.sector THEN ErasedEntry
                                                               ELSE otadata'[sec]
      BY <1>1, <1>2, <1>4, EntryTypes DEF WithoutSelected
    <3>2. \A sec \in Sectors :
            /\ IsUsable(wo2[sec]) <=> IsUsable(wo[sec])
            /\ IsUsable(wo[sec]) =>
                 /\ wo2[sec].seq = wo[sec].seq
                 /\ IsTrialState(wo2[sec].state) = IsTrialState(wo[sec].state)
      BY <2>1, <3>1
    <3> HIDE DEF wo, wo2
    <3> QED
      BY <3>1, <3>2, ResolveDependsOn DEF wo, wo2
  <2>3. SelectionInv'
    BY <1>2, <1>4, <2>2 DEF FlashInv, SelectionInv, FallbackReady
  <2>4. TrialInv'
    BY <1>2, <1>4, <2>1 DEF FlashInv, TrialInv
  <2> QED
    BY <1>2, <1>4, <2>2, <2>3, <2>4 DEF FlashInv, BootSlot
<1>5. CASE /\ r.trial
           /\ Resolve(ab) = Resolve(WithoutSelected(otadata))
           /\ \A sec \in Sectors :
                IsUsable(ab[sec]) => sec # r.sector /\ ab[sec] = otadata[sec]
  <2>1. ~Resolve(otadata').trial /\ slots[Resolve(otadata').slot] \in confirmed
    BY <1>2, <1>5 DEF FlashInv, SelectionInv, FallbackReady
  <2>2. SelectionInv'
    BY <2>1 DEF SelectionInv, FallbackReady
  <2>3. TrialInv'
    <3> SUFFICES ASSUME NEW sec \in Sectors, IsUsable(otadata'[sec]),
                        IsTrialState(otadata'[sec].state)
                 PROVE  FALSE
      BY DEF TrialInv
    <3>1. /\ IsUsable(ab[sec]) /\ IsTrialState(ab[sec].state)
          /\ sec # r.sector /\ ab[sec] = otadata[sec]
      BY <1>2, <1>5
    <3> QED
      BY <3>1 DEF FlashInv, TrialInv
  <2> QED
    BY <1>2, <1>5, <2>1, <2>2, <2>3 DEF FlashInv, BootSlot
<1> QED
  BY <1>3, <1>4, <1>5

\* The slot that is booted next never holds a partial image.
LEMMA SelectedWhole ==
  ASSUME TypeOK, FlashInv
  PROVE  AlwaysBootable
<1>1. otadata \in [Sectors -> Entries] /\ Torn \notin confirmed /\ published # Torn
  BY ConstantsAssumption DEF TypeOK
<1>2. slots[Resolve(otadata).slot] # Torn
  BY <1>1 DEF FlashInv, SelectionInv
<1>3. slots[Resolve(Aborted(otadata)).slot] # Torn
  <2>1. \/ Resolve(Aborted(otadata)) = Resolve(otadata)
        \/ /\ Resolve(otadata).trial
           /\ Resolve(Aborted(otadata)) = Resolve(WithoutSelected(otadata))
    BY <1>1, AbortedResolves DEF FlashInv, TrialInv
  <2> QED
    BY <1>1, <1>2, <2>1 DEF FlashInv, SelectionInv, FallbackReady
<1> QED
  BY <1>2, <1>3 DEF AlwaysBootable, BootSlot

-----------------------------------------------------------------------------
(* The inductive invariant                                                 *)

\* A fresh device: nothing usable in otadata, the factory image in ota_0.
LEMMA InvInit == Init => Inv
<1> SUFFICES ASSUME Init PROVE Inv
  OBVIOUS
<1>1. Resolve(otadata) = [slot |-> "ota_0", seq |-> 1, sector |-> "sector0", trial |-> FALSE]
      /\ \A sec \in Sectors : ~IsUsable(otadata[sec])
  BY EntryTypes DEF Init, Resolve, SomeUsable
<1>2. FlashInv
  BY <1>1 DEF Init, FlashInv, SelectionInv, TrialInv, FallbackReady, Slots
<1>3. TaskInv
  BY <1>1 DEF Init, TaskInv, RunInv, OtaInv, OpInv, NoOp
<1> QED
  BY <1>2, <1>3 DEF Inv

\* Every reset that leaves the selection consistent leaves the tasks gone.
LEMMA DownInv ==
  ASSUME GoDown
  PROVE  TaskInv'
BY DEF GoDown, TaskInv, RunInv, OtaInv, OpInv, NoOp

\* One step from a state of the invariant.
LEMMA InvNext ==
  ASSUME TypeOK, Inv, Next, ~TrialReleases, MaxReadFaults = 0
  PROVE  Inv'
<1> USE DEF flash, otaVars, budget
<1>t. /\ otadata \in [Sectors -> Entries] /\ Resolve(otadata).slot \in Slots
      /\ Resolve(otadata).sector \in Sectors
      /\ slots \in [Slots -> Versions \cup {Torn}] /\ passive \in Slots
      /\ FlashInv /\ RunInv /\ OtaInv /\ OpInv
  BY ResolveType DEF TypeOK, Inv, TaskInv
<1>n. NoOp.kind = "none"
  BY DEF NoOp
<1>r. ~ReadFault
  BY DEF ReadFault, TypeOK
<1>1. CASE Boot
  <2>1. FlashInv' /\ Resolve(otadata').slot = BootSlot(otadata)
    BY <1>1, <1>t, BootWritten DEF Boot
  <2>2. op = NoOp /\ otaPc = "wait"
    BY <1>1, <1>t DEF Boot, RunInv
  <2>3. TaskInv'
    BY <1>1, <1>n, <2>1, <2>2 DEF Boot, TaskInv, RunInv, OtaInv, OpInv
  <2> QED
    BY <2>1, <2>3 DEF Inv
<1>2. CASE BootFails
  BY <1>2, <1>t, SelectedWhole DEF BootFails, AlwaysBootable
<1>3. CASE Reset
  BY <1>3, <1>t, FlashKept, DownInv DEF Reset, Inv
<1>4. CASE MarkWrite
  <2>1. CASE op.kind = "valid"
    <3>1. /\ otadata' = [otadata EXCEPT ![op.sector] = NewValid(op.seq)]
          /\ confirmed' = confirmed \cup {local} /\ UNCHANGED <<slots, published>>
          /\ op' = NoOp /\ selftest' = "done"
          /\ UNCHANGED <<mode, running, local, otaVars>>
      BY <1>4, <2>1 DEF MarkWrite, MarkEntry
    <3>2. FlashInv' /\ Resolve(otadata').slot = running /\ ~Resolve(otadata').trial
      BY <1>t, <2>1, <3>1, ConfirmWritten
    <3>3. /\ mode = "on" /\ local = slots[running]
          /\ otaPc \notin {"digest", "head", "stream"}
      BY <1>t, <2>1 DEF OpInv, OtaInv
    <3>4. TaskInv'
      BY <1>n, <3>1, <3>2, <3>3 DEF TaskInv, RunInv, OtaInv, OpInv
    <3> QED
      BY <3>2, <3>4 DEF Inv
  <2>2. CASE op.kind = "invalid"
    <3>1. GoDown /\ otadata' = [otadata EXCEPT ![op.sector] = MarkEntry("invalid", op.seq)]
          /\ UNCHANGED <<slots, published, confirmed>>
      BY <1>4, <2>2 DEF MarkWrite
    <3> QED
      BY <1>t, <2>2, <3>1, RejectWritten, DownInv DEF Inv
  <2>3. CASE op.kind = "trial"
    <3>1. GoDown /\ UNCHANGED <<slots, published, confirmed>>
          /\ otadata' = [otadata EXCEPT ![op.sector] = NewTrial(op.seq)]
      BY <1>4, <2>3 DEF MarkWrite, MarkEntry
    <3>2. /\ ~Resolve(otadata).trial /\ otadata[TrialSector(otadata)] = ErasedEntry
          /\ passive = OtherSlot(Resolve(otadata).slot)
          /\ slots[passive] = published
          /\ op.sector = TrialSector(otadata) /\ op.seq = TrialSeq(otadata, passive)
      BY <1>t, <2>3 DEF OpInv, OtaInv
    <3> QED
      BY <1>t, <3>1, <3>2, TrialWritten, DownInv DEF Inv
  <2> QED
    BY <1>4, <2>1, <2>2, <2>3 DEF MarkWrite
<1>5. CASE MarkWriteFails
  <2>1. FlashInv'
    BY <1>5, <1>t, FlashKept DEF MarkWriteFails
  <2>2. CASE op.kind \in {"valid", "invalid"}
    <3>1. GoDown
      BY <1>5, <2>2 DEF MarkWriteFails
    <3> QED
      BY <2>1, <3>1, DownInv DEF Inv
  <2>3. CASE op.kind = "trial"
    <3>1. op' = NoOp /\ otaPc' = "wait"
          /\ UNCHANGED <<flash, mode, running, local, selftest, published>>
      BY <1>5, <2>3 DEF MarkWriteFails, BackToWait
    <3>2. TaskInv'
      BY <1>n, <1>t, <2>3, <3>1 DEF TaskInv, RunInv, OtaInv, OpInv
    <3> QED
      BY <2>1, <3>2 DEF Inv
  <2> QED
    BY <1>5, <2>2, <2>3 DEF MarkWriteFails
<1>6. CASE SelfTestStart
  <2>1. FlashInv'
    BY <1>6, <1>t, FlashKept DEF SelfTestStart
  <2>2. TaskInv'
    BY <1>6, <1>n, <1>t DEF SelfTestStart, Awake, TaskInv, RunInv, OtaInv, OpInv
  <2> QED
    BY <2>1, <2>2 DEF Inv
<1>7. CASE SelfTestCannotRead
  BY <1>7, <1>r DEF SelfTestCannotRead
<1>8. CASE SelfTestPass \/ SelfTestFail
  <2> DEFINE r == Resolve(otadata)
  <2>1. /\ mode = "on" /\ op = NoOp /\ selftest = "testing"
        /\ otadata' = WithoutSelected(otadata)
        /\ op'.kind \in {"valid", "invalid"} /\ op'.sector = r.sector /\ op'.seq = r.seq
        /\ UNCHANGED <<slots, mode, running, local, selftest, otaVars, published, confirmed>>
    BY <1>8 DEF SelfTestPass, SelfTestFail, Awake, BeginMark, WithoutSelected
  <2>2. r.trial /\ running = r.slot /\ local = slots[running]
    BY <1>n, <1>t, <2>1 DEF RunInv
  <2>3. /\ FlashInv' /\ ~Resolve(otadata').trial /\ Resolve(otadata').slot # r.slot
        /\ \A sec \in Sectors : IsUsable(otadata'[sec]) =>
             /\ sec # r.sector /\ otadata'[sec] = otadata[sec]
             /\ otadata'[sec].seq < r.seq
    BY <1>t, <2>1, <2>2, TrialDropped
  <2>4. otaPc \notin {"digest", "head", "stream"} /\ local = published
    BY <1>t, <2>2 DEF OtaInv, FlashInv, SelectionInv
  <2>5. r.seq \in 1..(MaxSeq - 1) /\ r.slot = SlotOfSeq(r.seq)
        /\ OtherSector(r.sector) \in Sectors
    BY <1>t, ResolveType, SectorPairs
  <2>6. otadata'[r.sector] = ErasedEntry
    BY <1>t, <2>1 DEF WithoutSelected
  <2>7. RunInv' /\ OtaInv'
    BY <1>t, <2>1, <2>4 DEF RunInv, OtaInv
  <2>8. OpInv'
    BY <2>1, <2>2, <2>3, <2>4, <2>5, <2>6 DEF OpInv
  <2> QED
    BY <2>3, <2>7, <2>8 DEF Inv, TaskInv
<1>9. CASE SelfTestMarkFails
  <2>1. mode = "on" /\ op = NoOp /\ selftest = "testing" /\ GoDown
        /\ UNCHANGED <<slots, published, confirmed>>
        /\ (otadata' = otadata \/ otadata' = WithoutSelected(otadata))
    BY <1>9 DEF SelfTestMarkFails, Awake, FailMark, WithoutSelected
  <2>2. Resolve(otadata).trial
    BY <1>n, <1>t, <2>1 DEF RunInv
  <2>3. FlashInv'
    BY <1>t, <2>1, <2>2, FlashKept, TrialDropped
  <2> QED
    BY <2>1, <2>3, DownInv DEF Inv
<1>10. CASE TriggerCheck \/ OtaWake
  <2>1. FlashInv'
    BY <1>10, <1>t, FlashKept DEF TriggerCheck, OtaWake
  <2>2. /\ UNCHANGED <<flash, op, mode, running, local, selftest, remote, passive, published>>
        /\ otaPc' = otaPc \/ otaPc' = "lookup"
        /\ Awake
    BY <1>10 DEF TriggerCheck, OtaWake
  <2>3. TaskInv'
    BY <1>n, <1>t, <2>2 DEF Awake, TaskInv, RunInv, OtaInv, OpInv
  <2> QED
    BY <2>1, <2>3 DEF Inv
<1>11. CASE OtaVersion
  <2>1. FlashInv'
    BY <1>11, <1>t, FlashKept DEF OtaVersion
  <2>2. Awake /\ UNCHANGED <<flash, op, mode, running, local, selftest, passive, published>>
        /\ \/ otaPc' = "wait"
           \/ otaPc' = "digest" /\ remote' = published /\ published # local
    BY <1>11 DEF OtaVersion, Decide
  <2>3. published # local => ~Resolve(otadata).trial
    BY <1>n, <1>t, <2>2 DEF Awake, RunInv, FlashInv, SelectionInv
  <2>4. TaskInv'
    BY <1>n, <1>t, <2>2, <2>3 DEF Awake, TaskInv, RunInv, OtaInv, OpInv
  <2> QED
    BY <2>1, <2>4 DEF Inv
<1>12. CASE OtaDigest
  <2>1. FlashInv'
    BY <1>12, <1>t, FlashKept DEF OtaDigest
  <2>2. TaskInv'
    BY <1>12, <1>n, <1>t DEF OtaDigest, Awake, TaskInv, RunInv, OtaInv, OpInv
  <2> QED
    BY <2>1, <2>2 DEF Inv
<1>13. CASE OtaHead
  <2>1. FlashInv'
    BY <1>13, <1>t, FlashKept DEF OtaHead
  <2>2. TaskInv'
    BY <1>13, <1>n, <1>t DEF OtaHead, PassiveSlot, Awake, TaskInv, RunInv, OtaInv, OpInv
  <2> QED
    BY <2>1, <2>2 DEF Inv
<1>14. CASE OtaHeadMisread
  BY <1>14, <1>r DEF OtaHeadMisread
<1>15. CASE OtaSector \/ OtaSectorFails \/ OtaMismatch \/ OtaGiveUp
  <2>1. /\ Awake
        /\ UNCHANGED <<otadata, op, mode, running, local, selftest, remote, passive,
                       published, confirmed>>
        /\ \/ slots' = slots
           \/ otaPc = "stream" /\ slots' = [slots EXCEPT ![passive] = Torn]
        /\ otaPc' = otaPc \/ otaPc' = "wait"
    BY <1>15 DEF OtaSector, OtaSectorFails, OtaMismatch, OtaGiveUp, BackToWait
  <2>2. otaPc = "stream" => passive = OtherSlot(Resolve(otadata).slot)
                            /\ ~Resolve(otadata).trial
    BY <1>t DEF OtaInv
  <2>3. slots'[Resolve(otadata).slot] = slots[Resolve(otadata).slot]
        /\ (slots' = slots \/ ~Resolve(otadata).trial)
    BY <1>t, <2>1, <2>2, SlotPairs
  <2>4. FlashInv'
    BY <1>t, <2>1, <2>3 DEF FlashInv, SelectionInv, TrialInv, FallbackReady
  <2>5. TaskInv'
    BY <1>n, <1>t, <2>1, <2>3 DEF Awake, TaskInv, RunInv, OtaInv, OpInv
  <2> QED
    BY <2>4, <2>5 DEF Inv
<1>16. CASE OtaCommit \/ OtaCommitFails
  <2> DEFINE r == Resolve(otadata)
  <2>1. /\ Awake /\ otaPc = "stream"
        /\ slots' = [slots EXCEPT ![passive] = remote]
        /\ UNCHANGED <<mode, running, local, selftest, remote, passive, published, confirmed>>
        /\ \/ otadata' = otadata
           \/ otadata' = [otadata EXCEPT ![TrialSector(otadata)] = ErasedEntry]
        /\ \/ op' = op /\ otaPc' = "wait"
           \/ /\ otaPc' = otaPc
              /\ otadata' = [otadata EXCEPT ![TrialSector(otadata)] = ErasedEntry]
              /\ op' = [kind |-> "trial", sector |-> TrialSector(otadata),
                        seq |-> TrialSeq(otadata, passive)]
    BY <1>16 DEF OtaCommit, OtaCommitFails, BeginMark, FailMark, BackToWait
  <2>2. ~r.trial /\ passive = OtherSlot(r.slot) /\ remote = published /\ mode = "on"
    BY <1>t, <2>1 DEF OtaInv
  <2>3. slots'[r.slot] = slots[r.slot] /\ slots'[passive] = remote
    BY <1>t, <2>1, <2>2, SlotPairs
  <2>4. FlashInv' /\ Resolve(otadata') = r
    <3>1. CASE otadata' = otadata
      BY <1>t, <2>1, <2>2, <2>3, <3>1 DEF FlashInv, SelectionInv, TrialInv, FallbackReady
    <3>2. CASE otadata' = [otadata EXCEPT ![TrialSector(otadata)] = ErasedEntry]
      BY <1>t, <2>1, <2>2, <2>3, <3>2, UnselectedErased
    <3> QED
      BY <2>1, <3>1, <3>2
  <2>5. running = r.slot /\ local = slots[running] /\ op.kind = "none"
        /\ (selftest = "testing" => r.trial)
    BY <1>n, <1>t, <2>1 DEF Awake, RunInv
  <2>6. RunInv' /\ OtaInv'
    BY <1>n, <1>t, <2>1, <2>2, <2>3, <2>4, <2>5 DEF Awake, RunInv, OtaInv
  <2>7. OpInv'
    <3>1. CASE op' = op /\ otaPc' = "wait"
      BY <1>n, <2>1, <3>1 DEF Awake, OpInv
    <3>2. CASE /\ otaPc' = otaPc
               /\ otadata' = [otadata EXCEPT ![TrialSector(otadata)] = ErasedEntry]
               /\ op' = [kind |-> "trial", sector |-> TrialSector(otadata),
                         seq |-> TrialSeq(otadata, passive)]
      <4>1. TrialSector(otadata) \in Sectors
        BY <1>t, SectorPairs DEF TrialSector
      <4>2. otadata'[TrialSector(otadata)] = ErasedEntry
        BY <1>t, <3>2, <4>1
      <4>3. TrialSector(otadata') = TrialSector(otadata)
            /\ TrialSeq(otadata', passive') = TrialSeq(otadata, passive)
        BY <2>1, <2>4 DEF TrialSector, TrialSeq
      <4>4. slots'[passive'] = remote' /\ otaPc' = "stream" /\ mode' = "on"
        BY <2>1, <2>2, <2>3, <3>2
      <4> QED
        BY <3>2, <4>2, <4>3, <4>4 DEF OpInv
    <3> QED
      BY <2>1, <3>1, <3>2
  <2> QED
    BY <2>4, <2>6, <2>7 DEF Inv, TaskInv
<1>17. CASE \E v \in Versions : Publish(v)
  <2>1. /\ Quiet
        /\ UNCHANGED <<flash, op, mode, running, local, selftest, otaVars, confirmed>>
    BY <1>17 DEF Publish
  <2>2. FlashInv'
    BY <1>t, <2>1 DEF Quiet, FlashInv, SelectionInv, TrialInv, FallbackReady
  <2>3. TaskInv'
    BY <1>n, <1>t, <2>1 DEF Quiet, TaskInv, RunInv, OtaInv, OpInv
  <2> QED
    BY <2>2, <2>3 DEF Inv
<1> QED
  BY <1>1, <1>2, <1>3, <1>4, <1>5, <1>6, <1>7, <1>8, <1>9, <1>10, <1>11, <1>12,
     <1>13, <1>14, <1>15, <1>16, <1>17 DEF Next, SelfTest, Ota

-----------------------------------------------------------------------------
(* The theorems                                                            *)

\* If no release appears while an update is in flight and otadata can be read,
\* every reachable state satisfies the invariant.
LEMMA Invariance ==
  ASSUME ~TrialReleases, MaxReadFaults = 0
  PROVE  Spec => [](TypeOK /\ Inv)
<1>1. Init => Inv
  BY InvInit
<1>2. TypeOK /\ Inv /\ [Next]_vars => Inv'
  <2>1. ASSUME TypeOK, Inv, UNCHANGED vars PROVE Inv'
    <3>1. FlashInv'
      BY <2>1, FlashKept DEF vars, Inv
    <3>2. TaskInv'
      BY <2>1 DEF vars, Inv, TaskInv, RunInv, OtaInv, OpInv
    <3> QED
      BY <3>1, <3>2 DEF Inv
  <2> QED
    BY <2>1, InvNext
<1> QED
  BY <1>1, <1>2, Typing, PTL DEF Spec

\* Power may fail between any two flash operations, flash may refuse any erase
\* or write: what the bootloader selects is always one whole image
\* (partition.rs resolve_active_slot, flash.rs mark_trial_boot, mark_valid and
\* mark_invalid, ota/mod.rs SlotFlasher).
THEOREM AlwaysBootableHolds ==
  ASSUME ~TrialReleases, MaxReadFaults = 0
  PROVE  Spec => []AlwaysBootable
<1>1. TypeOK /\ Inv => AlwaysBootable
  BY SelectedWhole DEF Inv
<1> QED
  BY <1>1, Invariance, PTL

\* A trial can always be rejected: discarding its entry selects a confirmed
\* image in the other slot (flash.rs mark_invalid, selftest.rs self_test_task).
THEOREM FallbackReadyHolds ==
  ASSUME ~TrialReleases, MaxReadFaults = 0
  PROVE  Spec => []FallbackReady
<1>1. TypeOK /\ Inv => FallbackReady
  BY DEF Inv, FlashInv, SelectionInv
<1> QED
  BY <1>1, Invariance, PTL

\* No sequence of resets and flash failures lets an image run untested
\* (selftest.rs self_test_task).
THEOREM UnprovenOnlyOnTrialHolds ==
  ASSUME ~TrialReleases, MaxReadFaults = 0
  PROVE  Spec => []UnprovenOnlyOnTrial
<1>1. TypeOK /\ Inv => UnprovenOnlyOnTrial
  <2> SUFFICES ASSUME TypeOK, Inv, mode = "on", selftest = "done"
               PROVE  local \in confirmed
    BY DEF UnprovenOnlyOnTrial
  <2>1. op.kind \in {"none", "trial"}
    BY DEF Inv, TaskInv, OpInv, TypeOK, Ops
  <2> QED
    BY <2>1 DEF Inv, TaskInv, RunInv, FlashInv, SelectionInv
<1> QED
  BY <1>1, Invariance, PTL

-----------------------------------------------------------------------------
(* What a commit boots                                                     *)

\* The otadata update of a commit in progress: its sector is the one that is
\* not selected, its number the next for the slot that was written.
CommitInv ==
  /\ mode # "on" => op = NoOp
  /\ op.kind = "trial" =>
       /\ otadata[op.sector] = ErasedEntry
       /\ op.sector = TrialSector(otadata)
       /\ op.seq = TrialSeq(otadata, passive)
       /\ slots[passive] = remote

\* The write of mark_trial_boot selects the slot it was asked for, whichever
\* slot is selected and whatever else otadata holds.
LEMMA CommitSelects ==
  ASSUME NEW od \in [Sectors -> Entries], NEW slot \in Slots,
         TrialSeq(od, slot) # MaxSeq
  PROVE  LET written == [od EXCEPT ![TrialSector(od)] = NewTrial(TrialSeq(od, slot))]
         IN  Resolve(written).slot = slot /\ Resolve(written).trial
<1> DEFINE sec     == OtherSector(Resolve(od).sector)
           next    == NextSeqForSlot(Resolve(od).seq, slot)
           written == [od EXCEPT ![sec] = NewTrial(next)]
<1>1. Resolve(written) = [slot |-> slot, seq |-> next, sector |-> sec, trial |-> TRUE]
  BY NextSeqSelects DEF TrialSeq
<1>2. Resolve(written).slot = slot /\ Resolve(written).trial
  <2> HIDE DEF written, sec, next
  <2> QED BY <1>1
<1> QED
  BY <1>2 DEF TrialSector, TrialSeq

\* A commit keeps its bearings until its write.
LEMMA CommitInvNext ==
  ASSUME TypeOK, CommitInv, [Next]_vars
  PROVE  CommitInv'
<1> USE DEF flash, otaVars, budget
<1>t. /\ otadata \in [Sectors -> Entries] /\ Resolve(otadata).sector \in Sectors
      /\ slots \in [Slots -> Versions \cup {Torn}] /\ passive \in Slots
  BY ResolveType DEF TypeOK
<1>n. NoOp.kind = "none"
  BY DEF NoOp
<1>1. CASE op' = NoOp
  BY <1>1, <1>n DEF CommitInv
<1>2. CASE mode' = "on" /\ op'.kind \in {"valid", "invalid"}
  BY <1>2 DEF CommitInv
<1>3. CASE OtaCommit
  <2>1. TrialSector(otadata) \in Sectors
    BY <1>t, SectorPairs DEF TrialSector
  <2>2. Resolve(otadata') = Resolve(otadata)
    BY <1>3, <1>t, EraseUnselected DEF OtaCommit, BeginMark, TrialSector
  <2>3. /\ op'.kind = "trial" /\ op'.sector = TrialSector(otadata)
        /\ op'.seq = TrialSeq(otadata, passive)
        /\ otadata'[TrialSector(otadata)] = ErasedEntry
        /\ slots'[passive] = remote /\ UNCHANGED <<passive, remote>>
        /\ mode' = "on"
    BY <1>3, <1>t, <2>1 DEF OtaCommit, BeginMark, Awake
  <2> QED
    BY <2>2, <2>3 DEF CommitInv, TrialSector, TrialSeq
<1>4. CASE UNCHANGED <<otadata, slots, op, mode, passive, remote>>
  BY <1>4 DEF CommitInv
<1>5. \/ op' = NoOp
      \/ mode' = "on" /\ op'.kind \in {"valid", "invalid"}
      \/ OtaCommit
      \/ UNCHANGED <<otadata, slots, op, mode, passive, remote>>
  <2>1. CASE Awake
    BY <1>n, <2>1
       DEF Awake, Next, vars, SelfTest, Ota, Boot, BootFails, Reset, GoDown,
           MarkWrite, MarkWriteFails, SelfTestStart, SelfTestCannotRead, SelfTestPass,
           SelfTestFail, BeginMark, SelfTestMarkFails, TriggerCheck, OtaWake, OtaVersion,
           OtaDigest, OtaHead, OtaHeadMisread, OtaSector, OtaSectorFails, OtaGiveUp,
           OtaMismatch, OtaCommitFails, Publish
  <2>2. CASE ~Awake
    <3>1. CASE Boot \/ BootFails
      BY <3>1 DEF Boot, BootFails, CommitInv
    <3> QED
      BY <2>2, <3>1
         DEF Awake, Next, vars, SelfTest, Ota, Reset, GoDown,
             MarkWrite, MarkWriteFails, SelfTestStart, SelfTestCannotRead, SelfTestPass,
             SelfTestFail, SelfTestMarkFails, TriggerCheck, OtaWake, OtaVersion,
             OtaDigest, OtaHead, OtaHeadMisread, OtaSector, OtaSectorFails, OtaGiveUp,
             OtaMismatch, OtaCommit, OtaCommitFails, Publish
  <2> QED
    BY <2>1, <2>2
<1> QED
  BY <1>1, <1>2, <1>3, <1>4, <1>5

\* A commit that resets the chip boots the release it verified, on trial, after
\* any failures, misread otadata, releases in flight and resets: nothing is
\* assumed about them (flash.rs mark_trial_boot, partition.rs next_seq_for_slot).
THEOREM ResetBootsVerifiedHolds == Spec => ResetBootsVerified
<1>1. Init => CommitInv
  BY DEF Init, CommitInv, NoOp
<1>2. TypeOK /\ CommitInv /\ [Next]_vars =>
        [mode = "on" /\ op.kind = "trial" /\ op.seq # MaxSeq /\ otadata' # otadata =>
           /\ Resolve(otadata').slot = passive
           /\ Resolve(otadata').trial
           /\ slots'[passive] = remote]_vars
  <2> SUFFICES ASSUME TypeOK, CommitInv, Next, mode = "on", op.kind = "trial",
                      op.seq # MaxSeq, otadata' # otadata
               PROVE  /\ Resolve(otadata').slot = passive
                      /\ Resolve(otadata').trial
                      /\ slots'[passive] = remote
    OBVIOUS
  <2>1. MarkWrite
    BY DEF NoOp, Awake, Next, SelfTest, Ota, Boot, BootFails, Reset, MarkWriteFails,
           SelfTestStart, SelfTestCannotRead, SelfTestPass, SelfTestFail,
           SelfTestMarkFails, TriggerCheck, OtaWake, OtaVersion, OtaDigest, OtaHead,
           OtaHeadMisread, OtaSector, OtaSectorFails, OtaGiveUp, OtaMismatch,
           OtaCommit, OtaCommitFails, Publish, flash
  <2>2. /\ otadata' = [otadata EXCEPT ![op.sector] = NewTrial(op.seq)]
        /\ slots' = slots
    BY <2>1 DEF MarkWrite, MarkEntry
  <2>3. /\ op.sector = TrialSector(otadata) /\ op.seq = TrialSeq(otadata, passive)
        /\ slots[passive] = remote
    BY DEF CommitInv
  <2>4. otadata \in [Sectors -> Entries] /\ passive \in Slots
    BY DEF TypeOK
  <2>5. LET written == [otadata EXCEPT ![TrialSector(otadata)] = NewTrial(TrialSeq(otadata, passive))]
        IN  Resolve(written).slot = passive /\ Resolve(written).trial
    <3>1. TrialSeq(otadata, passive) # MaxSeq
      BY <2>3
    <3> QED
      BY ONLY <2>4, <3>1, CommitSelects, MaxSeqAssumption
  <2> QED
    BY <2>2, <2>3, <2>5
<1>3. TypeOK /\ CommitInv /\ [Next]_vars => CommitInv'
  BY CommitInvNext
<1> QED
  BY <1>1, <1>2, <1>3, Typing, PTL DEF Spec, ResetBootsVerified

-----------------------------------------------------------------------------
(* The update contract                                                     *)

\* Neither the proven image nor the candidate changes.
ContractStutters == ProvenImage' = ProvenImage /\ CandidateImage' = CandidateImage

\* With the selection they read also the proven image and the candidate stay.
LEMMA SelectionKept ==
  ASSUME Resolve(otadata') = Resolve(otadata),
         Resolve(otadata).trial =>
           /\ Resolve(WithoutSelected(otadata')) = Resolve(WithoutSelected(otadata))
           /\ slots'[Resolve(WithoutSelected(otadata)).slot]
                = slots[Resolve(WithoutSelected(otadata)).slot],
         slots'[Resolve(otadata).slot] = slots[Resolve(otadata).slot],
         op.kind \notin {"valid", "invalid"}, op'.kind \notin {"valid", "invalid"}
  PROVE  ContractStutters
BY DEF ContractStutters, ProvenImage, CandidateImage

\* The same for a step that changes no flash.
LEMMA FlashUnchanged ==
  ASSUME UNCHANGED <<otadata, slots, local>>,
         \/ op' = op
         \/ op.kind \notin {"valid", "invalid"} /\ op'.kind \notin {"valid", "invalid"}
  PROVE  ContractStutters
BY DEF ContractStutters, ProvenImage, CandidateImage, WithoutSelected

\* A verdict that is not written (a cut, a failed write, a rejection) gives the
\* candidate up and leaves the proven image.
LEMMA VerdictDropped ==
  ASSUME TypeOK, OpInv, op.kind \in {"valid", "invalid"},
         op'.kind \notin {"valid", "invalid"},
         Resolve(otadata') = Resolve(otadata), slots' = slots
  PROVE  Contract!Reject
<1>1. ~Resolve(otadata).trial /\ local # Torn
  BY ConstantsAssumption DEF TypeOK, OpInv
<1> QED
  BY <1>1 DEF Contract!Reject, ProvenImage, CandidateImage

\* A trial that is discarded between two updates of otadata is rejected.
LEMMA TrialRejected ==
  ASSUME TypeOK, FlashInv, op.kind \notin {"valid", "invalid"},
         op'.kind \notin {"valid", "invalid"},
         Resolve(otadata).trial, ~Resolve(otadata').trial,
         Resolve(otadata') = Resolve(WithoutSelected(otadata)), slots' = slots
  PROVE  Contract!Reject
<1>1. slots[Resolve(otadata).slot] # Torn
  BY ConstantsAssumption DEF TypeOK, FlashInv, SelectionInv
<1> QED
  BY <1>1 DEF Contract!Reject, ProvenImage, CandidateImage

\* Every step of the device is a step of the contract, or none.
LEMMA ContractStep ==
  ASSUME TypeOK, Inv, Next, ~TrialReleases, MaxReadFaults = 0
  PROVE  Contract!ContractNext \/ ContractStutters
<1> USE DEF flash, otaVars, budget
<1>t. /\ otadata \in [Sectors -> Entries] /\ Resolve(otadata).slot \in Slots
      /\ Resolve(otadata).sector \in Sectors
      /\ slots \in [Slots -> Versions \cup {Torn}] /\ passive \in Slots
      /\ op.kind \in {"none", "trial", "valid", "invalid"}
      /\ FlashInv /\ RunInv /\ OtaInv /\ OpInv
  BY ResolveType DEF TypeOK, Inv, TaskInv, Ops
<1>n. NoOp.kind = "none"
  BY DEF NoOp
<1>r. ~ReadFault
  BY DEF ReadFault, TypeOK
<1>1. CASE Boot
  <2>1. op = NoOp /\ op' = NoOp /\ slots' = slots
    BY <1>1, <1>t DEF Boot, RunInv
  <2>2. \/ /\ Resolve(otadata') = Resolve(otadata)
           /\ Resolve(WithoutSelected(otadata')) = Resolve(WithoutSelected(otadata))
        \/ /\ Resolve(otadata).trial
           /\ ~Resolve(otadata').trial
           /\ Resolve(otadata') = Resolve(WithoutSelected(otadata))
    BY <1>1, <1>t, BootWritten DEF Boot
  <2> QED
    BY <1>n, <1>t, <2>1, <2>2, SelectionKept, TrialRejected DEF Contract!ContractNext
<1>2. CASE BootFails
  BY <1>2, <1>t, SelectedWhole DEF BootFails, AlwaysBootable
<1>3. CASE Reset \/ (MarkWriteFails /\ op.kind \in {"valid", "invalid"})
  <2>1. op' = NoOp /\ UNCHANGED <<otadata, slots, local>>
    BY <1>3 DEF Reset, MarkWriteFails, GoDown
  <2> QED
    BY <1>n, <1>t, <2>1, FlashUnchanged, VerdictDropped DEF Contract!ContractNext
<1>4. CASE MarkWriteFails /\ op.kind \notin {"valid", "invalid"}
  <2>1. op' = NoOp /\ UNCHANGED <<otadata, slots, local>>
    BY <1>4 DEF MarkWriteFails
  <2> QED
    BY <1>n, <1>4, <2>1, FlashUnchanged
<1>5. CASE MarkWrite
  <2>0. op' = NoOp /\ UNCHANGED <<slots, local>>
    BY <1>5 DEF MarkWrite, GoDown
  <2>1. CASE op.kind = "valid"
    <3>1. Resolve(otadata').slot = running /\ ~Resolve(otadata').trial
      BY <1>5, <1>t, <2>1, ConfirmWritten DEF MarkWrite, MarkEntry
    <3>2. local = slots[running] /\ local # Torn
      BY <1>t, <2>1, ConstantsAssumption DEF OpInv, TypeOK
    <3>3. Contract!Confirm
      BY <1>n, <2>0, <2>1, <3>1, <3>2 DEF Contract!Confirm, ProvenImage, CandidateImage
    <3> QED
      BY <3>3 DEF Contract!ContractNext
  <2>2. CASE op.kind = "invalid"
    <3>1. Resolve(otadata') = Resolve(otadata)
      BY <1>5, <1>t, <2>2, RejectWritten DEF MarkWrite
    <3> QED
      BY <1>n, <1>t, <2>0, <2>2, <3>1, VerdictDropped DEF Contract!ContractNext
  <2>3. CASE op.kind = "trial"
    <3>1. /\ UNCHANGED <<slots, published, confirmed>>
          /\ otadata' = [otadata EXCEPT ![op.sector] = NewTrial(op.seq)]
      BY <1>5, <2>3 DEF MarkWrite, MarkEntry
    <3>2. /\ ~Resolve(otadata).trial /\ otadata[TrialSector(otadata)] = ErasedEntry
          /\ passive = OtherSlot(Resolve(otadata).slot)
          /\ slots[passive] = published
          /\ op.sector = TrialSector(otadata) /\ op.seq = TrialSeq(otadata, passive)
      BY <1>t, <2>3 DEF OpInv, OtaInv
    <3>3. \/ Resolve(otadata') = Resolve(otadata)
          \/ /\ Resolve(otadata').trial
             /\ Resolve(otadata').slot = passive
             /\ WithoutSelected(otadata') = otadata
      BY <1>t, <3>1, <3>2, TrialWritten
    <3>4. CASE Resolve(otadata') = Resolve(otadata)
      BY <1>n, <2>0, <2>3, <3>2, <3>4, SelectionKept
    <3>5. CASE /\ Resolve(otadata').trial
               /\ Resolve(otadata').slot = passive
               /\ WithoutSelected(otadata') = otadata
      <4>1. Contract!StartTrial(published)
        BY <1>n, <2>0, <2>3, <3>2, <3>5
           DEF Contract!StartTrial, ProvenImage, CandidateImage
      <4>2. published \in Versions
        BY DEF TypeOK
      <4> QED
        BY <4>1, <4>2 DEF Contract!ContractNext
    <3> QED
      BY <3>3, <3>4, <3>5
  <2> QED
    BY <1>5, <1>t, <2>1, <2>2, <2>3, <1>n DEF MarkWrite, OpInv
<1>6. CASE SelfTestPass \/ SelfTestFail
  <2>1. /\ mode = "on" /\ op = NoOp /\ selftest = "testing"
        /\ otadata' = WithoutSelected(otadata)
        /\ op'.kind \in {"valid", "invalid"}
        /\ UNCHANGED <<slots, local, published, confirmed>>
    BY <1>6 DEF SelfTestPass, SelfTestFail, Awake, BeginMark, WithoutSelected
  <2>2. Resolve(otadata).trial /\ local = slots[Resolve(otadata).slot]
    BY <1>n, <1>t, <2>1 DEF RunInv
  <2>3. ~Resolve(otadata').trial
    BY <1>t, <2>1, <2>2, TrialDropped
  <2> QED
    BY <1>n, <2>1, <2>2, <2>3 DEF ContractStutters, ProvenImage, CandidateImage
<1>7. CASE SelfTestMarkFails
  <2>1. /\ mode = "on" /\ op = NoOp /\ op' = NoOp /\ selftest = "testing"
        /\ UNCHANGED <<slots, local, published, confirmed>>
        /\ (otadata' = otadata \/ otadata' = WithoutSelected(otadata))
    BY <1>7 DEF SelfTestMarkFails, Awake, FailMark, GoDown, WithoutSelected
  <2>2. CASE otadata' = otadata
    BY <2>1, <2>2, FlashUnchanged
  <2>3. CASE otadata' = WithoutSelected(otadata)
    <3>1. Resolve(otadata).trial
      BY <1>n, <1>t, <2>1 DEF RunInv
    <3>2. ~Resolve(otadata').trial
      BY <1>t, <2>1, <2>3, <3>1, TrialDropped
    <3> QED
      BY <1>n, <1>t, <2>1, <2>3, <3>1, <3>2, TrialRejected DEF Contract!ContractNext
  <2> QED
    BY <2>1, <2>2, <2>3
<1>8. CASE OtaSector \/ OtaSectorFails \/ OtaMismatch
  <2>1. /\ op = NoOp /\ op' = op /\ otadata' = otadata /\ otaPc = "stream"
        /\ (slots' = slots \/ slots' = [slots EXCEPT ![passive] = Torn])
    BY <1>8 DEF OtaSector, OtaSectorFails, OtaMismatch, Awake
  <2>2. passive # Resolve(otadata).slot /\ ~Resolve(otadata).trial
    BY <1>t, <2>1, SlotPairs DEF OtaInv
  <2> QED
    BY <1>n, <1>t, <2>1, <2>2, SelectionKept
<1>9. CASE OtaCommit \/ OtaCommitFails
  <2>1. /\ op = NoOp /\ op'.kind \in {"none", "trial"} /\ otaPc = "stream"
        /\ slots' = [slots EXCEPT ![passive] = remote]
        /\ UNCHANGED <<published, confirmed>>
        /\ \/ otadata' = otadata
           \/ otadata' = [otadata EXCEPT ![TrialSector(otadata)] = ErasedEntry]
    BY <1>9, <1>n DEF OtaCommit, OtaCommitFails, BeginMark, FailMark, Awake
  <2>2. passive # Resolve(otadata).slot /\ ~Resolve(otadata).trial
    BY <1>t, <2>1, SlotPairs DEF OtaInv
  <2>3. slots'[Resolve(otadata).slot] = slots[Resolve(otadata).slot]
    BY <1>t, <2>1, <2>2
  <2>4. Resolve(otadata') = Resolve(otadata)
    BY <1>t, <2>1, <2>2, <2>3, UnselectedErased
  <2> QED
    BY <1>n, <2>1, <2>2, <2>3, <2>4, SelectionKept
<1>10. CASE \/ SelfTestStart \/ TriggerCheck \/ OtaWake \/ OtaVersion \/ OtaDigest
            \/ OtaHead \/ OtaGiveUp \/ \E v \in Versions : Publish(v)
  <2>1. op' = op /\ UNCHANGED <<otadata, slots, local>>
    BY <1>10 DEF SelfTestStart, TriggerCheck, OtaWake, OtaVersion, OtaDigest, OtaHead,
                 OtaGiveUp, Publish
  <2> QED
    BY <2>1, FlashUnchanged
<1>11. CASE SelfTestCannotRead \/ OtaHeadMisread
  BY <1>11, <1>r DEF SelfTestCannotRead, OtaHeadMisread
<1> QED
  BY <1>1, <1>2, <1>3, <1>4, <1>5, <1>6, <1>7, <1>8, <1>9, <1>10, <1>11
     DEF Next, SelfTest, Ota

\* The device implements the update contract: with slots, sequence numbers, torn
\* otadata updates, failing flash and resets, it always has one proven image, and
\* a candidate replaces it only by passing its self test (flash.rs, partition.rs,
\* ota/mod.rs, selftest.rs).
THEOREM ContractImplemented ==
  ASSUME ~TrialReleases, MaxReadFaults = 0
  PROVE  Spec => ImplementsContract
<1>1. Init => Contract!ContractInit
  <2> SUFFICES ASSUME Init PROVE Contract!ContractInit
    OBVIOUS
  <2>1. /\ Resolve(otadata) = [slot |-> "ota_0", seq |-> 1, sector |-> "sector0",
                               trial |-> FALSE]
        /\ op.kind = "none" /\ slots["ota_0"] = Factory
    BY EntryTypes DEF Init, Resolve, SomeUsable, NoOp, Slots
  <2> QED
    BY <2>1 DEF Contract!ContractInit, ProvenImage, CandidateImage
<1>2. TypeOK /\ Inv /\ [Next]_vars => [Contract!ContractNext]_Contract!ContractVars
  <2> SUFFICES ASSUME TypeOK, Inv, [Next]_vars
               PROVE  Contract!ContractNext \/ ContractStutters
    BY DEF ContractStutters, Contract!ContractVars
  <2>1. CASE UNCHANGED vars
    BY <2>1, FlashUnchanged DEF vars
  <2> QED
    BY <2>1, ContractStep
<1> QED
  BY <1>1, <1>2, Invariance, PTL DEF Spec, ImplementsContract, Contract!ContractSpec

=============================================================================
