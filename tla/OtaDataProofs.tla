--------------------------- MODULE OtaDataProofs ---------------------------
(***************************************************************************)
(* Facts about otadata arbitration and sequence numbers, for every width   *)
(* of the sequence number (MaxSeq) and every content of the two sectors.   *)
(***************************************************************************)
EXTENDS OtaData, TLAPS

\* There are two sectors, and OtherSector exchanges them.
LEMMA SectorPairs ==
  ASSUME NEW sec \in Sectors
  PROVE  /\ OtherSector(sec) \in Sectors
         /\ OtherSector(sec) # sec
         /\ OtherSector(OtherSector(sec)) = sec
         /\ \A t \in Sectors : t = sec \/ t = OtherSector(sec)
BY DEF Sectors, OtherSector

LEMMA SlotPairs ==
  ASSUME NEW s \in Slots
  PROVE  /\ OtherSlot(s) \in Slots
         /\ OtherSlot(s) # s
         /\ OtherSlot(OtherSlot(s)) = s
         /\ \A t \in Slots : t = s \/ t = OtherSlot(s)
BY DEF Slots, OtherSlot

\* The entries the firmware constructs are entries, and an erased one is not
\* usable (resolve_active_slot treats it as absent).
LEMMA EntryTypes ==
  /\ ErasedEntry \in Entries
  /\ ~IsUsable(ErasedEntry)
  /\ \A n \in 0..MaxSeq : NewTrial(n) \in Entries /\ NewValid(n) \in Entries
BY MaxSeqAssumption
   DEF ErasedEntry, Entries, States, IsUsable, NewTrial, NewValid

\* resolve_active_slot always returns a slot, a sector and a sequence number
\* that is neither 0 nor u32::MAX, and the slot is the one of that number.
LEMMA ResolveType ==
  ASSUME NEW od \in [Sectors -> Entries]
  PROVE  /\ Resolve(od).slot \in Slots
         /\ Resolve(od).sector \in Sectors
         /\ Resolve(od).seq \in 1..(MaxSeq - 1)
         /\ Resolve(od).slot = SlotOfSeq(Resolve(od).seq)
         /\ Resolve(od).trial \in BOOLEAN
<1>1. CASE SomeUsable(od)
  <2> DEFINE sec == WinningSector(od)
  <2>1. sec \in Sectors /\ IsUsable(od[sec])
    BY <1>1 DEF SomeUsable, WinningSector, Sectors
  <2>2. od[sec].seq \in 1..(MaxSeq - 1)
    BY <2>1, MaxSeqAssumption DEF IsUsable, Entries
  <2>3. Resolve(od) = [slot |-> SlotOfSeq(od[sec].seq), seq |-> od[sec].seq,
                       sector |-> sec, trial |-> IsTrialState(od[sec].state)]
    BY <1>1 DEF Resolve
  <2> QED
    BY <2>1, <2>2, <2>3 DEF SlotOfSeq, Slots, IsTrialState
<1>2. CASE ~SomeUsable(od)
  BY <1>2, MaxSeqAssumption DEF Resolve, Slots, Sectors, SlotOfSeq
<1> QED
  BY <1>1, <1>2

\* The winner is a usable entry no other usable entry beats; without a usable
\* entry the answer is ota_0, sequence 1, and not a trial.
LEMMA ResolveWinner ==
  ASSUME NEW od \in [Sectors -> Entries]
  PROVE  LET r == Resolve(od) IN
         /\ SomeUsable(od) =>
              /\ IsUsable(od[r.sector])
              /\ r.seq = od[r.sector].seq
              /\ r.trial = IsTrialState(od[r.sector].state)
              /\ \A sec \in Sectors : IsUsable(od[sec]) => od[sec].seq <= r.seq
         /\ ~SomeUsable(od) =>
              r = [slot |-> "ota_0", seq |-> 1, sector |-> "sector0", trial |-> FALSE]
<1>1. CASE SomeUsable(od)
  <2> DEFINE sec == WinningSector(od)
  <2>1. sec \in Sectors /\ IsUsable(od[sec])
    BY <1>1 DEF SomeUsable, WinningSector, Sectors
  <2>2. \A t \in Sectors : IsUsable(od[t]) => od[t].seq <= od[sec].seq
    BY <1>1 DEF SomeUsable, WinningSector, Sectors, Entries
  <2>3. Resolve(od) = [slot |-> SlotOfSeq(od[sec].seq), seq |-> od[sec].seq,
                       sector |-> sec, trial |-> IsTrialState(od[sec].state)]
    BY <1>1 DEF Resolve
  <2> QED
    BY <1>1, <2>1, <2>2, <2>3
<1>2. CASE ~SomeUsable(od)
  BY <1>2 DEF Resolve
<1> QED
  BY <1>1, <1>2

\* A usable entry whose sequence is above that of the other sector's entry,
\* or whose other sector is unusable, is the one that is selected.
LEMMA ResolveHighest ==
  ASSUME NEW od \in [Sectors -> Entries], NEW sec \in Sectors,
         IsUsable(od[sec]),
         IsUsable(od[OtherSector(sec)]) => od[OtherSector(sec)].seq < od[sec].seq
  PROVE  /\ Resolve(od).slot = SlotOfSeq(od[sec].seq)
         /\ Resolve(od).seq = od[sec].seq
         /\ Resolve(od).sector = sec
         /\ Resolve(od).trial = IsTrialState(od[sec].state)
<1>1. SomeUsable(od)
  BY DEF SomeUsable
<1>2. WinningSector(od) = sec
  BY DEF WinningSector, Sectors, OtherSector, Entries
<1> QED
  BY <1>1, <1>2 DEF Resolve

\* Arbitration looks at usable entries only: two contents that differ only in
\* a sector that is unusable in both resolve alike.
LEMMA ResolveIgnoresUnusable ==
  ASSUME NEW od \in [Sectors -> Entries], NEW od2 \in [Sectors -> Entries],
         NEW sec \in Sectors,
         ~IsUsable(od[sec]), ~IsUsable(od2[sec]),
         od2[OtherSector(sec)] = od[OtherSector(sec)]
  PROVE  Resolve(od2) = Resolve(od)
<1>1. SomeUsable(od2) <=> SomeUsable(od)
  BY DEF SomeUsable, Sectors, OtherSector
<1>2. SomeUsable(od) => WinningSector(od2) = WinningSector(od)
                        /\ WinningSector(od) = OtherSector(sec)
  BY DEF SomeUsable, WinningSector, Sectors, OtherSector
<1> QED
  BY <1>1, <1>2 DEF Resolve

\* Arbitration depends on which entries are usable, and of those on their
\* sequence and on whether they are on trial; nothing else matters.
LEMMA ResolveDependsOn ==
  ASSUME NEW od \in [Sectors -> Entries], NEW od2 \in [Sectors -> Entries],
         \A sec \in Sectors : IsUsable(od2[sec]) <=> IsUsable(od[sec]),
         \A sec \in Sectors : IsUsable(od[sec]) =>
            /\ od2[sec].seq = od[sec].seq
            /\ IsTrialState(od2[sec].state) = IsTrialState(od[sec].state)
  PROVE  Resolve(od2) = Resolve(od)
<1>1. SomeUsable(od2) <=> SomeUsable(od)
  BY DEF SomeUsable
<1>2. CASE SomeUsable(od)
  <2>1. WinningSector(od2) = WinningSector(od)
    BY DEF WinningSector, Sectors
  <2>2. WinningSector(od) \in Sectors /\ IsUsable(od[WinningSector(od)])
    BY <1>2 DEF SomeUsable, WinningSector, Sectors
  <2> QED
    BY <1>1, <1>2, <2>1, <2>2 DEF Resolve
<1>3. CASE ~SomeUsable(od)
  BY <1>1, <1>3 DEF Resolve
<1> QED
  BY <1>2, <1>3

\* Erasing the sector that is not selected never changes what is selected:
\* the erase of mark_trial_boot cannot cost the device its boot image.
LEMMA EraseUnselected ==
  ASSUME NEW od \in [Sectors -> Entries]
  PROVE  Resolve([od EXCEPT ![OtherSector(Resolve(od).sector)] = ErasedEntry])
           = Resolve(od)
<1> DEFINE sec == Resolve(od).sector
           od2 == [od EXCEPT ![OtherSector(sec)] = ErasedEntry]
<1>1. sec \in Sectors /\ OtherSector(sec) \in Sectors /\ od2 \in [Sectors -> Entries]
  BY ResolveType, SectorPairs, EntryTypes
<1>2. od2[sec] = od[sec] /\ od2[OtherSector(sec)] = ErasedEntry
  BY <1>1, SectorPairs
<1>3. CASE ~SomeUsable(od)
  <2>1. ~IsUsable(od[OtherSector(sec)]) /\ ~IsUsable(od2[OtherSector(sec)])
    BY <1>1, <1>2, <1>3, EntryTypes DEF SomeUsable
  <2> QED
    BY <1>1, <1>2, <2>1, SectorPairs, ResolveIgnoresUnusable
<1>4. CASE SomeUsable(od)
  <2>1. IsUsable(od[sec]) /\ ~IsUsable(od2[OtherSector(sec)])
    BY <1>2, <1>4, EntryTypes, ResolveWinner
  <2>2. SomeUsable(od2) /\ WinningSector(od2) = sec
    BY <1>1, <1>2, <2>1 DEF SomeUsable, WinningSector, Sectors, OtherSector
  <2>3. WinningSector(od) = sec
    BY <1>4 DEF Resolve
  <2> QED
    BY <1>2, <1>4, <2>2, <2>3 DEF Resolve
<1> QED
  BY <1>3, <1>4

\* next_seq_for_slot asked for the passive slot returns the next number, and
\* that number selects the passive slot unless the counter is at its limit.
LEMMA NextSeqOfPassive ==
  ASSUME NEW n \in 1..(MaxSeq - 1)
  PROVE  /\ NextSeqForSlot(n, OtherSlot(SlotOfSeq(n))) = n + 1
         /\ SlotOfSeq(n + 1) = OtherSlot(SlotOfSeq(n))
<1>1. n \in Nat /\ n >= 1 /\ n < MaxSeq /\ MaxSeq \in Nat
  BY MaxSeqAssumption
<1>2. (n - 1) % 2 = 0 <=> ~(n % 2 = 0)
  BY <1>1
<1>3. SlotOfSeq(n) = IF (n - 1) % 2 = 0 THEN "ota_0" ELSE "ota_1"
  BY <1>1 DEF SlotOfSeq
<1>4. SlotOfSeq(n + 1) = IF n % 2 = 0 THEN "ota_0" ELSE "ota_1"
  BY <1>1 DEF SlotOfSeq
<1>5. SaturatingSucc(n) = n + 1
  BY <1>1 DEF SaturatingSucc
<1>6. ((n + 1) - 1) % 2 = 0 <=> n % 2 = 0
  BY <1>1
<1> QED
  BY <1>1, <1>2, <1>3, <1>4, <1>5, <1>6 DEF NextSeqForSlot, OtherSlot

\* For any slot, next_seq_for_slot of a usable number stays above it, and
\* the number it returns selects the slot it was asked for unless the counter
\* has saturated, which takes one of the last two usable numbers.
LEMMA NextSeqAbove ==
  ASSUME NEW n \in 1..(MaxSeq - 1), NEW slot \in Slots
  PROVE  LET next == NextSeqForSlot(n, slot)
         IN  /\ next \in (n + 1)..MaxSeq
             /\ next # MaxSeq => SlotOfSeq(next) = slot
             /\ n <= MaxSeq - 3 => next # MaxSeq
<1>1. n \in Nat /\ n >= 1 /\ n < MaxSeq /\ MaxSeq \in Nat
  BY MaxSeqAssumption
<1>2. SaturatingSucc(n) = n + 1
  BY <1>1 DEF SaturatingSucc
<1>3. (n + 1) % 2 = 0 <=> ~(n % 2 = 0)
  BY <1>1
<1>4. CASE (n % 2 = 0) <=> (slot = "ota_0")
  <2>1. NextSeqForSlot(n, slot) = n + 1
    BY <1>1, <1>2, <1>4 DEF NextSeqForSlot
  <2>2. SlotOfSeq(n + 1) = slot
    BY <1>1, <1>4 DEF SlotOfSeq, Slots
  <2> QED
    BY <1>1, <2>1, <2>2
<1>5. CASE ~((n % 2 = 0) <=> (slot = "ota_0"))
  <2>1. NextSeqForSlot(n, slot) = SaturatingSucc(n + 1)
    BY <1>1, <1>2, <1>5 DEF NextSeqForSlot
  <2>2. CASE n + 1 = MaxSeq
    BY <1>1, <2>1, <2>2 DEF SaturatingSucc
  <2>3. CASE n + 1 < MaxSeq
    <3>1. NextSeqForSlot(n, slot) = n + 2
      BY <1>1, <2>1, <2>3 DEF SaturatingSucc
    <3>2. SlotOfSeq(n + 2) = slot
      BY <1>1, <1>3, <1>5 DEF SlotOfSeq, Slots
    <3> QED
      BY <1>1, <2>3, <3>1, <3>2
  <2> QED
    BY <1>1, <2>2, <2>3
<1> QED
  BY <1>4, <1>5

\* What mark_trial_boot writes, a trial entry with the next sequence number in the
\* sector that is not selected, decides the arbitration of resolve_active_slot for
\* every content of otadata: below the limit the new entry is selected, with the
\* slot that was asked for and as a trial; at the limit it is discarded and what
\* was selected stays selected.  The limit is met by the last two numbers only.
THEOREM NextSeqSelects ==
  ASSUME NEW od \in [Sectors -> Entries], NEW slot \in Slots
  PROVE  LET r       == Resolve(od)
             next    == NextSeqForSlot(r.seq, slot)
             sec     == OtherSector(r.sector)
             written == [od EXCEPT ![sec] = NewTrial(next)]
         IN  /\ next # MaxSeq =>
                  Resolve(written) = [slot |-> slot, seq |-> next, sector |-> sec, trial |-> TRUE]
             /\ next = MaxSeq => Resolve(written) = r
             /\ r.seq <= MaxSeq - 3 => next # MaxSeq
<1> DEFINE r       == Resolve(od)
           next    == NextSeqForSlot(r.seq, slot)
           sec     == OtherSector(r.sector)
           written == [od EXCEPT ![sec] = NewTrial(next)]
<1>1. /\ r.sector \in Sectors /\ sec \in Sectors /\ sec # r.sector
      /\ OtherSector(sec) = r.sector /\ r.seq \in 1..(MaxSeq - 1)
  BY ResolveType, SectorPairs
<1>2. /\ next \in (r.seq + 1)..MaxSeq
      /\ next # MaxSeq => SlotOfSeq(next) = slot
      /\ r.seq <= MaxSeq - 3 => next # MaxSeq
  BY <1>1, NextSeqAbove
<1>3. next \in 1..MaxSeq /\ next > r.seq
  BY <1>1, <1>2, MaxSeqAssumption
<1>4. /\ written \in [Sectors -> Entries] /\ written[sec] = NewTrial(next)
      /\ written[OtherSector(sec)] = od[r.sector]
  BY <1>1, <1>3, EntryTypes, MaxSeqAssumption
<1>5. CASE next # MaxSeq
  <2>1. /\ IsUsable(written[sec]) /\ written[sec].seq = next
        /\ IsTrialState(written[sec].state)
    BY <1>3, <1>4, <1>5, MaxSeqAssumption DEF IsUsable, NewTrial, IsTrialState
  <2>2. IsUsable(od[r.sector]) => od[r.sector].seq = r.seq
    BY <1>1, ResolveWinner DEF SomeUsable
  <2>3. IsUsable(written[OtherSector(sec)]) => written[OtherSector(sec)].seq < written[sec].seq
    BY <1>3, <1>4, <2>1, <2>2
  <2>4. /\ Resolve(written).slot = SlotOfSeq(next) /\ Resolve(written).seq = next
        /\ Resolve(written).sector = sec /\ Resolve(written).trial
    <3> HIDE DEF sec, written
    <3> QED BY <1>1, <1>4, <2>1, <2>3, ResolveHighest
  <2>5. Resolve(written) = [slot   |-> Resolve(written).slot, seq |-> Resolve(written).seq,
                            sector |-> Resolve(written).sector, trial |-> Resolve(written).trial]
    <3> HIDE DEF written
    <3> QED BY DEF Resolve
  <2>6. Resolve(written).trial = TRUE
    <3> HIDE DEF written
    <3> QED BY <1>4, <2>4, ResolveType
  <2> QED
    BY <1>2, <1>5, <2>4, <2>5, <2>6
<1>6. CASE next = MaxSeq
  <2> DEFINE erased == [od EXCEPT ![sec] = ErasedEntry]
  <2>1. /\ erased \in [Sectors -> Entries] /\ erased[sec] = ErasedEntry
        /\ erased[OtherSector(sec)] = od[r.sector]
    BY <1>1, EntryTypes
  <2>2. ~IsUsable(written[sec]) /\ ~IsUsable(erased[sec])
    BY <1>4, <1>6, <2>1, EntryTypes DEF IsUsable, NewTrial
  <2>3. Resolve(written) = Resolve(erased)
    <3> HIDE DEF written, erased, sec
    <3> QED BY <1>1, <1>4, <2>1, <2>2, ResolveIgnoresUnusable
  <2> QED
    BY <1>1, <1>2, <1>6, <2>3, EraseUnselected
<1> QED
  BY <1>2, <1>5, <1>6

=============================================================================
