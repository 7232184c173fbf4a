------------------------------ MODULE OtaData ------------------------------
(***************************************************************************)
(* The otadata partition of the controller and the arbitration rules that  *)
(* pick the boot slot (skylights-core/src/ota/partition.rs).  The module   *)
(* has no variables: every operator is a pure function of its arguments,   *)
(* as in the source.                                                       *)
(*                                                                         *)
(* An entry keeps the three things arbitration looks at: the sequence      *)
(* number, the state word and whether the stored CRC matches.  The CRC     *)
(* covers the sequence number only, so an entry written by the firmware    *)
(* always has crc = TRUE.  Labels and byte layout are left out.            *)
(***************************************************************************)
EXTENDS Integers

CONSTANT MaxSeq      \* 0xFFFF_FFFF in the code: the largest u32

\* u32::MAX is odd, and the parity of a saturated sequence decides its slot.
ASSUME MaxSeqAssumption == MaxSeq \in Nat /\ MaxSeq >= 3 /\ MaxSeq % 2 = 1

Slots   == {"ota_0", "ota_1"}
Sectors == {"sector0", "sector1"}

\* The ESP_OTA_IMG_* state words.
States == {"NEW", "PENDING_VERIFY", "VALID", "INVALID", "ABORTED", "UNDEFINED"}

Entries == [seq : 0..MaxSeq, state : States, crc : BOOLEAN]

\* What a freshly erased sector reads as: all ones, whose CRC does not match.
ErasedEntry == [seq |-> MaxSeq, state |-> "UNDEFINED", crc |-> FALSE]

OtherSlot(s)   == IF s = "ota_0" THEN "ota_1" ELSE "ota_0"
OtherSector(s) == IF s = "sector0" THEN "sector1" ELSE "sector0"

\* Slot::from_seq: sequences 0, 1, 3, 5... name ota_0 and 2, 4, 6... ota_1.
SlotOfSeq(n) == IF n = 0 \/ (n - 1) % 2 = 0 THEN "ota_0" ELSE "ota_1"

NewTrial(n) == [seq |-> n, state |-> "NEW",   crc |-> TRUE]
NewValid(n) == [seq |-> n, state |-> "VALID", crc |-> TRUE]

IsUsable(e) ==
  /\ e.crc
  /\ e.seq # 0
  /\ e.seq # MaxSeq
  /\ e.state \notin {"INVALID", "ABORTED"}

IsTrialState(state) == state \in {"NEW", "PENDING_VERIFY"}

\* The sector whose entry wins, for two sectors of which one is usable.
WinningSector(od) ==
  IF IsUsable(od["sector0"]) /\ IsUsable(od["sector1"])
    THEN IF od["sector0"].seq >= od["sector1"].seq THEN "sector0" ELSE "sector1"
    ELSE IF IsUsable(od["sector0"]) THEN "sector0" ELSE "sector1"

SomeUsable(od) == \E sec \in Sectors : IsUsable(od[sec])

\* resolve_active_slot: od maps each sector to its entry.
Resolve(od) ==
  IF SomeUsable(od)
    THEN LET sec == WinningSector(od)
         IN  [slot   |-> SlotOfSeq(od[sec].seq),
              seq    |-> od[sec].seq,
              sector |-> sec,
              trial  |-> IsTrialState(od[sec].state)]
    ELSE [slot |-> "ota_0", seq |-> 1, sector |-> "sector0", trial |-> FALSE]

SaturatingSucc(n) == IF n >= MaxSeq THEN MaxSeq ELSE n + 1

\* Mutants: the next sequence whatever slot it selects; one that selects the
\* slot and steps over the limit.
NextSeqAnySlot(current, slot)  == SaturatingSucc(current)
NextSeqUnlimited(current, slot) == current + 3

\* next_seq_for_slot: the next sequence number that selects slot.
NextSeqForSlot(current, slot) ==
  IF current = 0
    THEN IF slot = "ota_0" THEN 1 ELSE 2
    ELSE LET candidate == SaturatingSucc(current)
         IN  IF ((candidate - 1) % 2 = 0) <=> (slot = "ota_0")
               THEN candidate
               ELSE SaturatingSucc(candidate)

=============================================================================
