----------------------------- MODULE OtaSession -----------------------------
(***************************************************************************)
(* The streaming update session: apply_update of skylights-core            *)
(* (ota/session.rs), which hashes a body and hands it on, and SlotFlasher  *)
(* of skylights-app (ota/mod.rs), which stages it into whole flash sectors *)
(* of the passive slot.  The digest of a sequence of units is abstracted   *)
(* to the sequence, so the hasher is what it was fed.                      *)
(***************************************************************************)
EXTENDS Integers, Sequences

CONSTANTS
  SectorSize,  \* FLASH_SECTOR_SIZE, in units, like the two that follow
  SlotSize,    \* OTA_SLOT_SIZE
  Chunk,       \* CHUNK_BYTES
  Blank        \* an erased unit (0xFF)

\* CHUNK_BYTES is one sector, so that a write fills the buffer at most once.
ASSUME SessionAssumption ==
  /\ SectorSize \in Nat \ {0} /\ Chunk \in 1..SectorSize
  /\ SlotSize \in Nat /\ SlotSize % SectorSize = 0

VARIABLES
  slot,    \* the units of the passive slot, from 0                (flash)
  length,  \* content_length
  hasher,  \* what apply_update has read and hashed, in order
  staged,  \* SlotFlasher: the filled part of the sector buffer
  sector   \* SlotFlasher: the next sector to flush

sessionVars == <<slot, length, hasher, staged, sector>>

Cells == 0..(SlotSize - 1)

\* SlotFlasher::new and the start of apply_update.
StartSession(declared) ==
  /\ length' = declared
  /\ hasher' = <<>> /\ staged' = <<>> /\ sector' = 0
  /\ UNCHANGED slot

\* Checked before anything is read or erased, so that no flush leaves the slot
\* (erase_range and write_chunk would refuse it).
Oversize(declared) == declared > SlotSize

\* Mutant: a read may ask for more than the body has left.
WantedChunk == Chunk

\* How much the next read may ask for: never past the body.
Wanted ==
  LET missing == length - Len(hasher) IN IF missing < Chunk THEN missing ELSE Chunk

\* Mutants: the sector is not erased before it is written; the flush writes one
\* sector late.
FlushedUnerased(units, at) ==
  [c \in Cells |->
     LET i == c - at * SectorSize
     IN  IF i \in 0..(Len(units) - 1) THEN units[i + 1] ELSE slot[c]]
FlushedNextSector(units, at) ==
  [c \in Cells |->
     LET i == c - (at + 1) * SectorSize
     IN  IF i \in 0..(Len(units) - 1) THEN units[i + 1]
         ELSE IF i \in 0..(SectorSize - 1) THEN Blank ELSE slot[c]]

\* flush_sector: erase, then write what is staged.  (The pad up to a multiple of
\* four bytes is 0xFF as well, so it leaves what the erase left.)
Flushed(units, at) ==
  [c \in Cells |->
     LET i == c - at * SectorSize
     IN  IF i \in 0..(Len(units) - 1) THEN units[i + 1]
         ELSE IF i \in 0..(SectorSize - 1) THEN Blank ELSE slot[c]]

Erased(at) == Flushed(<<>>, at)

\* Mutant: the sector counter stays when a full buffer is flushed.
NextSectorStuck(at) == at
NextSector(at) == at + 1

\* A successful read of data, and flasher.write of it: the buffer takes what fits
\* and a full buffer is flushed.
Consume(data) ==
  LET all  == staged \o data
      full == SubSeq(all, 1, SectorSize)
  IN  /\ hasher' = hasher \o data
      /\ IF Len(all) < SectorSize
           THEN staged' = all /\ UNCHANGED <<slot, sector>>
           ELSE /\ slot' = Flushed(full, sector)
                /\ staged' = SubSeq(all, SectorSize + 1, Len(all))
                /\ sector' = NextSector(sector)
      /\ UNCHANGED length

\* The session is over and its locals are gone; only flash remains.
EndSession == length' = 0 /\ hasher' = <<>> /\ staged' = <<>> /\ sector' = 0

\* A flush fails, before its erase or between the erase and the write.
FlushFails ==
  /\ \/ UNCHANGED slot
     \/ slot' = Erased(sector)
  /\ EndSession

BodyComplete == Len(hasher) = length

\* mark_updated: what is still staged is flushed.
FlushRest ==
  /\ IF staged = <<>> THEN UNCHANGED <<slot, staged, sector>>
     ELSE /\ slot' = Flushed(staged, sector)
          /\ staged' = <<>> /\ sector' = NextSector(sector)
  /\ UNCHANGED <<length, hasher>>

\* abort: the first sector is erased.
Abort == slot' = Erased(0) /\ EndSession

-----------------------------------------------------------------------------

\* What has been hashed is what flash and the buffer hold, in order: nothing is
\* lost, doubled or moved between a chunk and the sector it ends up in.  Only the
\* flush that ends a session leaves a sector that is not full.
WrittenIsHashed ==
  /\ \/ Len(hasher) = sector * SectorSize + Len(staged)
     \/ BodyComplete /\ staged = <<>> /\ Len(hasher) <= sector * SectorSize
  /\ \A i \in 1..Len(hasher) :
       hasher[i] = IF i <= sector * SectorSize THEN slot[i - 1]
                   ELSE staged[i - sector * SectorSize]

=============================================================================
