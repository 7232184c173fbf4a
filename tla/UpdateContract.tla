--------------------------- MODULE UpdateContract ---------------------------
(***************************************************************************)
(* What the two-slot update promises, without slots, sequence numbers or   *)
(* flash sectors: the device always has one proven image, and at most one  *)
(* candidate, the image a trial boot starts.  A candidate replaces the     *)
(* proven image only by being confirmed, and rejecting it leaves the       *)
(* proven image as it was (ota/partition.rs, OtaStorage).                  *)
(***************************************************************************)
CONSTANTS Images, FirstImage, NoImage

VARIABLES proven, candidate

ContractVars == <<proven, candidate>>

ContractInit == proven = FirstImage /\ candidate = NoImage

StartTrial(image) ==
  /\ candidate = NoImage
  /\ candidate' = image
  /\ UNCHANGED proven

Confirm ==
  /\ candidate # NoImage
  /\ proven' = candidate
  /\ candidate' = NoImage

Reject ==
  /\ candidate # NoImage
  /\ candidate' = NoImage
  /\ UNCHANGED proven

ContractNext == Confirm \/ Reject \/ \E image \in Images : StartTrial(image)

ContractSpec == ContractInit /\ [][ContractNext]_ContractVars

=============================================================================
