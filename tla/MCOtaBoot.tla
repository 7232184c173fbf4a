----------------------------- MODULE MCOtaBoot -----------------------------
(***************************************************************************)
(* The instances of OtaBoot that TLC checks.  Releases are model values;   *)
(* every bound is given in the .cfg files.  The two statements below are   *)
(* what the repository says of an update, in the words of its comments and *)
(* of its bench checklist; the runs that check them refute them.           *)
(***************************************************************************)
EXTENDS OtaBoot

\* ota/mod.rs:101, "so a rejected image is never selectable": what otadata
\* selects, now or at the next boot, is not a half-written slot.
RejectedNeverSelectable ==
  slots[Resolve(otadata).slot] # Torn /\ slots[BootSlot(otadata)] # Torn

\* bench_checklist.md C4, "Active slot stays bootable": the slot the running
\* image was booted from still holds that image.
ActiveSlotStaysBootable == mode = "on" => slots[running] = local

=============================================================================
