--------------------------- MODULE MCWifiRecovery ---------------------------
(***************************************************************************)
(* The instances of WifiRecovery that TLC checks; the .cfg files scale the *)
(* timeouts to ticks.  The statement below is the repository's; the run    *)
(* that checks it refutes it.                                              *)
(***************************************************************************)
EXTENDS WifiRecovery

\* wifi.rs:36-38: the deliberate reset "fires only after NO_IP_REBOOT_MS with no
\* lease, and is harmless because the device cannot reach the network"; so an
\* association that still holds its lease never ends in one.
ResetOnlyWithoutLease == [][sup = "up" /\ lease => sup' # "reset"]_vars

=============================================================================
