--------------------------- MODULE MCWindowControl ---------------------------
(***************************************************************************)
(* The instances of WindowControl that TLC checks.  Three levels and five   *)
(* ticks stand for 100 % and 71 s, so that a travel has interior points    *)
(* and an elapsed time is rounded.  The statement below is the             *)
(* repository's; the run that checks it refutes it.                        *)
(***************************************************************************)
EXTENDS WindowControl

\* One window is where its controller takes it to be, another nearly open.
OneAjar == [w \in Windows |-> IF w = 1 THEN 0 ELSE TravelTime - 1]

\* TOPIC_STOP is "halting a window immediately" (core mqtt.rs:25): a stop that is
\* sent while its window is being started halts it, unless another follows.
EveryStopHalts ==
  \A w \in Windows :
    pc[w] = "startPulse" /\ lastSent[w] = Stop
      ~> lastSent[w] # Stop \/ (pc[w] = "idle" /\ motor[w] = "stop")

=============================================================================
