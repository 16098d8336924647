------------------------------ MODULE MCTimers ------------------------------
(* The instance of Timers for TLC: the taps keep their order and are a tick  *)
(* apart, counters wrap at 3; timer 2 on its halved tap takes two counts.   *)
EXTENDS Timers

MCPairs == {{0, 1}, {2, 3}}
MCModes == {0, 1, 2}
MCThresholds == {0, 1, 2}
MCResetThreshold == [i \in 0..3 |-> IF i \in {0, 3} THEN 1 ELSE 2]
=============================================================================
