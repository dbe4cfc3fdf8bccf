---------------------------- MODULE MCPMRChannel ----------------------------
(* Bounds for PMRChannel: all three classes, every rate transition, ratios *)
(* 1 to 3 and three periods of the slower side, so that the counter n_     *)
(* passes through every value and wraps in each of them.                   *)
EXTENDS PMRChannel

MCKinds == {"A", "CV", "M"}
MCRatios == 1..3
MCPeriods == 3
=============================================================================
