--------------------------- MODULE MCSampleTiming ---------------------------
(* The values of the rate levels.  The run that reaches the rounding of a    *)
(* float counts in units of 2^20 ns, 1.05 ms, in which NORMAL, FAST and      *)
(* VERY_FAST are 20, 5 and 1.25 ms to the nearest unit; the one that does    *)
(* not has a scale of its own, of which the shortest wait is two units.      *)
EXTENDS SampleTiming

CONSTANTS c1, c2

TwoChannels == {c1, c2}
RatesInUnits == <<19, 5, 1>>
RatesScaled == <<4, 1, 1>>
==============================================================================
