--------------------------- MODULE MCDirectReport ---------------------------
(* Both halves of direct report, the writing of a sample to shared memory    *)
(* (DirectBuffer) and the times at which samples are written (SampleTiming). *)
(* They share no state: one run explores one or the other.                   *)
EXTENDS DirectBuffer, MCSampleTiming, TLC

CONSTANTS s1, s2

VARIABLE half

\* The scaled times of this run are small enough for a float to hold exactly,
\* as those of the code are for the first milliseconds after booting only.
ASSUME FloatsAreExact == FloatsWithin(0)

TwoSensors == {s1, s2}

McInit == half \in {"buffer", "timing"} /\ BufferInit /\ Init

McNext ==
  /\ UNCHANGED half
  /\ \/ half = "buffer" /\ BufferNext /\ UNCHANGED vars
     \/ half = "timing" /\ Next /\ UNCHANGED bufferVars

McSpec == McInit /\ [][McNext]_<<half, vars, bufferVars>>

ChannelSymmetry == Permutations(TwoChannels)
==============================================================================
