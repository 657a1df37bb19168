----------------------------- MODULE EventStream ----------------------------
(***************************************************************************)
(* What the multi-HAL proxy promises about events, without its queues,     *)
(* batches and threads: events are produced, may be lost on the way, and   *)
(* are delivered in the order in which their poster produced them.         *)
(* Nothing is duplicated, invented or delivered after a later event of the *)
(* same poster.                                                            *)
(***************************************************************************)
EXTENDS Naturals

CONSTANTS
  Posters,
  MaxBatch     (* most events produced at once *)

VARIABLES
  inTransit,   (* events on their way to the framework                      *)
  produced,    (* events each poster has produced                           *)
  lastRead     (* the last event of each poster the framework has read      *)

streamVars == <<inTransit, produced, lastRead>>

Init ==
  /\ inTransit = {}
  /\ produced = [p \in Posters |-> 0]
  /\ lastRead = [p \in Posters |-> 0]

(* Some or none of the new events set out.                                 *)
Produce(p, n) ==
  /\ produced' = [produced EXCEPT ![p] = @ + n]
  /\ \E sent \in SUBSET {[source |-> p, seq |-> i] : i \in (produced[p] + 1)..(produced[p] + n)} :
       inTransit' = inTransit \union sent
  /\ UNCHANGED lastRead

Lose ==
  /\ inTransit' \subseteq inTransit
  /\ UNCHANGED <<produced, lastRead>>

(* Only the earliest event of its poster that is still on its way, and     *)
(* only one later than what the framework already has.                     *)
Deliver(e) ==
  /\ e \in inTransit
  /\ \A f \in inTransit : f.source = e.source => e.seq <= f.seq
  /\ lastRead[e.source] < e.seq
  /\ lastRead' = [lastRead EXCEPT ![e.source] = e.seq]
  /\ inTransit' = inTransit \ {e}
  /\ UNCHANGED produced

Next ==
  \/ \E p \in Posters, n \in 1..MaxBatch : Produce(p, n)
  \/ Lose
  \/ \E e \in inTransit : Deliver(e)

Spec == Init /\ [][Next]_streamVars
=============================================================================
