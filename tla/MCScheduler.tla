----------------------------- MODULE MCScheduler -----------------------------
(***************************************************************************)
(* TLC instance of Scheduler: ticks of three hours, so a day of eight and  *)
(* a window of six (a schedule is a candidate again after seven ticks), an *)
(* early and a late send time, UTC and a zone nine hours ahead.            *)
(***************************************************************************)
EXTENDS Scheduler, TLC

MCSendTimes == {1, 6}
MCZones == {0, 3}
Symmetry == Permutations(Pods) \cup Permutations(Slots)
=============================================================================
