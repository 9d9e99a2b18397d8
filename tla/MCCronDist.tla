----------------------------- MODULE MCCronDist -----------------------------
(* Model checking CronDist.                                                *)
EXTENDS CronDist, TLC

(* Instances are interchangeable, and so are task names.                   *)
Symmetry == Permutations(Instances) \cup Permutations(Names)
=============================================================================
