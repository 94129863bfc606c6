-------------------------- MODULE MCStreamLifecycle --------------------------
(* Instances of StreamLifecycle for TLC.                                   *)
EXTENDS StreamLifecycle, TLC

CONSTANTS s1, s2, s3, d1, d2, d3, i1, i2

\* Ids, destinations and addresses are interchangeable.
Symmetry == Permutations({s1, s2, s3}) \cup Permutations({d1, d2, d3}) \cup Permutations({i1, i2})
=============================================================================
