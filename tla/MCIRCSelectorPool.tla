-------------------------- MODULE MCIRCSelectorPool --------------------------
(* Four sessions over one or two selector threads.                         *)
EXTENDS IRCSelectorPool, TLC

CONSTANTS s1, s2, s3, s4

MCSessions == {s1, s2, s3, s4}
Symmetry == Permutations(MCSessions)
=============================================================================
