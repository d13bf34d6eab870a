----------------------------- MODULE MCTransport -----------------------------
(* Model checking of Transport: the instances are chosen in the .cfg files.  *)
EXTENDS Transport, TLC

\* The CAM numbers of one CA device are interchangeable.
CamSymmetry == Permutations(CamNums)
=============================================================================
