----------------------------- MODULE MCReporter -----------------------------
(* Instances of Reporter for TLC; the constants are in the .cfg files.        *)
EXTENDS Reporter, TLC

\* The targets are interchangeable: no action looks at what a key says.
Symmetry == Permutations(Keys)
=============================================================================
