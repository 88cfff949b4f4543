----------------------------- MODULE MCJobLines -----------------------------
(* Instances of JobLines for TLC.                                          *)
EXTENDS JobLines, TLC

\* What a question says matters only for two questions being alike.
TextSymmetry == Permutations(Texts)
=============================================================================
