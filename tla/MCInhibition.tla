----------------------------- MODULE MCInhibition -----------------------------
(* Inhibition for TLC.                                                       *)
EXTENDS Inhibition, TLC

\* Inhibitors are interchangeable.
Symmetry == Permutations(Cookies)
===============================================================================
