----------------------------- MODULE SessionMC -----------------------------
(* Two people, two browsers, two push endpoints.                            *)
EXTENDS Session, TLC

Symmetry == Permutations(People) \cup Permutations(Browsers)
=============================================================================
