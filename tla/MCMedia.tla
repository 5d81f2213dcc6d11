------------------------------- MODULE MCMedia -------------------------------
(* Media for TLC: connections and texts are interchangeable.                 *)
EXTENDS Media, TLC

MCSymmetry == Permutations(ConnId) \cup Permutations(Text)
=============================================================================
