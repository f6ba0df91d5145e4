---------------------------- MODULE MCRegistration ----------------------------
(* Two workers on four users: the check and the insert of one request        *)
(* interleave with every step of another one.                                *)
EXTENDS Registration, TLC

Symmetry == Permutations(Users) \cup Permutations(Workers)
=============================================================================
