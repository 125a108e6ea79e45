--------------------------- MODULE MCRegistration ----------------------------
(* Instances of Registration for TLC.                                       *)
EXTENDS Registration, TLC

(* Users, logins and keys are interchangeable.                              *)
Symmetry == Permutations(Users) \cup Permutations(Logins) \cup Permutations(Keys)
=============================================================================
