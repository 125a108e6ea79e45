--------------------------- MODULE MCSSHConnection ---------------------------
(* Instances of SSHConnection for TLC.                                      *)
EXTENDS SSHConnection, TLC

(* Channels and jobs are interchangeable; only for the safety runs.         *)
Symmetry == Permutations(Channels) \cup Permutations(Jobs)
=============================================================================
