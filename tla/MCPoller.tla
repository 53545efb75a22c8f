------------------------------ MODULE MCPoller ------------------------------
(* Instances of Poller for TLC.                                            *)
EXTENDS Poller, TLC

FdSymmetry == Permutations(Fds)
=============================================================================
