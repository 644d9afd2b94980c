---------------------------- MODULE MCOrkdDaemon ----------------------------
(* Instances of OrkdDaemon for TLC.  The constants are given in the cfgs.  *)
EXTENDS OrkdDaemon, TLC

CONSTANTS p1, p2, p3
PeerSymmetry == Permutations(Peers)
=============================================================================
