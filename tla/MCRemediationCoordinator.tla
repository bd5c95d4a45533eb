---------------------- MODULE MCRemediationCoordinator ----------------------
(* An application and a new file, both on the allowlist, a library that is *)
(* not, and a path outside the repository; the evaluator says NO_GO of a   *)
(* tree with a bad file in it.                                             *)
EXTENDS RemediationCoordinator, TLC

CONSTANTS app, new, lib, outside, bad, good

MCApproved == {tree \in Trees : tree[app] = good /\ \A f \in Files : tree[f] # bad}
=============================================================================
