----------------------------- MODULE MCDeployer -----------------------------
(* Small instances of Deployer.  Neither deployments nor revisions have an *)
(* order of their own.                                                     *)
EXTENDS Deployer, TLC

AnyOrder == Permutations(Deployments) \cup Permutations(Revisions)
=============================================================================
