---------------------------- MODULE MCDiscovery -----------------------------
(***************************************************************************)
(* Small instances of Discovery: b is a bootstrap peer, p and q are not.   *)
(***************************************************************************)
EXTENDS Discovery, TLC

Symmetry == Permutations(Peer \ BOOTSTRAP_PEERS)
=============================================================================
