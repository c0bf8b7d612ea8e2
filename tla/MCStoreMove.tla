---------------------------- MODULE MCStoreMove ----------------------------
(***************************************************************************)
(* StoreMove for TLC.  Nothing tells one command of the host from another, *)
(* so states that differ only in which is which are checked once.          *)
(***************************************************************************)
EXTENDS StoreMove, TLC

HostSymmetry == Permutations(Host)
=============================================================================
