---------------------------- MODULE MCRepoSync ----------------------------
(***************************************************************************)
(* RepoSync for TLC, with two bounds that are no part of the               *)
(* specification.  Only branch 2 may be one that a fetch will not move.    *)
(* And what is in the way of a merge combines with everything the others   *)
(* did before the sync, but not with everything they do during it: it may  *)
(* come up once, as the first thing that disturbs the sync, and the others *)
(* rest while it is there.                                                 *)
(***************************************************************************)
EXTENDS RepoSync

MCInit == Init /\ elsewhere \subseteq {2}

BeforeAll == \A s \in Sync : pc[s] = "idle"

Clear == BeforeAll \/ inTheWay = {}

MCNext ==
  \/ \E s \in Sync : SyncNext(s)
  \/ Clear /\ (Edit \/ Commit \/ Checkout \/ RemoteMoves \/ AnotherGit)
  \/ (BeforeAll \/ \E s \in Sync : quiet[s]) /\ Obstruct

MCSpec == MCInit /\ [][MCNext]_vars
=============================================================================
