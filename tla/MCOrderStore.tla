---------------------------- MODULE MCOrderStore ----------------------------
(* Instances of OrderStore: the merge is mergeOrder, ids are 1..n.          *)
EXTENDS OrderStore, OrderDoc

MCDocs == Docs(Id)

MCEmpty == <<>>

(* Each writer may ask for any one of the ids.                              *)
MCRequests == {<<i>> : i \in Id}

(* What reorders before the start left: the ids backwards.                  *)
MCInitDoc == Reverse(SetToSortSeq(InitItems, <))
=============================================================================
