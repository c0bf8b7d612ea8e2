---------------------------- MODULE MCStoreOpen ----------------------------
(***************************************************************************)
(* Two stores, <<"a", "a">> and <<"b", "a">>.  The second is there; each   *)
(* part of the first is there, or missing, or a link in its place, to its  *)
(* neighbour or to nothing; or even the base is missing.                   *)
(***************************************************************************)
EXTENDS StoreOpen, TLC

MCName == {"a", "b", "c"}

MCKey == {<<"a", "a">>, <<"b", "a">>}

Nothing == [at \in Dir \X MCName |-> Absent]

Second == <<Base, "b">> :> Directory(2) @@ <<2, "a">> :> Directory(4) @@ Nothing

Trees ==
  {<<Base, "a">> :> top @@ Second : top \in {Absent, LinkTo("b")}}
    \cup {<<Base, "a">> :> Directory(1) @@ <<1, "a">> :> below @@ Second :
            below \in {Absent, Directory(3), LinkTo("b")}}

(* Directory 3 is a store of an older layout, without tmp/ and order/.      *)
MCStart ==
  {[entry |-> Nothing, made |-> 1 .. 4, holds |-> [d \in Dir |-> {}]]}
    \cup {[entry |-> names, made |-> 0 .. 4,
           holds |-> [d \in Dir |-> IF d = 3 THEN {"items"} ELSE {}]] : names \in Trees}

MCSymmetry == Permutations(Process)
=============================================================================
