----------------------------- MODULE MCUpgrade -----------------------------
(***************************************************************************)
(* Five releases: v1.0.0 below the floor, v2.0.0 at it, v3.0.0, v4.0.0     *)
(* whose archive holds the other role's build, and one whose tag lacks the *)
(* v.  The binary on PATH is built from one of them or from what lies      *)
(* between: past v2.0.0 or with changes at it, or from a candidate of      *)
(* v3.0.0; or it reports a hash of digits only, or nothing but "dev", and  *)
(* may be built from anything.                                             *)
(***************************************************************************)
EXTENDS Upgrade

Named(v, core, tail) == [v |-> v, core |-> core, tail |-> tail]

V(n) == Named(TRUE, <<n, 0, 0>>, "none")

Bare(n) == Named(FALSE, <<n, 0, 0>>, "none")

Candidate == Named(TRUE, <<3, 0, 0>>, "pre")

Hash == Named(FALSE, <<7>>, "none")

Dev == Named(FALSE, <<>>, "none")

MCTag == {V(1), V(2), V(3), V(4), Bare(3)}

MCFloor == V(2)

(* v2.0.0 was stamped without the v, as GoReleaser did.                     *)
MCRelease ==
  [t \in MCTag |-> [version |-> IF t = V(2) THEN Bare(2) ELSE t,
                    age |-> 2 * t.core[1], mine |-> t # V(4)]]

MCBuild ==
  {<<Bare(2), 4>>, <<V(3), 6>>, <<Candidate, 5>>,
   <<Named(TRUE, <<2, 0, 0>>, "described"), 5>>, <<Named(TRUE, <<2, 0, 0>>, "dirty"), 5>>,
   <<Hash, 9>>}

MCTyped == {V(1), Bare(2), V(3), Candidate, Named(TRUE, <<3, 0>>, "none"), Hash, Dev}
=============================================================================
