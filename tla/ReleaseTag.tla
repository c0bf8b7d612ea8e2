----------------------------- MODULE ReleaseTag -----------------------------
(***************************************************************************)
(* What the strings that name releases and builds mean to an upgrade       *)
(* (internal/upgrade/version.go, floor.go).  A string is a record: whether *)
(* it starts with "v", the numbers behind it (one for v7, none for a word  *)
(* such as dev or a hash with letters in it) and what follows them:        *)
(* nothing, a pre-release or build metadata, what git describe appends     *)
(* past a tag, or the -dirty it appends on its own.                        *)
(***************************************************************************)
EXTENDS Naturals, Sequences

Tails == {"none", "pre", "meta", "described", "dirty"}

Name == [v : BOOLEAN, core : Seq(Nat), tail : Tails]

(* What starts with a digit gets the "v" it lacks.                          *)
NormalizeTag(tag) == IF tag.core = <<>> THEN tag ELSE [tag EXCEPT !.v = TRUE]

(* semver.IsValid: v7 and v7.1 are short for v7.0.0 and v7.1.0, but only    *)
(* the long form may have a tail.                                           *)
IsValid(tag) ==
  tag.v /\ Len(tag.core) \in 1 .. 3 /\ (tag.tail = "none" \/ Len(tag.core) = 3)

(* The numbers semver compares by: a tail other than metadata comes before  *)
(* the version itself.  No two tails of one version are ever compared.      *)
Rank(tag) ==
  [i \in 1 .. 4 |-> IF i = 4 THEN (IF tag.tail \in {"none", "meta"} THEN 1 ELSE 0)
                    ELSE IF i <= Len(tag.core) THEN tag.core[i] ELSE 0]

(* semver.Compare(a, b) > 0, where what is no version comes before all.     *)
Exceeds(a, b) ==
  /\ IsValid(a)
  /\ IsValid(b) => \E i \in 1 .. 4 : /\ Rank(a)[i] > Rank(b)[i]
                                     /\ \A j \in 1 .. i - 1 : Rank(a)[j] = Rank(b)[j]

(* A bare major is the shape a hash of digits has.                          *)
IsReleaseTag(tag) == IsValid(tag) /\ Len(tag.core) > 1

(* Slip: whatever semver can order is a release.                            *)
IsReleaseSemver(version) == IsValid(NormalizeTag(version))

(* releaseTag: whether a binary that reports version was built from a       *)
(* release.                                                                 *)
IsRelease(version) ==
  version.tail \notin {"described", "dirty"} /\ IsReleaseTag(NormalizeTag(version))

IsNewer(current, tag) == Exceeds(NormalizeTag(tag), NormalizeTag(current))

SameTag(a, b) == NormalizeTag(a) = NormalizeTag(b)

(* canonicalReleaseTag: vX.Y.Z and nothing else.                            *)
IsCanonical(tag) == tag.v /\ Len(tag.core) = 3 /\ tag.tail = "none"

(* checkFloor, of a tag as GitHub spells it.                                *)
AboveFloor(floor, tag) == IsCanonical(tag) /\ ~ Exceeds(floor, tag)
=============================================================================
