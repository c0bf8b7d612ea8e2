------------------------------ MODULE OrderDoc ------------------------------
(***************************************************************************)
(* The two pure functions on order documents: mergeOrder, which computes   *)
(* the document a reorder publishes, and the listing List makes of the     *)
(* items and a document.  An id is a natural number, smaller for an        *)
(* earlier reminder: an id begins with its UTC timestamp, so the order of  *)
(* the strings is the order in time.                                       *)
(***************************************************************************)
EXTENDS Naturals, SequencesExt

(* One call of the closure add: front, current and rest all go through it.  *)
Placed(merged, id, present) ==
  IF id \in present /\ id \notin Range(merged) THEN Append(merged, id) ELSE merged

(* A loop of such calls: what is merged after the first n ids.              *)
PlaceAll(merged, ids, present) ==
  LET placed[n \in 0 .. Len(ids)] ==
        IF n = 0 THEN merged ELSE Placed(placed[n - 1], ids[n], present)
  IN  placed[Len(ids)]

(* slices.Sort of the ids not placed yet: chronological.                    *)
Sorted(ids) ==
  CHOOSE s \in [1 .. Cardinality(ids) -> ids] : \A i, j \in DOMAIN s : i < j => s[i] < s[j]

Rest(merged, present) == Sorted(present \ Range(merged))

(* Slip: the requested ids go behind the ordered ones.                      *)
MergeBehind(front, current, present) ==
  LET ordered == PlaceAll(PlaceAll(<<>>, current, present), front, present)
  IN  PlaceAll(ordered, Rest(ordered, present), present)

MergeOrder(front, current, present) ==
  LET ordered == PlaceAll(PlaceAll(<<>>, front, present), current, present)
  IN  PlaceAll(ordered, Rest(ordered, present), present)

(* List: the ordered ids that have an item, each once, then the others.     *)
Listing(items, doc) ==
  LET listed == PlaceAll(<<>>, doc, items)
  IN  listed \o Rest(listed, items)

-----------------------------------------------------------------------------
(* What the two must compute, said without the loops: each present id once, *)
(* ordered by its first place in the ids named before it, and an id named   *)
(* nowhere after all that are, by id.                                       *)
FirstAt(ids, id) ==
  CHOOSE i \in DOMAIN ids : ids[i] = id /\ \A j \in 1 .. i - 1 : ids[j] # id

Precedes(ids, a, b) ==
  \/ a \in Range(ids) /\ b \in Range(ids) /\ FirstAt(ids, a) < FirstAt(ids, b)
  \/ a \in Range(ids) /\ b \notin Range(ids)
  \/ a \notin Range(ids) /\ b \notin Range(ids) /\ a < b

IsOrderOf(doc, ids, present) ==
  /\ Range(doc) = present
  /\ IsInjective(doc)
  /\ \A i, j \in DOMAIN doc : i < j => Precedes(ids, doc[i], doc[j])

Docs(ids) == UNION {Injection(1 .. n, ids) : n \in 0 .. Cardinality(ids)}
=============================================================================
