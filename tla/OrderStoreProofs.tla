-------------------------- MODULE OrderStoreProofs --------------------------
(***************************************************************************)
(* Proofs about OrderStore for any processes, requests and bounds.         *)
(***************************************************************************)
EXTENDS OrderStore, FiniteSetTheorems, TLAPS

-----------------------------------------------------------------------------
(* The highest of a set of versions.                                        *)
LEMMA HighestIsMax ==
  ASSUME NEW V, V \subseteq Nat,
         \E h \in {0} \cup V : \A v \in V : v <= h
  PROVE  /\ HighestOf(V) \in Nat
         /\ HighestOf(V) \in {0} \cup V
         /\ \A v \in V : v <= HighestOf(V)
<1> DEFINE H == HighestOf(V)
<1>1. H \in {0} \cup V /\ \A v \in V : v <= H
  BY Zenon DEF HighestOf
<1> HIDE DEF H
<1>2. H \in Nat
  BY <1>1
<1> QED BY <1>1, <1>2 DEF H

LEMMA HighestIsUnique ==
  ASSUME NEW V, V \subseteq Nat \ {0},
         NEW h \in {0} \cup V, \A v \in V : v <= h
  PROVE  HighestOf(V) = h
<1> DEFINE H == HighestOf(V)
<1>1. H \in {0} \cup V /\ \A v \in V : v <= H
  BY HighestIsMax
<1> HIDE DEF H
<1>2. H = h
  BY <1>1
<1> QED BY <1>2 DEF H

(* Adding a version moves the highest up to it or leaves it.                *)
LEMMA HighestAfterLink ==
  ASSUME NEW V, V \subseteq Nat \ {0}, NEW n \in Nat \ {0},
         \E h \in {0} \cup V : \A v \in V : v <= h
  PROVE  /\ \E h \in {0} \cup (V \cup {n}) : \A v \in V \cup {n} : v <= h
         /\ HighestOf(V \cup {n}) = IF n > HighestOf(V) THEN n ELSE HighestOf(V)
<1> DEFINE H == HighestOf(V)
           M == IF n > H THEN n ELSE H
           W == V \cup {n}
<1>1. H \in Nat /\ H \in {0} \cup V /\ \A v \in V : v <= H
  BY HighestIsMax
<1> HIDE DEF H
<1>2. M \in {0} \cup W /\ \A v \in W : v <= M
  BY <1>1
<1>3. W \subseteq Nat \ {0}
  OBVIOUS
<1> HIDE DEF M, W
<1>4. HighestOf(W) = M
  BY <1>2, <1>3, HighestIsUnique
<1> QED BY <1>2, <1>4 DEF H, M, W

(* Removing any version but the highest leaves the highest.                 *)
LEMMA HighestAfterRemoval ==
  ASSUME NEW V, V \subseteq Nat \ {0}, NEW n, n # HighestOf(V),
         \E h \in {0} \cup V : \A v \in V : v <= h
  PROVE  /\ \E h \in {0} \cup (V \ {n}) : \A v \in V \ {n} : v <= h
         /\ HighestOf(V \ {n}) = HighestOf(V)
<1> DEFINE H == HighestOf(V)
           W == V \ {n}
<1>1. n # H /\ H \in {0} \cup V /\ \A v \in V : v <= H
  BY HighestIsMax
<1> HIDE DEF H
<1>2. H \in {0} \cup W /\ \A v \in W : v <= H
  BY <1>1
<1>3. W \subseteq Nat \ {0}
  OBVIOUS
<1> HIDE DEF W
<1>4. HighestOf(W) = H
  BY <1>2, <1>3, HighestIsUnique
<1> QED BY <1>2, <1>4 DEF H, W

-----------------------------------------------------------------------------
(* Type correctness.                                                        *)
LEMMA FreshTyped ==
  ASSUME NEW req \in Request \cup {<<>>}, NEW attempt \in Nat
  PROVE  Fresh(req, attempt) \in Locals
BY DocAssumption DEF Fresh, Locals, NoFile, File

LEMMA HeadTyped ==
  ASSUME TypeOK, HeadExists
  PROVE  /\ HeadVersion \in Nat
         /\ HeadVersion \in {0} \cup DOMAIN order
         /\ \A v \in DOMAIN order : v <= HeadVersion
BY HighestIsMax DEF TypeOK, HeadExists, HeadVersion

LEMMA ReturnTyped ==
  ASSUME TypeOK, NEW p \in Proc, NEW result \in Ended, Return(p, result)
  PROVE  /\ pc' \in [Proc -> {"idle"} \cup Pending \cup Ended]
         /\ loc' \in [Proc -> Locals]
<1>1. loc[p].req \in Request \cup {<<>>} /\ loc[p].attempt \in Nat
  BY DEF TypeOK, Locals
<1>2. Fresh(loc[p].req, loc[p].attempt) \in Locals
  BY <1>1, FreshTyped
<1> QED BY <1>2 DEF TypeOK, Return, Goto

LEMMA RetryTyped ==
  ASSUME TypeOK, NEW w \in Writer, Retry(w)
  PROVE  /\ pc' \in [Proc -> {"idle"} \cup Pending \cup Ended]
         /\ loc' \in [Proc -> Locals]
<1> w \in Proc
  BY DEF Proc
<1>1. CASE Return(w, "contended")
  BY <1>1, ReturnTyped DEF Ended
<1>2. CASE /\ Goto(w, "scan")
           /\ loc' = [loc EXCEPT ![w] = Fresh(loc[w].req, loc[w].attempt + 1)]
  <2>1. loc[w].req \in Request \cup {<<>>} /\ loc[w].attempt + 1 \in Nat
    BY DEF TypeOK, Locals
  <2>2. Fresh(loc[w].req, loc[w].attempt + 1) \in Locals
    BY <2>1, FreshTyped
  <2> QED BY <1>2, <2>2 DEF TypeOK, Goto, Pending
<1> QED BY <1>1, <1>2 DEF Retry

(* The disjuncts of Next, by who takes them.                                *)
ProcAction(p) ==
  \/ ScanEmpty(p) \/ ScanHead(p) \/ OpenHead(p) \/ HeadGone(p)
  \/ VerifyHead(p) \/ HeadReplaced(p) \/ ListNames(p) \/ ReadItems(p)
  \/ CallFails(p) \/ Crash(p)

WriterAction(w) ==
  \/ CallReorder(w) \/ Stage(w) \/ Link(w) \/ LinkExists(w) \/ LinkFails(w)
  \/ Unstage(w) \/ CheckHead(w) \/ Collect(w) \/ PruneScan(w) \/ Prune(w)
  \/ PruneDone(w)

LEMMA NextByActor ==
  Next => \/ \E p \in Proc : ProcAction(p)
          \/ \E w \in Writer : WriterAction(w)
          \/ \E r \in Reader : CallList(r)
          \/ \E i \in Id : AddItem(i) \/ RemoveItem(i)
BY DEF Next, WriterStep, ReaderStep, ReadHead, ProcAction, WriterAction, Proc

LEMMA TypeInit == Init => TypeOK
<1> SUFFICES ASSUME Init PROVE TypeOK
  OBVIOUS
<1>1. Fresh(<<>>, 0) \in Locals
  BY FreshTyped
<1>2. [NoFile EXCEPT !.doc = InitDoc] \in File
  BY DocAssumption DEF NoFile, File
<1> QED
  BY <1>1, <1>2, ItemAssumption, BoundAssumption DEF Init, TypeOK

LEMMA ProcTyped ==
  ASSUME TypeOK, HeadExists, NEW p \in Proc, ProcAction(p)
  PROVE  TypeOK'
<1> USE DEF Goto, Pending, Ended
<1>1. CASE ScanEmpty(p)
  <2>1. NoFile \in File /\ 0 \in Nat
    BY DocAssumption DEF NoFile, File
  <2> QED BY <1>1, <2>1 DEF ScanEmpty, TypeOK, HeadKnown, Locals
<1>2. CASE ScanHead(p)
  <2>1. HeadVersion \in Nat
    BY HeadTyped
  <2> QED BY <1>2, <2>1 DEF ScanHead, TypeOK, Locals
<1>3. CASE OpenHead(p)
  <2>1. order[loc[p].base] \in File
    BY <1>3 DEF OpenHead, TypeOK
  <2> QED BY <1>3, <2>1 DEF OpenHead, TypeOK, Locals
<1>4. CASE HeadGone(p)
  <2>1. NoFile \in File /\ loc[p].reads + 1 \in Nat
    BY DocAssumption DEF NoFile, File, TypeOK, Locals
  <2>2. CASE loc[p].reads + 1 < MaxHeadReads
    <3>1. loc' = [loc EXCEPT ![p].reads = @ + 1, ![p].base = 0,
                             ![p].file = NoFile]
      BY <1>4, <2>2 DEF HeadGone
    <3>2. [loc[p] EXCEPT !.reads = @ + 1, !.base = 0, !.file = NoFile] \in Locals
      BY <2>1 DEF TypeOK, Locals
    <3>3. loc' \in [Proc -> Locals]
      BY <3>1, <3>2 DEF TypeOK
    <3> QED BY <1>4, <2>2, <3>3 DEF HeadGone, TypeOK
  <2>3. CASE ~ (loc[p].reads + 1 < MaxHeadReads)
    <3>1. Return(p, "contended")
      BY <1>4, <2>3 DEF HeadGone
    <3> QED BY <1>4, <3>1, ReturnTyped DEF HeadGone, TypeOK
  <2> QED BY <2>2, <2>3
<1>5. CASE VerifyHead(p)
  BY <1>5 DEF VerifyHead, TypeOK, HeadKnown
<1>6. CASE HeadReplaced(p)
  BY <1>6, ReturnTyped DEF HeadReplaced, TypeOK
<1>7. CASE ListNames(p)
  BY <1>7 DEF ListNames, TypeOK, Locals
<1>8. CASE ReadItems(p)
  <2>1. PICK present \in SUBSET loc[p].snap :
          IF p \in Writer /\ ~ (Named(loc[p].req) \subseteq present)
            THEN Return(p, "notfound")
            ELSE /\ Goto(p, IF p \in Writer THEN "stage" ELSE "scan")
                 /\ loc' = [loc EXCEPT ![p].snap = present]
    BY <1>8 DEF ReadItems
  <2>2. present \in SUBSET Id
    BY DEF TypeOK, Locals
  <2>3. CASE p \in Writer /\ ~ (Named(loc[p].req) \subseteq present)
    <3>1. Return(p, "notfound")
      BY <2>1, <2>3
    <3> QED BY <1>8, <3>1, ReturnTyped DEF ReadItems, TypeOK
  <2>4. CASE ~ (p \in Writer /\ ~ (Named(loc[p].req) \subseteq present))
    <3>1. /\ Goto(p, IF p \in Writer THEN "stage" ELSE "scan")
          /\ loc' = [loc EXCEPT ![p].snap = present]
      BY <2>1, <2>4
    <3>2. loc' \in [Proc -> Locals]
      BY <2>2, <3>1 DEF TypeOK, Locals
    <3>3. pc' \in [Proc -> {"idle"} \cup Pending \cup Ended]
      BY <3>1 DEF TypeOK
    <3> QED BY <1>8, <3>2, <3>3 DEF ReadItems, TypeOK
  <2> QED BY <2>3, <2>4
<1>9. CASE CallFails(p)
  BY <1>9, ReturnTyped DEF CallFails, Fault, TypeOK
<1>10. CASE Crash(p)
  BY <1>10, ReturnTyped DEF Crash, Fault, TypeOK
<1> QED
  BY <1>1, <1>2, <1>3, <1>4, <1>5, <1>6, <1>7, <1>8, <1>9, <1>10
  DEF ProcAction

LEMMA WriterTyped ==
  ASSUME TypeOK, \A u \in Writer : RequestFound(u),
         NEW w \in Writer, WriterAction(w)
  PROVE  TypeOK'
<1> USE DEF Goto, Pending, Ended
<1>w. w \in Proc
  BY DEF Proc
<1>a. loc[w].attempt \in Nat /\ loc[w].base \in Nat /\ loc[w].snap \in SUBSET Id
  BY <1>w DEF TypeOK, Locals
<1>1. CASE CallReorder(w)
  <2>1. PICK request \in Request : loc' = [loc EXCEPT ![w].req = request]
    BY <1>1 DEF CallReorder
  <2>2. loc' \in [Proc -> Locals]
    BY <1>w, <2>1 DEF TypeOK, Locals
  <2> QED BY <1>1, <1>w, <2>2 DEF CallReorder, TypeOK
<1>2. CASE Stage(w)
  BY <1>2, <1>w, <1>a DEF Stage, TypeOK
<1>3. CASE Link(w)
  <2> DEFINE file == [by |-> w, attempt |-> loc[w].attempt,
                      doc |-> Merge(loc[w].req, loc[w].file.doc, loc[w].snap)]
  <2>1. loc[w].req \in Request
    BY <1>3 DEF Link, RequestFound
  <2>2. loc[w].file.doc \in Doc
    BY <1>w DEF TypeOK, Locals, File
  <2>3. Merge(loc[w].req, loc[w].file.doc, loc[w].snap) \in Doc
    BY <1>a, <2>1, <2>2, DocAssumption
  <2>4. file \in File
    BY <1>w, <1>a, <2>3 DEF File
  <2>5. Version(w) \in Nat \ {0}
    BY <1>a DEF Version
  <2>6. order' = LinkedAt(order, Version(w), file)
    BY <1>3 DEF Link
  <2>7. /\ DOMAIN order' \subseteq Nat \ {0}
        /\ \A v \in DOMAIN order' : order'[v] \in File
    <3> HIDE DEF file
    <3> QED BY <2>4, <2>5, <2>6 DEF LinkedAt, TypeOK
  <2>8. ruled' \subseteq Writer \X Nat
    BY <1>3, <1>a DEF Link, TypeOK
  <2> QED BY <1>3, <1>w, <2>7, <2>8 DEF Link, TypeOK
<1>4. CASE LinkExists(w)
  BY <1>4, <1>w DEF LinkExists, TypeOK
<1>5. CASE LinkFails(w)
  BY <1>5, <1>w DEF LinkFails, Fault, TypeOK
<1>6. CASE Unstage(w)
  <2>1. tmp' \subseteq Writer \X Nat /\ faults' \in Nat
    BY <1>6 DEF Unstage, Fault, TypeOK
  <2>2. /\ pc' \in [Proc -> {"idle"} \cup Pending \cup Ended]
        /\ loc' \in [Proc -> Locals]
    <3>1. CASE pc[w] = "linked"
      BY <1>6, <1>w, <3>1 DEF Unstage, TypeOK
    <3>2. CASE pc[w] = "lost"
      <4>1. Retry(w)
        BY <1>6, <3>2 DEF Unstage
      <4> QED BY <4>1, RetryTyped
    <3>3. CASE pc[w] = "refused"
      <4>1. Return(w, "error")
        BY <1>6, <3>3 DEF Unstage
      <4> QED BY <4>1, <1>w, ReturnTyped
    <3> QED BY <1>6, <3>1, <3>2, <3>3 DEF Unstage
  <2> QED BY <1>6, <2>1, <2>2 DEF Unstage, TypeOK
<1>7. CASE CheckHead(w)
  BY <1>7, <1>w DEF CheckHead, TypeOK
<1>8. CASE Collect(w)
  <2>1. /\ pc' \in [Proc -> {"idle"} \cup Pending \cup Ended]
        /\ loc' \in [Proc -> Locals]
    BY <1>8, RetryTyped DEF Collect
  <2>2. /\ DOMAIN order' \subseteq Nat \ {0}
        /\ \A v \in DOMAIN order' : order'[v] \in File
    BY <1>8 DEF Collect, Without, TypeOK
  <2> QED BY <1>8, <2>1, <2>2 DEF Collect, Fault, TypeOK
<1>9. CASE PruneScan(w)
  <2> DEFINE old == {v \in DOMAIN order : v + Keep <= Version(w)}
  <2>1. CASE Fault /\ Return(w, "ok")
    BY <1>9, <1>w, <2>1, ReturnTyped DEF PruneScan, Fault, TypeOK
  <2>2. CASE /\ Goto(w, "prune")
             /\ loc' = [loc EXCEPT ![w].todo = old]
             /\ UNCHANGED faults
    <3>1. old \in SUBSET Nat
      BY DEF TypeOK
    <3> HIDE DEF old
    <3>2. loc' \in [Proc -> Locals]
      BY <1>w, <2>2, <3>1 DEF TypeOK, Locals
    <3>3. pc' \in [Proc -> {"idle"} \cup Pending \cup Ended]
      BY <2>2 DEF TypeOK
    <3> QED BY <1>9, <2>2, <3>2, <3>3 DEF PruneScan, TypeOK
  <2> QED BY <1>9, <2>1, <2>2 DEF PruneScan
<1>10. CASE Prune(w)
  <2>1. PICK v \in loc[w].todo :
          /\ loc' = [loc EXCEPT ![w].todo = @ \ {v}]
          /\ \/ order' = Without(order, v) /\ UNCHANGED faults
             \/ Fault /\ UNCHANGED order
    BY <1>10 DEF Prune
  <2>2. loc' \in [Proc -> Locals]
    BY <1>w, <2>1 DEF TypeOK, Locals
  <2>3. /\ DOMAIN order' \subseteq Nat \ {0}
        /\ \A u \in DOMAIN order' : order'[u] \in File
    BY <2>1 DEF Without, TypeOK
  <2> QED BY <1>10, <2>1, <2>2, <2>3 DEF Prune, Fault, TypeOK
<1>11. CASE PruneDone(w)
  BY <1>11, <1>w, ReturnTyped DEF PruneDone, TypeOK
<1> QED
  BY <1>1, <1>2, <1>3, <1>4, <1>5, <1>6, <1>7, <1>8, <1>9, <1>10, <1>11
  DEF WriterAction

LEMMA TypeStep ==
  TypeOK /\ BeliefsAreSafe /\ [Next]_vars => TypeOK'
<1> SUFFICES ASSUME TypeOK, BeliefsAreSafe, [Next]_vars PROVE TypeOK'
  OBVIOUS
<1>1. ASSUME NEW p \in Proc, ProcAction(p) PROVE TypeOK'
  BY <1>1, ProcTyped DEF BeliefsAreSafe
<1>2. ASSUME NEW w \in Writer, WriterAction(w) PROVE TypeOK'
  BY <1>2, WriterTyped DEF BeliefsAreSafe
<1>3. ASSUME NEW r \in Reader, CallList(r) PROVE TypeOK'
  BY <1>3 DEF CallList, TypeOK, Goto, Pending, Proc
<1>4. ASSUME NEW i \in Id, AddItem(i) \/ RemoveItem(i) PROVE TypeOK'
  BY <1>4 DEF AddItem, RemoveItem, TypeOK
<1>5. CASE UNCHANGED vars
  BY <1>5 DEF vars, TypeOK
<1> QED BY <1>1, <1>2, <1>3, <1>4, <1>5, NextByActor

-----------------------------------------------------------------------------
(* How a step can change order/: not at all, by a link, or by removing a    *)
(* version below the head.                                                  *)
LEMMA OrderChanges ==
  ASSUME TypeOK, BeliefsAreSafe, [Next]_vars
  PROVE  \/ order' = order /\ ruled' = ruled
         \/ \E w \in Writer : Link(w)
         \/ \E v \in Nat : /\ v < HeadVersion
                          /\ order' = Without(order, v)
                          /\ ruled' = ruled
<1>1. ASSUME NEW p \in Proc, ProcAction(p) PROVE order' = order /\ ruled' = ruled
  BY <1>1 DEF ProcAction, ScanEmpty, ScanHead, OpenHead, HeadGone, VerifyHead,
       HeadReplaced, ListNames, ReadItems, CallFails, Crash
<1>2. ASSUME NEW w \in Writer, WriterAction(w),
             ~ Link(w), ~ Collect(w), ~ Prune(w)
      PROVE  order' = order /\ ruled' = ruled
  BY <1>2 DEF WriterAction, CallReorder, Stage, LinkExists, LinkFails, Unstage,
       CheckHead, PruneScan, PruneDone
<1>3. ASSUME NEW w \in Writer, Collect(w)
      PROVE  \/ order' = order /\ ruled' = ruled
             \/ /\ Version(w) \in Nat /\ Version(w) < HeadVersion
                /\ order' = Without(order, Version(w))
                /\ ruled' = ruled
  <2>1. Version(w) \in Nat
    BY DEF Version, TypeOK, Locals, Proc
  <2>2. Version(w) < HeadVersion
    BY <1>3 DEF Collect, BeliefsAreSafe, PublishIsSettled
  <2> QED BY <1>3, <2>1, <2>2 DEF Collect
<1>4. ASSUME NEW w \in Writer, Prune(w)
      PROVE  \/ order' = order /\ ruled' = ruled
             \/ \E v \in Nat : /\ v < HeadVersion
                              /\ order' = Without(order, v)
                              /\ ruled' = ruled
  <2>1. PICK v \in loc[w].todo : order' = Without(order, v) \/ order' = order
    BY <1>4 DEF Prune
  <2>2. v \in Nat
    BY DEF TypeOK, Locals, Proc
  <2>3. v < HeadVersion
    BY <1>4 DEF Prune, BeliefsAreSafe, PublishIsSettled
  <2>4. ruled' = ruled
    BY <1>4 DEF Prune
  <2> QED BY <2>1, <2>2, <2>3, <2>4
<1>5. ASSUME NEW r \in Reader, CallList(r) PROVE order' = order /\ ruled' = ruled
  BY <1>5 DEF CallList
<1>6. ASSUME NEW i \in Id, AddItem(i) \/ RemoveItem(i)
      PROVE  order' = order /\ ruled' = ruled
  BY <1>6 DEF AddItem, RemoveItem
<1>7. CASE UNCHANGED vars
  BY <1>7 DEF vars
<1> QED BY <1>1, <1>2, <1>3, <1>4, <1>5, <1>6, <1>7, NextByActor

(* What a link does to the head: its version is the new head if it is above *)
(* the old one, and otherwise it is below it.                               *)
LEMMA LinkMovesHead ==
  ASSUME TypeOK, HeadExists, NEW w \in Writer, Link(w)
  PROVE  /\ HeadExists'
         /\ Version(w) \in Nat \ {0}
         /\ Version(w) # HeadVersion
         /\ HeadVersion' = IF Version(w) > HeadVersion
                             THEN Version(w) ELSE HeadVersion
<1> DEFINE n == Version(w)
<1>1. n \in Nat \ {0}
  BY DEF Version, TypeOK, Locals, Proc
<1>2. DOMAIN order' = DOMAIN order \cup {n}
  BY DEF Link, LinkedAt
<1>3. n \notin DOMAIN order /\ HeadVersion \in {0} \cup DOMAIN order
  BY HeadTyped DEF Link
<1>4. DOMAIN order \subseteq Nat \ {0}
  BY DEF TypeOK
<1> HIDE DEF n
<1>5. /\ \E h \in {0} \cup (DOMAIN order \cup {n}) :
            \A v \in DOMAIN order \cup {n} : v <= h
      /\ HighestOf(DOMAIN order \cup {n})
           = IF n > HighestOf(DOMAIN order) THEN n ELSE HighestOf(DOMAIN order)
  BY <1>1, <1>4, HighestAfterLink DEF HeadExists
<1>6. HeadExists'
  BY <1>2, <1>5 DEF HeadExists
<1>7. HeadVersion' = IF n > HeadVersion THEN n ELSE HeadVersion
  BY <1>2, <1>5 DEF HeadVersion
<1> QED BY <1>1, <1>3, <1>6, <1>7 DEF n

LEMMA HeadStep ==
  ASSUME TypeOK, BeliefsAreSafe, [Next]_vars
  PROVE  /\ HeadExists'
         /\ HeadVersion \in Nat /\ HeadVersion' \in Nat
         /\ HeadVersion' >= HeadVersion
         /\ HeadVersion' = HeadVersion /\ HeadVersion # 0
              => order'[HeadVersion] = order[HeadVersion]
         /\ ruled \subseteq ruled'
<1>1. /\ HeadVersion \in Nat /\ HeadVersion \in {0} \cup DOMAIN order
      /\ DOMAIN order \subseteq Nat \ {0}
  BY HeadTyped DEF TypeOK, BeliefsAreSafe
<1>2. CASE order' = order /\ ruled' = ruled
  <2>1. HeadExists' /\ HeadVersion' = HeadVersion
    BY <1>2 DEF BeliefsAreSafe, HeadExists, HeadVersion
  <2> QED BY <1>1, <1>2, <2>1
<1>3. ASSUME NEW w \in Writer, Link(w)
      PROVE  /\ HeadExists' /\ HeadVersion' \in Nat
             /\ HeadVersion' >= HeadVersion
             /\ HeadVersion' = HeadVersion /\ HeadVersion # 0
                  => order'[HeadVersion] = order[HeadVersion]
             /\ ruled \subseteq ruled'
  <2>1. /\ HeadExists'
        /\ Version(w) \in Nat \ {0}
        /\ Version(w) # HeadVersion
        /\ HeadVersion' = IF Version(w) > HeadVersion
                            THEN Version(w) ELSE HeadVersion
    BY <1>3, LinkMovesHead DEF BeliefsAreSafe
  <2>2. HeadVersion' \in Nat /\ HeadVersion' >= HeadVersion
    BY <1>1, <2>1
  <2>3. HeadVersion # 0 => order'[HeadVersion] = order[HeadVersion]
    BY <1>1, <1>3, <2>1 DEF Link, LinkedAt
  <2>4. ruled \subseteq ruled'
    BY <1>3 DEF Link
  <2> QED BY <2>1, <2>2, <2>3, <2>4
<1>4. ASSUME NEW v \in Nat, v < HeadVersion, order' = Without(order, v),
             ruled' = ruled
      PROVE  /\ HeadExists' /\ HeadVersion' = HeadVersion
             /\ HeadVersion # 0 => order'[HeadVersion] = order[HeadVersion]
  <2>1. DOMAIN order' = DOMAIN order \ {v}
    BY <1>4 DEF Without
  <2>2. v # HeadVersion
    BY <1>1, <1>4
  <2>3. /\ \E h \in {0} \cup (DOMAIN order \ {v}) :
              \A u \in DOMAIN order \ {v} : u <= h
        /\ HighestOf(DOMAIN order \ {v}) = HighestOf(DOMAIN order)
    BY <1>1, <2>2, HighestAfterRemoval DEF BeliefsAreSafe, HeadExists, HeadVersion
  <2>4. HeadExists' /\ HeadVersion' = HeadVersion
    BY <2>1, <2>3 DEF HeadExists, HeadVersion
  <2> QED BY <1>1, <1>4, <2>2, <2>4 DEF Without
<1> QED BY <1>1, <1>2, <1>3, <1>4, OrderChanges

-----------------------------------------------------------------------------
(* What one process believes.                                               *)
Safe(p) ==
  /\ ReadIsCurrent(p)
  /\ p \in Writer => RequestFound(p) /\ PublishIsSettled(p)

LEMMA BeliefsBySafe ==
  BeliefsAreSafe <=> HeadExists /\ \A p \in Proc : Safe(p)
BY DEF BeliefsAreSafe, Safe, Proc

(* While the head stays, so does the current document.                      *)
LEMMA CurrentDocStays ==
  ASSUME TypeOK, BeliefsAreSafe, [Next]_vars, HeadVersion' = HeadVersion
  PROVE  CurrentDoc' = CurrentDoc
BY HeadStep DEF CurrentDoc

(* The steps of others leave what a process believes safe.                  *)
LEMMA OthersAreSafe ==
  ASSUME TypeOK, BeliefsAreSafe, [Next]_vars,
         NEW q \in Proc, pc'[q] = pc[q], loc'[q] = loc[q]
  PROVE  Safe(q)'
<1>1. Safe(q)
  BY BeliefsBySafe
<1>2. /\ HeadVersion \in Nat /\ HeadVersion' \in Nat
      /\ HeadVersion' >= HeadVersion
      /\ ruled \subseteq ruled'
  BY HeadStep
<1>3. loc[q].base \in Nat /\ loc[q].attempt \in Nat /\ loc[q].todo \subseteq Nat
  BY DEF TypeOK, Locals
<1>4. ReadIsCurrent(q)'
  <2>1. loc'[q].base <= HeadVersion'
    BY <1>1, <1>2, <1>3 DEF Safe, ReadIsCurrent
  <2>2. ASSUME loc'[q].base = HeadVersion', q \in Writer,
               pc'[q] \in {"names", "items", "stage", "link"}
        PROVE  loc'[q].file.doc = CurrentDoc'
    <3>1. loc[q].base <= HeadVersion
      BY <1>1 DEF Safe, ReadIsCurrent
    <3>2. HeadVersion' = HeadVersion
      BY <1>2, <1>3, <2>2, <3>1
    <3> QED BY <1>1, <2>2, <3>2, CurrentDocStays DEF Safe, ReadIsCurrent
  <2> QED BY <2>1, <2>2 DEF ReadIsCurrent
<1>5. ASSUME q \in Writer PROVE RequestFound(q)' /\ PublishIsSettled(q)'
  <2>1. RequestFound(q)'
    BY <1>1, <1>5 DEF Safe, RequestFound, Named
  <2>2. Version(q)' = Version(q) /\ Version(q) \in Nat
    BY <1>3 DEF Version
  <2>3. PublishIsSettled(q)
    BY <1>1, <1>5 DEF Safe
  <2>4. /\ pc[q] \in {"linked", "check"} =>
             /\ Version(q) <= HeadVersion'
             /\ Version(q) = HeadVersion' => <<q, loc[q].attempt>> \in ruled'
    <3> SUFFICES ASSUME pc[q] \in {"linked", "check"}
                 PROVE  /\ Version(q) <= HeadVersion'
                        /\ Version(q) = HeadVersion'
                             => <<q, loc[q].attempt>> \in ruled'
      OBVIOUS
    <3>1. /\ Version(q) <= HeadVersion
          /\ Version(q) = HeadVersion => <<q, loc[q].attempt>> \in ruled
      BY <2>3 DEF PublishIsSettled
    <3> QED BY <1>2, <2>2, <3>1
  <2>5. pc[q] = "collect" => Version(q) < HeadVersion'
    BY <1>2, <2>2, <2>3 DEF PublishIsSettled
  <2>6. pc[q] \in {"prunescan", "prune"} =>
          Version(q) <= HeadVersion' /\ <<q, loc[q].attempt>> \in ruled'
    BY <1>2, <2>2, <2>3 DEF PublishIsSettled
  <2>7. pc[q] = "prune" => \A v \in loc[q].todo : v < HeadVersion'
    BY <1>2, <1>3, <2>3 DEF PublishIsSettled
  <2>8. pc[q] = "ok" => <<q, loc[q].attempt>> \in ruled'
    BY <1>2, <2>3 DEF PublishIsSettled
  <2>9. PublishIsSettled(q)'
    BY <2>2, <2>4, <2>5, <2>6, <2>7, <2>8 DEF PublishIsSettled
  <2> QED BY <2>1, <2>9
<1> QED BY <1>4, <1>5 DEF Safe

LEMMA ReturnIsSafe ==
  ASSUME TypeOK, BeliefsAreSafe, [Next]_vars,
         NEW p \in Proc, NEW result \in Ended, Return(p, result),
         pc[p] # "idle",
         p \in Writer /\ result = "ok" => <<p, loc[p].attempt>> \in ruled
  PROVE  Safe(p)'
<1>1. /\ HeadVersion \in Nat /\ HeadVersion' \in Nat
      /\ HeadVersion' >= HeadVersion
      /\ ruled \subseteq ruled'
  BY HeadStep
<1>2. Safe(p) /\ loc[p].base \in Nat
  BY BeliefsBySafe DEF TypeOK, Locals
<1>3. pc'[p] = result
  BY DEF Return, Goto, TypeOK
<1>4. CASE p \in Writer
  <2>1. loc'[p] = Fresh(loc[p].req, loc[p].attempt)
    BY <1>4 DEF Return, TypeOK
  <2>2. /\ loc'[p].base = 0 /\ loc'[p].req = loc[p].req
        /\ loc'[p].attempt = loc[p].attempt
    BY <2>1 DEF Fresh
  <2>3. ReadIsCurrent(p)'
    BY <1>1, <1>3, <2>2 DEF ReadIsCurrent, Ended
  <2>4. RequestFound(p)'
    BY <1>2, <1>3, <1>4, <2>2 DEF Safe, RequestFound, Ended
  <2>5. PublishIsSettled(p)'
    BY <1>1, <1>3, <1>4, <2>2 DEF PublishIsSettled, Ended
  <2> QED BY <2>3, <2>4, <2>5 DEF Safe
<1>5. CASE p \notin Writer
  <2>1. loc'[p] = loc[p]
    BY <1>5 DEF Return
  <2>2. loc'[p].base <= HeadVersion'
    BY <1>1, <1>2, <2>1 DEF Safe, ReadIsCurrent
  <2> QED BY <1>5, <2>2 DEF Safe, ReadIsCurrent
<1> QED BY <1>4, <1>5

LEMMA RetryIsSafe ==
  ASSUME TypeOK, BeliefsAreSafe, [Next]_vars,
         NEW w \in Writer, Retry(w), pc[w] # "idle"
  PROVE  Safe(w)'
<1>w. w \in Proc
  BY DEF Proc
<1>1. CASE Return(w, "contended")
  BY <1>w, <1>1, ReturnIsSafe DEF Ended
<1>2. CASE /\ Goto(w, "scan")
           /\ loc' = [loc EXCEPT ![w] = Fresh(loc[w].req, loc[w].attempt + 1)]
  <2>1. Safe(w)
    BY <1>w, BeliefsBySafe
  <2>2. pc'[w] = "scan" /\ loc'[w].base = 0 /\ loc'[w].req = loc[w].req
    BY <1>w, <1>2 DEF Goto, TypeOK, Fresh
  <2>3. HeadVersion' \in Nat
    BY HeadStep
  <2> QED
    BY <2>1, <2>2, <2>3 DEF Safe, ReadIsCurrent, RequestFound, PublishIsSettled
<1> QED BY <1>1, <1>2 DEF Retry

(* A step of p that leaves order/ alone, when p is at none of the steps     *)
(* after a link: what it believes of the head is all there is to show.      *)
LEMMA EarlyIsSafe ==
  ASSUME TypeOK, BeliefsAreSafe, NEW p \in Proc, UNCHANGED <<order, ruled>>,
         pc'[p] \in {"scan", "open", "verify", "names", "items", "stage",
                     "link", "lost", "refused"}
                      \cup (IF p \in Writer THEN {} ELSE {"ok"}),
         loc'[p].req = loc[p].req,
         p \in Writer => pc[p] # "idle",
         loc'[p].base <= HeadVersion,
         p \in Writer /\ pc'[p] \in {"names", "items", "stage", "link"} =>
           (loc'[p].base = HeadVersion => loc'[p].file.doc = CurrentDoc),
         p \in Writer /\ pc'[p] \in {"stage", "link"} =>
           Named(loc[p].req) \subseteq loc'[p].snap
  PROVE  Safe(p)'
<1>1. HeadVersion' = HeadVersion /\ CurrentDoc' = CurrentDoc
  BY DEF HeadVersion, CurrentDoc
<1>2. ReadIsCurrent(p)'
  BY <1>1 DEF ReadIsCurrent
<1>3. ASSUME p \in Writer PROVE RequestFound(p)' /\ PublishIsSettled(p)'
  <2>1. RequestFound(p)
    BY <1>3 DEF BeliefsAreSafe
  <2>2. RequestFound(p)'
    BY <1>3, <2>1 DEF RequestFound, Named
  <2>3. pc'[p] \notin {"linked", "check", "collect", "prunescan", "prune", "ok"}
    BY <1>3
  <2>4. PublishIsSettled(p)'
    BY <2>3 DEF PublishIsSettled
  <2> QED BY <2>2, <2>4
<1> QED BY <1>2, <1>3 DEF Safe

LEMMA ProcSafe ==
  ASSUME TypeOK, BeliefsAreSafe, [Next]_vars, NEW p \in Proc, ProcAction(p)
  PROVE  Safe(p)'
<1>1. /\ Safe(p) /\ loc[p] \in Locals
      /\ HeadVersion \in Nat
      /\ HeadVersion \in {0} \cup DOMAIN order
      /\ \A v \in DOMAIN order : v <= HeadVersion
  BY BeliefsBySafe, HeadTyped DEF TypeOK
<1>2. /\ loc[p].base <= HeadVersion
      /\ p \in Writer /\ pc[p] \in {"names", "items", "stage", "link"} =>
           (loc[p].base = HeadVersion => loc[p].file.doc = CurrentDoc)
  BY <1>1 DEF Safe, ReadIsCurrent
<1> USE DEF Goto, HeadKnown
<1>3. CASE ScanEmpty(p)
  <2>1. /\ loc'[p].base = 0 /\ loc'[p].file = NoFile /\ loc'[p].req = loc[p].req
        /\ pc'[p] = IF p \in Writer THEN "names" ELSE "ok"
        /\ UNCHANGED <<order, ruled>>
    BY <1>3 DEF ScanEmpty, TypeOK, Locals
  <2>2. loc'[p].file.doc = CurrentDoc
    BY <1>3, <2>1 DEF ScanEmpty, CurrentDoc, NoFile
  <2>3. 0 <= HeadVersion
    BY <1>1
  <2>4. pc[p] # "idle"
    BY <1>3 DEF ScanEmpty
  <2>5. p \in Writer => pc'[p] = "names"
    BY <2>1
  <2> QED
    BY <2>1, <2>2, <2>3, <2>4, <2>5, EarlyIsSafe, Zenon
<1>4. CASE ScanHead(p)
  <2>1. /\ loc'[p].base = HeadVersion /\ loc'[p].req = loc[p].req
        /\ pc'[p] = "open"
        /\ UNCHANGED <<order, ruled>>
    BY <1>4 DEF ScanHead, TypeOK, Locals
  <2>2. HeadVersion <= HeadVersion
    BY <1>1
  <2> QED BY <1>4, <2>1, <2>2, EarlyIsSafe DEF ScanHead
<1>5. CASE OpenHead(p)
  <2>1. /\ loc'[p].base = loc[p].base /\ loc'[p].req = loc[p].req
        /\ pc'[p] = "verify"
        /\ UNCHANGED <<order, ruled>>
    BY <1>5 DEF OpenHead, TypeOK, Locals
  <2> QED BY <1>2, <1>5, <2>1, EarlyIsSafe DEF OpenHead
<1>6. CASE HeadGone(p)
  <2>1. CASE loc[p].reads + 1 < MaxHeadReads
    <3>1. /\ pc' = [pc EXCEPT ![p] = "scan"]
          /\ loc' = [loc EXCEPT ![p].reads = @ + 1, ![p].base = 0,
                                ![p].file = NoFile]
      BY <1>6, <2>1 DEF HeadGone
    <3>2. loc'[p] = [loc[p] EXCEPT !.reads = @ + 1, !.base = 0, !.file = NoFile]
      BY <3>1 DEF TypeOK
    <3>3. loc'[p].base = 0 /\ loc'[p].req = loc[p].req
      BY <1>1, <3>2 DEF Locals
    <3>4. 0 <= HeadVersion /\ pc'[p] = "scan" /\ UNCHANGED <<order, ruled>>
      BY <1>1, <1>6, <3>1 DEF HeadGone, TypeOK
    <3> QED BY <1>6, <3>3, <3>4, EarlyIsSafe DEF HeadGone
  <2>2. CASE ~ (loc[p].reads + 1 < MaxHeadReads)
    <3>1. Return(p, "contended") /\ pc[p] # "idle"
      BY <1>6, <2>2 DEF HeadGone
    <3> QED BY <3>1, ReturnIsSafe DEF Ended
  <2> QED BY <2>1, <2>2
<1>7. CASE VerifyHead(p)
  <2>1. /\ loc' = loc
        /\ pc'[p] = IF p \in Writer THEN "names" ELSE "ok"
        /\ UNCHANGED <<order, ruled>>
    BY <1>7 DEF VerifyHead, TypeOK
  <2>2. loc[p].base = HeadVersion => loc[p].file.doc = CurrentDoc
    <3>1. loc[p].base \in DOMAIN order /\ loc[p].file = order[loc[p].base]
      BY <1>7 DEF VerifyHead
    <3>2. loc[p].base # 0
      BY <3>1 DEF TypeOK
    <3> QED BY <3>1, <3>2 DEF CurrentDoc
  <2> QED BY <1>2, <1>7, <2>1, <2>2, EarlyIsSafe DEF VerifyHead
<1>8. CASE HeadReplaced(p)
  BY <1>8, ReturnIsSafe DEF HeadReplaced, Ended
<1>9. CASE ListNames(p)
  <2>1. /\ loc'[p].base = loc[p].base /\ loc'[p].req = loc[p].req
        /\ loc'[p].file = loc[p].file /\ pc'[p] = "items"
        /\ UNCHANGED <<order, ruled>>
    BY <1>9 DEF ListNames, TypeOK, Locals
  <2> QED BY <1>2, <1>9, <2>1, EarlyIsSafe DEF ListNames
<1>10. CASE ReadItems(p)
  <2>1. PICK present \in SUBSET loc[p].snap :
          IF p \in Writer /\ ~ (Named(loc[p].req) \subseteq present)
            THEN Return(p, "notfound")
            ELSE /\ Goto(p, IF p \in Writer THEN "stage" ELSE "scan")
                 /\ loc' = [loc EXCEPT ![p].snap = present]
    BY <1>10 DEF ReadItems
  <2>2. CASE p \in Writer /\ ~ (Named(loc[p].req) \subseteq present)
    <3>1. Return(p, "notfound") /\ pc[p] # "idle"
      BY <1>10, <2>1, <2>2 DEF ReadItems
    <3> QED BY <3>1, ReturnIsSafe DEF Ended
  <2>3. CASE ~ (p \in Writer /\ ~ (Named(loc[p].req) \subseteq present))
    <3>1. /\ pc' = [pc EXCEPT ![p] = IF p \in Writer THEN "stage" ELSE "scan"]
          /\ loc' = [loc EXCEPT ![p].snap = present]
      BY <2>1, <2>3
    <3>2. loc'[p] = [loc[p] EXCEPT !.snap = present]
      BY <3>1 DEF TypeOK
    <3>3. /\ loc'[p].base = loc[p].base /\ loc'[p].req = loc[p].req
          /\ loc'[p].file = loc[p].file /\ loc'[p].snap = present
          /\ pc'[p] = IF p \in Writer THEN "stage" ELSE "scan"
          /\ UNCHANGED <<order, ruled>>
      BY <1>1, <1>10, <3>1, <3>2 DEF ReadItems, TypeOK, Locals
    <3>4. p \in Writer => Named(loc[p].req) \subseteq loc'[p].snap
      BY <2>3, <3>3
    <3> QED BY <1>2, <1>10, <3>3, <3>4, EarlyIsSafe DEF ReadItems
  <2> QED BY <2>2, <2>3
<1>11. CASE CallFails(p)
  BY <1>11, ReturnIsSafe DEF CallFails, Ended
<1>12. CASE Crash(p)
  BY <1>12, ReturnIsSafe DEF Crash, Ended, Pending
<1> QED
  BY <1>3, <1>4, <1>5, <1>6, <1>7, <1>8, <1>9, <1>10, <1>11, <1>12
  DEF ProcAction

(* A step of w after its link.                                              *)
LEMMA LateIsSafe ==
  ASSUME TypeOK, BeliefsAreSafe, [Next]_vars, NEW w \in Writer,
         pc'[w] \in {"linked", "check", "collect", "prunescan", "prune"},
         loc'[w].req = loc[w].req, loc'[w].base = loc[w].base,
         loc'[w].attempt = loc[w].attempt,
         pc[w] # "idle",
         Version(w) <= HeadVersion',
         pc'[w] \in {"linked", "check"} =>
           (Version(w) = HeadVersion' => <<w, loc[w].attempt>> \in ruled'),
         pc'[w] = "collect" => Version(w) < HeadVersion',
         pc'[w] \in {"prunescan", "prune"} => <<w, loc[w].attempt>> \in ruled',
         pc'[w] = "prune" => \A v \in loc'[w].todo : v < HeadVersion'
  PROVE  Safe(w)'
<1>1. Safe(w) /\ loc[w].base \in Nat
  BY BeliefsBySafe DEF TypeOK, Locals, Proc
<1>2. HeadVersion \in Nat /\ HeadVersion' \in Nat /\ HeadVersion' >= HeadVersion
  BY HeadStep
<1>3. ReadIsCurrent(w)'
  <2>1. loc'[w].base <= HeadVersion'
    BY <1>1, <1>2 DEF Safe, ReadIsCurrent
  <2>2. pc'[w] \notin {"names", "items", "stage", "link"}
    OBVIOUS
  <2> QED BY <2>1, <2>2 DEF ReadIsCurrent
<1>4. RequestFound(w)'
  BY <1>1 DEF Safe, RequestFound
<1>5. PublishIsSettled(w)'
  <2>1. Version(w)' = Version(w)
    BY DEF Version
  <2>2. pc'[w] # "ok"
    OBVIOUS
  <2> QED BY <2>1, <2>2 DEF PublishIsSettled
<1> QED BY <1>3, <1>4, <1>5 DEF Safe

LEMMA WriterSafe ==
  ASSUME TypeOK, BeliefsAreSafe, [Next]_vars, NEW w \in Writer, WriterAction(w)
  PROVE  Safe(w)'
<1>w. w \in Proc
  BY DEF Proc
<1>1. /\ Safe(w) /\ ReadIsCurrent(w) /\ RequestFound(w) /\ PublishIsSettled(w)
      /\ loc[w] \in Locals /\ loc[w].base \in Nat /\ loc[w].todo \subseteq Nat
      /\ Version(w) \in Nat
  BY <1>w, BeliefsBySafe DEF TypeOK, Locals, Safe, Version
<1>2. /\ HeadVersion \in Nat /\ HeadVersion' \in Nat
      /\ HeadVersion' >= HeadVersion
      /\ ruled \subseteq ruled'
  BY HeadStep
<1>3. /\ loc[w].base <= HeadVersion
      /\ pc[w] \in {"names", "items", "stage", "link"} =>
           (loc[w].base = HeadVersion => loc[w].file.doc = CurrentDoc)
  BY <1>1 DEF ReadIsCurrent
<1> USE DEF Goto
<1>4. CASE CallReorder(w)
  <2>1. PICK request \in Request : loc' = [loc EXCEPT ![w].req = request]
    BY <1>4 DEF CallReorder
  <2>2. /\ loc'[w].req = request /\ loc'[w].base = loc[w].base
        /\ pc'[w] = "scan"
    BY <1>1, <1>4, <1>w, <2>1 DEF CallReorder, TypeOK, Locals
  <2>3. ReadIsCurrent(w)'
    <3>1. loc'[w].base <= HeadVersion'
      BY <1>1, <1>2, <1>3, <2>2
    <3> QED BY <2>2, <3>1 DEF ReadIsCurrent
  <2> QED BY <2>2, <2>3 DEF Safe, RequestFound, PublishIsSettled
<1>5. CASE Stage(w)
  <2>1. loc' = loc /\ pc'[w] = "link" /\ UNCHANGED <<order, ruled>>
    BY <1>5, <1>w DEF Stage, TypeOK
  <2> QED BY <1>w, <1>1, <1>3, <1>5, <2>1, EarlyIsSafe DEF Stage, RequestFound
<1>6. CASE Link(w)
  <2>1. /\ Version(w) # HeadVersion
        /\ HeadVersion' = IF Version(w) > HeadVersion
                            THEN Version(w) ELSE HeadVersion
    BY <1>6, LinkMovesHead DEF BeliefsAreSafe
  <2>2. /\ loc' = loc /\ pc'[w] = "linked" /\ pc[w] # "idle"
        /\ Version(w) > HeadVersion => <<w, loc[w].attempt>> \in ruled'
    BY <1>6, <1>w DEF Link, TypeOK
  <2>3. Version(w) <= HeadVersion'
    BY <1>1, <1>2, <2>1
  <2>4. Version(w) = HeadVersion' => <<w, loc[w].attempt>> \in ruled'
    BY <1>1, <1>2, <2>1, <2>2
  <2> QED BY <2>2, <2>3, <2>4, LateIsSafe
<1>7. CASE LinkExists(w)
  <2>1. loc' = loc /\ pc'[w] = "lost" /\ UNCHANGED <<order, ruled>>
    BY <1>7, <1>w DEF LinkExists, TypeOK
  <2> QED BY <1>w, <1>3, <1>7, <2>1, EarlyIsSafe DEF LinkExists
<1>8. CASE LinkFails(w)
  <2>1. loc' = loc /\ pc'[w] = "refused" /\ UNCHANGED <<order, ruled>>
    BY <1>8, <1>w DEF LinkFails, TypeOK
  <2> QED BY <1>w, <1>3, <1>8, <2>1, EarlyIsSafe DEF LinkFails
<1>9. CASE Unstage(w)
  <2>1. CASE pc[w] = "linked"
    <3>1. /\ loc' = loc /\ pc'[w] = "check" /\ UNCHANGED <<order, ruled>>
      BY <1>9, <1>w, <2>1 DEF Unstage, TypeOK
    <3>2. HeadVersion' = HeadVersion
      BY <3>1 DEF HeadVersion
    <3>3. /\ Version(w) <= HeadVersion
          /\ Version(w) = HeadVersion => <<w, loc[w].attempt>> \in ruled
      BY <1>1, <2>1 DEF PublishIsSettled
    <3> QED BY <2>1, <3>1, <3>2, <3>3, LateIsSafe
  <2>2. CASE pc[w] = "lost"
    <3>1. Retry(w)
      BY <1>9, <2>2 DEF Unstage
    <3> QED BY <2>2, <3>1, RetryIsSafe
  <2>3. CASE pc[w] = "refused"
    <3>1. Return(w, "error")
      BY <1>9, <2>3 DEF Unstage
    <3> QED BY <1>w, <2>3, <3>1, ReturnIsSafe DEF Ended
  <2> QED BY <1>9, <2>1, <2>2, <2>3 DEF Unstage
<1>10. CASE CheckHead(w)
  <2>1. /\ loc' = loc /\ UNCHANGED <<order, ruled>> /\ pc[w] = "check"
        /\ pc'[w] = IF HeadVersion > Version(w) THEN "collect" ELSE "prunescan"
    BY <1>10, <1>w DEF CheckHead, TypeOK
  <2>2. HeadVersion' = HeadVersion
    BY <2>1 DEF HeadVersion
  <2>3. /\ Version(w) <= HeadVersion
        /\ Version(w) = HeadVersion => <<w, loc[w].attempt>> \in ruled
    BY <1>1, <2>1 DEF PublishIsSettled
  <2>4. CASE HeadVersion > Version(w)
    <3>1. pc'[w] = "collect" /\ Version(w) < HeadVersion
      BY <1>1, <1>2, <2>1, <2>4
    <3> QED BY <2>1, <2>2, <2>3, <3>1, LateIsSafe
  <2>5. CASE ~ (HeadVersion > Version(w))
    <3>1. pc'[w] = "prunescan" /\ <<w, loc[w].attempt>> \in ruled
      BY <1>1, <1>2, <2>1, <2>3, <2>5
    <3> QED BY <2>1, <2>2, <2>3, <3>1, LateIsSafe
  <2> QED BY <2>4, <2>5
<1>11. CASE Collect(w)
  BY <1>11, RetryIsSafe DEF Collect
<1>12. CASE PruneScan(w)
  <2> DEFINE old == {v \in DOMAIN order : v + Keep <= Version(w)}
  <2>1. Version(w) <= HeadVersion /\ <<w, loc[w].attempt>> \in ruled
    BY <1>1, <1>12 DEF PruneScan, PublishIsSettled
  <2>2. CASE Return(w, "ok")
    BY <1>w, <1>12, <2>1, <2>2, ReturnIsSafe DEF PruneScan, Ended
  <2>3. CASE Goto(w, "prune") /\ loc' = [loc EXCEPT ![w].todo = old]
    <3>1. \A v \in old : v < HeadVersion
      BY <1>1, <1>2, <2>1, BoundAssumption DEF TypeOK
    <3> HIDE DEF old
    <3>2. /\ loc'[w].req = loc[w].req /\ loc'[w].base = loc[w].base
          /\ loc'[w].attempt = loc[w].attempt /\ loc'[w].todo = old
          /\ pc'[w] = "prune" /\ pc[w] # "idle"
          /\ UNCHANGED <<order, ruled>>
      BY <1>1, <1>12, <1>w, <2>3 DEF PruneScan, TypeOK, Locals
    <3>3. HeadVersion' = HeadVersion
      BY <3>2 DEF HeadVersion
    <3> QED BY <2>1, <3>1, <3>2, <3>3, LateIsSafe
  <2> QED BY <1>12, <2>2, <2>3 DEF PruneScan
<1>13. CASE Prune(w)
  <2>1. PICK v \in loc[w].todo : loc' = [loc EXCEPT ![w].todo = @ \ {v}]
    BY <1>13 DEF Prune
  <2>2. /\ loc'[w].req = loc[w].req /\ loc'[w].base = loc[w].base
        /\ loc'[w].attempt = loc[w].attempt
        /\ loc'[w].todo \subseteq loc[w].todo
    BY <1>1, <1>w, <2>1 DEF TypeOK, Locals
  <2>3. pc'[w] = "prune" /\ pc[w] = "prune"
    BY <1>13 DEF Prune
  <2>4. /\ Version(w) <= HeadVersion /\ <<w, loc[w].attempt>> \in ruled
        /\ \A u \in loc[w].todo : u < HeadVersion
    BY <1>1, <2>3 DEF PublishIsSettled
  <2>5. /\ Version(w) <= HeadVersion' /\ <<w, loc[w].attempt>> \in ruled'
        /\ \A u \in loc'[w].todo : u < HeadVersion'
    BY <1>1, <1>2, <2>2, <2>4
  <2> QED BY <2>2, <2>3, <2>5, LateIsSafe
<1>14. CASE PruneDone(w)
  <2>1. <<w, loc[w].attempt>> \in ruled
    BY <1>1, <1>14 DEF PruneDone, PublishIsSettled
  <2> QED BY <1>w, <1>14, <2>1, ReturnIsSafe DEF PruneDone, Ended
<1> QED
  BY <1>4, <1>5, <1>6, <1>7, <1>8, <1>9, <1>10, <1>11, <1>12, <1>13, <1>14
  DEF WriterAction

-----------------------------------------------------------------------------
(* A process moves by steps of its own only.                                *)
LEMMA OthersStay ==
  ASSUME TypeOK, NEW p \in Proc, NEW q \in Proc, q # p,
         ProcAction(p) \/ (p \in Writer /\ WriterAction(p))
                       \/ (p \in Reader /\ CallList(p))
  PROVE  pc'[q] = pc[q] /\ loc'[q] = loc[q]
<1> USE DEF Goto, Return, Retry, HeadKnown
<1>1. CASE ProcAction(p)
  BY <1>1 DEF ProcAction, ScanEmpty, ScanHead, OpenHead, HeadGone, VerifyHead,
       HeadReplaced, ListNames, ReadItems, CallFails, Crash, TypeOK
<1>2. CASE p \in Writer /\ WriterAction(p)
  BY <1>2 DEF WriterAction, CallReorder, Stage, Link, LinkExists, LinkFails,
       Unstage, CheckHead, Collect, PruneScan, Prune, PruneDone, TypeOK
<1>3. CASE p \in Reader /\ CallList(p)
  BY <1>3 DEF CallList, TypeOK
<1> QED BY <1>1, <1>2, <1>3

LEMMA BeliefStep ==
  TypeOK /\ BeliefsAreSafe /\ [Next]_vars => BeliefsAreSafe'
<1> SUFFICES ASSUME TypeOK, BeliefsAreSafe, [Next]_vars
             PROVE  BeliefsAreSafe'
  OBVIOUS
<1>1. HeadExists'
  BY HeadStep
<1>2. ASSUME NEW q \in Proc PROVE Safe(q)'
  <2>1. ASSUME NEW p \in Proc, ProcAction(p) PROVE Safe(q)'
    <3>1. CASE p = q
      BY <2>1, <3>1, ProcSafe
    <3>2. CASE p # q
      BY <2>1, <3>2, OthersStay, OthersAreSafe
    <3> QED BY <3>1, <3>2
  <2>2. ASSUME NEW w \in Writer, WriterAction(w) PROVE Safe(q)'
    <3>1. CASE w = q
      BY <2>2, <3>1, WriterSafe
    <3>2. CASE w # q
      BY <2>2, <3>2, OthersStay, OthersAreSafe DEF Proc
    <3> QED BY <3>1, <3>2
  <2>3. ASSUME NEW r \in Reader, CallList(r) PROVE Safe(q)'
    <3>1. CASE r = q
      <4>1. /\ r \notin Writer /\ loc' = loc
            /\ UNCHANGED <<order, ruled>>
            /\ pc'[r] = "names"
        BY <2>3, ProcAssumption DEF CallList, Goto, TypeOK, Proc
      <4>2. loc[q].base <= HeadVersion
        BY BeliefsBySafe DEF Safe, ReadIsCurrent
      <4>3. HeadVersion' = HeadVersion
        BY <4>1 DEF HeadVersion
      <4> QED BY <3>1, <4>1, <4>2, <4>3 DEF Safe, ReadIsCurrent
    <3>2. CASE r # q
      BY <2>3, <3>2, OthersStay, OthersAreSafe DEF Proc
    <3> QED BY <3>1, <3>2
  <2>4. ASSUME NEW i \in Id, AddItem(i) \/ RemoveItem(i) PROVE Safe(q)'
    <3>1. pc' = pc /\ loc' = loc
      BY <2>4 DEF AddItem, RemoveItem
    <3> QED BY <3>1, OthersAreSafe
  <2>5. CASE UNCHANGED vars
    <3>1. pc' = pc /\ loc' = loc
      BY <2>5 DEF vars
    <3> QED BY <3>1, OthersAreSafe
  <2> QED BY <2>1, <2>2, <2>3, <2>4, <2>5, NextByActor
<1> QED BY <1>1, <1>2 DEF BeliefsAreSafe, Safe, Proc

LEMMA BeliefInit == Init => BeliefsAreSafe
<1> SUFFICES ASSUME Init PROVE BeliefsAreSafe
  OBVIOUS
<1>1. DOMAIN order = 1 .. InitHead
  BY DEF Init
<1>2. HeadExists
  <2>1. /\ InitHead \in {0} \cup DOMAIN order
        /\ \A v \in DOMAIN order : v <= InitHead
    BY <1>1, BoundAssumption
  <2> QED BY <2>1 DEF HeadExists
<1>3. ASSUME NEW p \in Proc PROVE Safe(p)
  <2>1. pc[p] = "idle" /\ loc[p].base = 0
    BY DEF Init, Fresh
  <2>2. 0 <= HeadVersion
    BY <1>2, TypeInit, HeadTyped
  <2> QED
    BY <2>1, <2>2 DEF Safe, ReadIsCurrent, RequestFound, PublishIsSettled
<1> QED BY <1>2, <1>3, BeliefsBySafe

-----------------------------------------------------------------------------
(* The types and the processes' beliefs about the head.                     *)
LEMMA BeliefsHold == Spec => [](TypeOK /\ BeliefsAreSafe)
<1>1. Init => TypeOK /\ BeliefsAreSafe
  BY TypeInit, BeliefInit
<1>2. TypeOK /\ BeliefsAreSafe /\ [Next]_vars => (TypeOK /\ BeliefsAreSafe)'
  BY TypeStep, BeliefStep
<1> QED BY <1>1, <1>2, PTL DEF Spec

(* A Reorder that returned success published the highest version.           *)
THEOREM WonIsApplied == Spec => []WonMeansApplied
<1>1. BeliefsAreSafe => WonMeansApplied
  BY DEF BeliefsAreSafe, PublishIsSettled, WonMeansApplied
<1> QED BY <1>1, BeliefsHold, PTL

(* The current version never goes back.                                     *)
THEOREM HeadMonotone == Spec => HeadNeverBack
<1>1. TypeOK /\ BeliefsAreSafe /\ [Next]_vars
        => [HeadVersion' >= HeadVersion]_vars
  BY HeadStep
<1> QED BY <1>1, BeliefsHold, PTL
        DEF Spec, HeadNeverBack

(* The current document is never exchanged for another under its name, and  *)
(* so only ever superseded by a higher version.                             *)
THEOREM HeadStable == Spec => HeadOnlySuperseded
<1>1. TypeOK /\ BeliefsAreSafe /\ [Next]_vars
        => [HeadVersion' = HeadVersion /\ HeadVersion # 0
              => order'[HeadVersion] = order[HeadVersion]]_vars
  BY HeadStep
<1>2. Spec => HeadNeverReplaced
  BY <1>1, BeliefsHold, PTL DEF Spec, HeadNeverReplaced
<1> QED BY <1>2, HeadMonotone, PTL DEF HeadOnlySuperseded

-----------------------------------------------------------------------------
(* The store implements the atomic register.                                *)
LEMMA RegisterInit == Init => Register!RegInit
<1> SUFFICES ASSUME Init PROVE Register!RegInit
  OBVIOUS
<1>1. DOMAIN order = 1 .. InitHead
  BY DEF Init
<1>2. HighestOf(1 .. InitHead) = InitHead
  <2>1. /\ 1 .. InitHead \subseteq Nat \ {0}
        /\ InitHead \in {0} \cup (1 .. InitHead)
        /\ \A v \in 1 .. InitHead : v <= InitHead
    BY BoundAssumption
  <2> DEFINE V == 1 .. InitHead
  <2> HIDE DEF V
  <2>2. HighestOf(V) = InitHead
    BY <2>1, HighestIsUnique DEF V
  <2> QED BY <2>2 DEF V
<1>3. CurrentDoc = IF InitHead = 0 THEN Empty ELSE InitDoc
  <2>1. HeadVersion = InitHead
    BY <1>1, <1>2 DEF HeadVersion
  <2>2. InitHead # 0 => order[InitHead].doc = InitDoc
    BY BoundAssumption DEF Init, NoFile
  <2> QED BY <2>1, <2>2 DEF CurrentDoc
<1>4. [w \in Writer |-> loc[w].req] = [w \in Writer |-> <<>>]
  BY DEF Init, Fresh, Proc
<1>5. [w \in Writer |-> Status(pc[w])] = [w \in Writer |-> "idle"]
  BY DEF Init, Status, Proc
<1>6. {u[1] : u \in ruled} = {}
  BY DEF Init
<1> QED BY <1>3, <1>4, <1>5, <1>6 DEF Register!RegInit

(* A step of a writer in a call either keeps it there or ends its call, and *)
(* keeps its request.                                                       *)
LEMMA WriterGoesOn ==
  ASSUME TypeOK, NEW w \in Writer,
         ProcAction(w) \/ (WriterAction(w) /\ ~ CallReorder(w))
  PROVE  /\ pc[w] \in Pending
         /\ pc'[w] \in Pending \cup Ended
         /\ loc'[w].req = loc[w].req
<1>w. w \in Proc /\ loc[w] \in Locals
  BY DEF Proc, TypeOK
<1>1. pc[w] \in Pending /\ pc'[w] \in Pending \cup Ended
  <2> USE DEF Goto, Return, Retry, HeadKnown, Pending, Ended
  <2>1. CASE ProcAction(w)
    BY <1>w, <2>1 DEF ProcAction, ScanEmpty, ScanHead, OpenHead, HeadGone,
         VerifyHead, HeadReplaced, ListNames, ReadItems, CallFails, Crash, TypeOK
  <2>2. CASE WriterAction(w) /\ ~ CallReorder(w)
    BY <1>w, <2>2 DEF WriterAction, Stage, Link, LinkExists, LinkFails,
         Unstage, CheckHead, Collect, PruneScan, Prune, PruneDone, TypeOK
  <2> QED BY <2>1, <2>2
<1>2. ASSUME NEW result, Return(w, result) PROVE loc'[w].req = loc[w].req
  BY <1>w, <1>2 DEF Return, Fresh, TypeOK
<1>3. ASSUME Retry(w) PROVE loc'[w].req = loc[w].req
  BY <1>w, <1>2, <1>3 DEF Retry, Fresh, TypeOK
<1>4. loc'[w].req = loc[w].req
  <2>1. CASE HeadGone(w)
    BY <1>w, <1>2, <2>1 DEF HeadGone, TypeOK, Locals
  <2>2. CASE ReadItems(w)
    BY <1>w, <1>2, <2>2 DEF ReadItems, TypeOK, Locals
  <2>3. CASE PruneScan(w)
    BY <1>w, <1>2, <2>3 DEF PruneScan, TypeOK, Locals
  <2>4. CASE Prune(w)
    BY <1>w, <2>4 DEF Prune, TypeOK, Locals
  <2>5. CASE Unstage(w)
    BY <1>w, <1>2, <1>3, <2>5 DEF Unstage
  <2>6. CASE \/ ScanEmpty(w) \/ ScanHead(w) \/ OpenHead(w) \/ ListNames(w)
             \/ VerifyHead(w) \/ Stage(w) \/ Link(w) \/ LinkExists(w)
             \/ LinkFails(w) \/ CheckHead(w)
    BY <1>w, <2>6 DEF ScanEmpty, ScanHead, OpenHead, ListNames, VerifyHead,
         Stage, Link, LinkExists, LinkFails, CheckHead, TypeOK, Locals
  <2>7. CASE \/ HeadReplaced(w) \/ CallFails(w) \/ Crash(w) \/ Collect(w)
             \/ PruneDone(w)
    BY <1>2, <1>3, <2>7 DEF HeadReplaced, CallFails, Crash, Collect, PruneDone
  <2> QED BY <2>1, <2>2, <2>3, <2>4, <2>5, <2>6, <2>7
          DEF ProcAction, WriterAction
<1> QED BY <1>1, <1>4

(* A step without a link leaves the current document alone.                 *)
LEMMA OnlyLinksChangeDoc ==
  ASSUME TypeOK, BeliefsAreSafe, [Next]_vars, \A w \in Writer : ~ Link(w)
  PROVE  CurrentDoc' = CurrentDoc /\ ruled' = ruled
<1>1. /\ HeadVersion \in Nat /\ HeadVersion \in {0} \cup DOMAIN order
      /\ DOMAIN order \subseteq Nat \ {0}
  BY HeadTyped DEF TypeOK, BeliefsAreSafe
<1>2. CASE order' = order /\ ruled' = ruled
  BY <1>2 DEF CurrentDoc, HeadVersion
<1>3. ASSUME NEW v \in Nat, v < HeadVersion, order' = Without(order, v),
             ruled' = ruled
      PROVE  CurrentDoc' = CurrentDoc
  <2>1. DOMAIN order' = DOMAIN order \ {v} /\ v # HeadVersion
    BY <1>1, <1>3 DEF Without
  <2>2. HighestOf(DOMAIN order \ {v}) = HighestOf(DOMAIN order)
    BY <1>1, <2>1, HighestAfterRemoval DEF BeliefsAreSafe, HeadExists, HeadVersion
  <2>3. HeadVersion' = HeadVersion
    BY <2>1, <2>2 DEF HeadVersion
  <2> QED BY <2>3, CurrentDocStays
<1> QED BY <1>2, <1>3, OrderChanges

(* Seen through the mapping, the steps of a call are: nothing, or the end   *)
(* of the call.                                                             *)
LEMMA CallStep ==
  ASSUME TypeOK, BeliefsAreSafe, BeliefsAreSafe', [Next]_vars,
         NEW w \in Writer,
         ProcAction(w) \/ (WriterAction(w) /\ ~ CallReorder(w)),
         \A u \in Writer : ~ Link(u)
  PROVE  Register!RegReturn(w) \/ UNCHANGED Register!regVars
<1> DEFINE state(u) == Status(pc[u])
           asked == [u \in Writer |-> loc[u].req]
           status == [u \in Writer |-> state(u)]
<1>w. w \in Proc
  BY DEF Proc
<1>1. /\ pc[w] \in Pending /\ pc'[w] \in Pending \cup Ended
      /\ loc'[w].req = loc[w].req
  BY WriterGoesOn
<1>2. CurrentDoc' = CurrentDoc /\ ruled' = ruled
  BY OnlyLinksChangeDoc
<1>3. \A u \in Writer \ {w} : pc'[u] = pc[u] /\ loc'[u] = loc[u]
  BY <1>w, OthersStay DEF Proc
<1>4. asked' = asked
  BY <1>1, <1>3
<1>5. Status(pc[w]) = "busy"
  BY <1>1 DEF Status, Pending, Ended
<1>6. CASE pc'[w] \in Pending
  <2>1. Status(pc'[w]) = "busy"
    BY <1>6 DEF Status, Pending, Ended
  <2>2. status' = status
    BY <1>3, <1>5, <2>1
  <2> QED BY <1>2, <1>4, <2>2 DEF Register!regVars
<1>7. CASE pc'[w] \in Ended
  <2>1. status' = [status EXCEPT ![w] = Status(pc'[w])]
    BY <1>3
  <2>2. CASE pc'[w] = "ok"
    <3>1. Status(pc'[w]) = "ok"
      BY <2>2 DEF Status
    <3>2. <<w, loc'[w].attempt>> \in ruled
      BY <1>2, <2>2 DEF BeliefsAreSafe, PublishIsSettled
    <3>3. w \in {u[1] : u \in ruled}
      BY <3>2
    <3> QED BY <1>2, <1>4, <1>5, <2>1, <3>1, <3>3 DEF Register!RegReturn
  <2>3. CASE pc'[w] # "ok"
    <3>1. Status(pc'[w]) = "failed"
      BY <1>7, <2>3 DEF Status, Ended
    <3> QED BY <1>2, <1>4, <1>5, <2>1, <3>1 DEF Register!RegReturn
  <2> QED BY <2>2, <2>3
<1> QED BY <1>1, <1>6, <1>7

(* A link at the head is one reorder applied to the current document; a     *)
(* link in a hole below it is nothing.                                      *)
LEMMA LinkApplies ==
  ASSUME TypeOK, BeliefsAreSafe, NEW w \in Writer, Link(w), [Next]_vars
  PROVE  Register!RegApply(w) \/ UNCHANGED Register!regVars
<1>w. w \in Proc /\ loc[w] \in Locals /\ loc[w].base \in Nat
  BY DEF Proc, TypeOK, Locals
<1>1. /\ HeadVersion \in Nat
      /\ Version(w) \in Nat \ {0}
      /\ Version(w) # HeadVersion
      /\ HeadVersion' = IF Version(w) > HeadVersion
                          THEN Version(w) ELSE HeadVersion
  BY HeadTyped, LinkMovesHead DEF BeliefsAreSafe
<1>2. /\ loc[w].base <= HeadVersion
      /\ loc[w].base = HeadVersion => loc[w].file.doc = CurrentDoc
      /\ Named(loc[w].req) \subseteq loc[w].snap
  BY <1>w DEF BeliefsAreSafe, ReadIsCurrent, RequestFound, Link
<1>3. [u \in Writer |-> loc[u].req]' = [u \in Writer |-> loc[u].req]
  BY DEF Link
<1>4. [u \in Writer |-> Status(pc[u])]' = [u \in Writer |-> Status(pc[u])]
  BY DEF Link, Goto, Status, TypeOK, Ended
<1>5. Status(pc[w]) = "busy"
  BY DEF Link, Status, Ended
<1>6. CASE Version(w) > HeadVersion
  <2> DEFINE new == Merge(loc[w].req, CurrentDoc, loc[w].snap)
  <2>1. loc[w].file.doc = CurrentDoc
    BY <1>w, <1>1, <1>2, <1>6 DEF Version
  <2>2. HeadVersion' = Version(w) /\ HeadVersion' # 0
    BY <1>1, <1>6
  <2>3. order'[Version(w)].doc = new
    BY <2>1 DEF Link, LinkedAt
  <2>4. CurrentDoc' = new
    BY <2>2, <2>3 DEF CurrentDoc
  <2>5. loc[w].snap \in SUBSET Id
    BY <1>w DEF Locals
  <2>6. ruled' = ruled \cup {<<w, loc[w].attempt>>}
    BY <1>6 DEF Link
  <2>7. {u[1] : u \in ruled'} = {u[1] : u \in ruled} \cup {w}
    <3>1. \A u \in ruled' : u \in ruled \/ u[1] = w
      BY <2>6
    <3>2. ASSUME NEW x \in {u[1] : u \in ruled} \cup {w}
          PROVE  x \in {u[1] : u \in ruled'}
      <4>1. CASE x = w
        <5>1. <<w, loc[w].attempt>> \in ruled' /\ <<w, loc[w].attempt>>[1] = x
          BY <2>6, <4>1
        <5> QED BY <5>1
      <4>2. CASE x \in {u[1] : u \in ruled}
        BY <2>6, <4>2
      <4> QED BY <4>1, <4>2
    <3> QED BY <3>1, <3>2
  <2>8. \A i \in DOMAIN loc[w].req : loc[w].req[i] \in loc[w].snap
    BY <1>2 DEF Named
  <2> QED BY <1>3, <1>4, <1>5, <2>4, <2>5, <2>7, <2>8 DEF Register!RegApply
<1>7. CASE ~ (Version(w) > HeadVersion)
  <2>1. HeadVersion' = HeadVersion /\ ruled' = ruled
    BY <1>1, <1>7 DEF Link
  <2>2. CurrentDoc' = CurrentDoc
    BY <2>1, CurrentDocStays
  <2> QED BY <1>3, <1>4, <2>1, <2>2 DEF Register!regVars
<1> QED BY <1>6, <1>7

LEMMA RegisterStep ==
  TypeOK /\ BeliefsAreSafe /\ BeliefsAreSafe' /\ [Next]_vars
    => [Register!RegNext]_(Register!regVars)
<1> SUFFICES ASSUME TypeOK, BeliefsAreSafe, BeliefsAreSafe', [Next]_vars
             PROVE  Register!RegNext \/ UNCHANGED Register!regVars
  OBVIOUS
<1>1. ASSUME NEW w \in Writer, Link(w)
      PROVE  Register!RegNext \/ UNCHANGED Register!regVars
  BY <1>1, LinkApplies DEF Register!RegNext
<1>2. ASSUME \A u \in Writer : ~ Link(u)
      PROVE  Register!RegNext \/ UNCHANGED Register!regVars
  <2>1. CurrentDoc' = CurrentDoc /\ ruled' = ruled
    BY <1>2, OnlyLinksChangeDoc
  <2>2. ASSUME \A u \in Writer : pc'[u] = pc[u] /\ loc'[u] = loc[u]
        PROVE  UNCHANGED Register!regVars
    BY <2>1, <2>2 DEF Register!regVars
  <2>3. ASSUME NEW w \in Writer, ProcAction(w) \/ WriterAction(w)
        PROVE  Register!RegNext \/ UNCHANGED Register!regVars
    <3>1. CASE CallReorder(w)
      <4>1. PICK request \in Request : loc' = [loc EXCEPT ![w].req = request]
        BY <3>1 DEF CallReorder
      <4>2. \A u \in Writer : loc'[u].req = IF u = w THEN request ELSE loc[u].req
        BY <4>1 DEF TypeOK, Locals, Proc
      <4>3. [u \in Writer |-> loc[u].req]'
              = [[u \in Writer |-> loc[u].req] EXCEPT ![w] = request]
        BY <4>2
      <4>4. [u \in Writer |-> Status(pc[u])]'
              = [[u \in Writer |-> Status(pc[u])] EXCEPT ![w] = "busy"]
        BY <3>1 DEF CallReorder, Goto, Status, TypeOK, Ended, Proc
      <4>5. Status(pc[w]) = "idle"
        BY <3>1 DEF CallReorder, Status
      <4>6. Register!RegCall(w)
        BY <2>1, <4>3, <4>4, <4>5 DEF Register!RegCall
      <4> QED BY <4>6 DEF Register!RegNext
    <3>2. CASE ~ CallReorder(w)
      BY <1>2, <2>3, <3>2, CallStep DEF Register!RegNext
    <3> QED BY <3>1, <3>2
  <2>4. ASSUME NEW r \in Reader, ProcAction(r) \/ CallList(r)
        PROVE  UNCHANGED Register!regVars
    <3>1. \A u \in Writer : u # r /\ u \in Proc
      BY ProcAssumption DEF Proc
    <3> QED BY <2>2, <2>4, <3>1, OthersStay DEF Proc
  <2>5. ASSUME NEW i \in Id, AddItem(i) \/ RemoveItem(i)
        PROVE  UNCHANGED Register!regVars
    BY <2>2, <2>5 DEF AddItem, RemoveItem
  <2>6. CASE UNCHANGED vars
    BY <2>2, <2>6 DEF vars
  <2> QED BY <2>3, <2>4, <2>5, <2>6, NextByActor DEF Proc
<1> QED BY <1>1, <1>2

(* Every change of the current order is one reorder, applied to the order   *)
(* it replaces, of a call that asked for it; a call that returned success   *)
(* was applied.                                                             *)
THEOREM StoreImplementsRegister == Spec => ImplementsRegister
<1>1. TypeOK /\ BeliefsAreSafe /\ (TypeOK /\ BeliefsAreSafe)' /\ [Next]_vars
        => [Register!RegNext]_(Register!regVars)
  BY RegisterStep
<1> QED
  BY <1>1, RegisterInit, BeliefsHold, PTL
  DEF Spec, ImplementsRegister, Register!RegSpec

-----------------------------------------------------------------------------
(* The race.  An attempt is given up for the next one, or goes on under its *)
(* version; a call that has ended stays ended.                              *)
AttemptGoesOn(w) ==
  \/ loc'[w].attempt = loc[w].attempt + 1
  \/ /\ loc'[w].attempt = loc[w].attempt
     /\ pc[w] \in Settling \cup Ended => pc'[w] \in Settling \cup Ended
     /\ pc[w] \in Settling /\ pc'[w] \in Settling => Version(w)' = Version(w)
     /\ pc[w] \in Ended => pc'[w] \in Ended

LEMMA WriterLocals ==
  ASSUME TypeOK, NEW w \in Writer
  PROVE  /\ w \in Proc /\ loc[w] \in Locals
         /\ loc[w].attempt \in Nat /\ loc[w].base \in Nat /\ Version(w) \in Nat \ {0}
BY DEF TypeOK, Proc, Locals, Version

LEMMA AttemptsReturn ==
  ASSUME TypeOK, NEW w \in Writer, NEW result \in Ended, Return(w, result)
  PROVE  loc'[w].attempt = loc[w].attempt /\ pc'[w] = result
BY WriterLocals DEF Return, Goto, Fresh, TypeOK

LEMMA AttemptsRetry ==
  ASSUME TypeOK, NEW w \in Writer, Retry(w)
  PROVE  \/ loc'[w].attempt = loc[w].attempt + 1 /\ pc'[w] = "scan"
         \/ loc'[w].attempt = loc[w].attempt /\ pc'[w] = "contended"
<1>1. CASE Return(w, "contended")
  BY <1>1, AttemptsReturn DEF Ended
<1>2. CASE /\ Goto(w, "scan")
           /\ loc' = [loc EXCEPT ![w] = Fresh(loc[w].req, loc[w].attempt + 1)]
  BY <1>2, WriterLocals DEF Goto, Fresh, TypeOK
<1> QED BY <1>1, <1>2 DEF Retry

LEMMA AttemptsGoOn ==
  ASSUME TypeOK, [Next]_vars, NEW w \in Writer
  PROVE  AttemptGoesOn(w)
<1> USE WriterLocals DEF AttemptGoesOn
<1>1. CASE pc'[w] = pc[w] /\ loc'[w] = loc[w]
  BY <1>1 DEF Version
<1>2. ASSUME NEW result \in Ended, Return(w, result), pc[w] \notin Ended
      PROVE  AttemptGoesOn(w)
  BY <1>2, AttemptsReturn DEF Settling, Ended
<1>3. CASE ProcAction(w)
  <2>1. CASE CallFails(w) \/ Crash(w)
    <3>1. pc[w] \notin Ended /\ \E result \in Ended : Return(w, result)
      BY <2>1 DEF CallFails, Crash, Pending, Ended
    <3> QED BY <1>2, <3>1
  <2>2. CASE pc[w] \notin Settling \cup Ended /\ loc'[w].attempt = loc[w].attempt
    BY <2>2
  <2>3. CASE ~ (CallFails(w) \/ Crash(w))
    <3>1. pc[w] \notin Settling \cup Ended
      BY <1>3, <2>3 DEF ProcAction, ScanEmpty, ScanHead, OpenHead, HeadGone, VerifyHead,
         HeadReplaced, ListNames, ReadItems, Settling, Ended
    <3>2. loc'[w].attempt = loc[w].attempt
      <4>1. ASSUME NEW result \in Ended, Return(w, result)
            PROVE  loc'[w].attempt = loc[w].attempt
        BY <4>1, AttemptsReturn
      <4>2. CASE HeadGone(w) \/ HeadReplaced(w) \/ ReadItems(w)
        <5>1. CASE HeadReplaced(w)
          BY <4>1, <5>1 DEF HeadReplaced, Ended
        <5>2. CASE HeadGone(w)
          <6>1. CASE Return(w, "contended")
            BY <4>1, <6>1 DEF Ended
          <6>2. CASE loc' = [loc EXCEPT ![w].reads = @ + 1, ![w].base = 0, ![w].file = NoFile]
            <7> DEFINE n == loc[w].reads + 1
            <7>1. loc' = [loc EXCEPT ![w].reads = n, ![w].base = 0, ![w].file = NoFile]
              BY <6>2
            <7> HIDE DEF n
            <7>2. loc[w] \in Locals
              BY WriterLocals
            <7> QED BY <7>1, <7>2 DEF TypeOK, Locals
          <6> QED BY <5>2, <6>1, <6>2 DEF HeadGone
        <5>3. CASE ReadItems(w)
          <6>1. PICK present \in SUBSET loc[w].snap :
                  Return(w, "notfound") \/ loc' = [loc EXCEPT ![w].snap = present]
            BY <5>3 DEF ReadItems
          <6>2. CASE Return(w, "notfound")
            BY <4>1, <6>2 DEF Ended
          <6>3. CASE loc' = [loc EXCEPT ![w].snap = present]
            BY <6>3 DEF TypeOK, Locals
          <6> QED BY <6>1, <6>2, <6>3
        <5> QED BY <4>2, <5>1, <5>2, <5>3
      <4>3. CASE \/ ScanEmpty(w) \/ ScanHead(w) \/ OpenHead(w) \/ VerifyHead(w) \/ ListNames(w)
        BY <4>3 DEF ScanEmpty, ScanHead, OpenHead, VerifyHead, ListNames, TypeOK, Locals
      <4> QED BY <1>3, <2>3, <4>2, <4>3 DEF ProcAction
    <3> QED BY <2>2, <3>1, <3>2
  <2> QED BY <2>1, <2>3
<1>4. CASE WriterAction(w)
  <2>1. CASE CallReorder(w) \/ Stage(w) \/ Link(w) \/ LinkExists(w) \/ LinkFails(w)
    <3>1. pc[w] \notin Settling \cup Ended /\ loc'[w].attempt = loc[w].attempt
      BY <2>1 DEF CallReorder, Stage, Link, LinkExists, LinkFails, Settling, Ended, TypeOK, Locals
    <3> QED BY <3>1
  <2>2. CASE Unstage(w)
    <3>1. CASE pc[w] = "linked"
      BY <2>2, <3>1 DEF Unstage, Goto, Settling, Ended, Version, TypeOK
    <3>2. CASE pc[w] = "lost"
      <4>1. Retry(w)
        BY <2>2, <3>2 DEF Unstage
      <4> QED BY <3>2, <4>1, AttemptsRetry DEF Settling, Ended
    <3>3. CASE pc[w] = "refused"
      <4>1. Return(w, "error")
        BY <2>2, <3>3 DEF Unstage
      <4> QED BY <1>2, <3>3, <4>1 DEF Ended
    <3> QED BY <2>2, <3>1, <3>2, <3>3 DEF Unstage
  <2>3. CASE CheckHead(w)
    BY <2>3 DEF CheckHead, Goto, Settling, Ended, Version, TypeOK
  <2>4. CASE Collect(w)
    BY <2>4, AttemptsRetry DEF Collect, Settling, Ended
  <2>5. CASE (PruneScan(w) \/ PruneDone(w)) /\ Return(w, "ok")
    BY <1>2, <2>5 DEF PruneScan, PruneDone, Ended
  <2>6. CASE PruneScan(w) /\ ~ Return(w, "ok")
    <3> DEFINE old == {v \in DOMAIN order : v + Keep <= Version(w)}
    <3>1. /\ pc[w] = "prunescan" /\ pc'[w] = "prune"
          /\ loc' = [loc EXCEPT ![w].todo = old]
      BY <2>6 DEF PruneScan, Goto, TypeOK
    <3> HIDE DEF old
    <3>2. loc'[w].attempt = loc[w].attempt /\ loc'[w].base = loc[w].base
      BY <3>1 DEF TypeOK
    <3> QED BY <3>1, <3>2 DEF Settling, Ended, Version
  <2>7. CASE Prune(w)
    <3>1. /\ pc[w] = "prune" /\ pc'[w] = "prune"
          /\ loc'[w].attempt = loc[w].attempt /\ loc'[w].base = loc[w].base
      BY <2>7 DEF Prune, TypeOK, Locals
    <3> QED BY <3>1 DEF Settling, Ended, Version
  <2>8. PruneDone(w) => Return(w, "ok")
    BY DEF PruneDone
  <2> QED BY <1>4, <2>1, <2>2, <2>3, <2>4, <2>5, <2>6, <2>7, <2>8 DEF WriterAction
<1>5. ASSUME NEW q \in Proc, q # w,
             ProcAction(q) \/ (q \in Writer /\ WriterAction(q)) \/ (q \in Reader /\ CallList(q))
      PROVE  pc'[w] = pc[w] /\ loc'[w] = loc[w]
  BY <1>5, OthersStay
<1>6. ASSUME NEW r \in Reader, CallList(r)
      PROVE  pc'[w] = pc[w] /\ loc'[w] = loc[w]
  BY <1>5, <1>6, ProcAssumption DEF Proc
<1>7. ASSUME NEW i \in Id, AddItem(i) \/ RemoveItem(i)
      PROVE  pc'[w] = pc[w] /\ loc'[w] = loc[w]
  BY <1>7 DEF AddItem, RemoveItem
<1>8. CASE UNCHANGED vars
  BY <1>1, <1>8 DEF vars
<1> QED BY <1>1, <1>3, <1>4, <1>5, <1>6, <1>7, <1>8, NextByActor DEF Proc

(* What is left of the steps after the link when no call fails.             *)
LEMMA QuietStep ==
  ASSUME TypeOK, NEW w \in Writer, ProcAction(w) \/ WriterAction(w), faults' = 0
  PROVE  /\ pc[w] \notin Ended
         /\ pc[w] = "link" => Link(w) \/ LinkExists(w)
         /\ pc[w] \in {"linked", "lost", "refused"} =>
              /\ Unstage(w) /\ tmp' = tmp \ {<<w, loc[w].attempt>>} /\ order' = order
              /\ pc[w] = "linked" => pc'[w] = "check" /\ loc' = loc
         /\ pc[w] = "check" => CheckHead(w)
         /\ pc[w] = "collect" => Collect(w) /\ order' = Without(order, Version(w))
         /\ pc[w] = "prunescan" =>
              /\ pc'[w] = "prune" /\ order' = order
              /\ loc' = [loc EXCEPT ![w].todo = {v \in DOMAIN order : v + Keep <= Version(w)}]
         /\ pc[w] = "prune" =>
              \/ loc[w].todo = {} /\ Return(w, "ok") /\ order' = order
              \/ \E v \in loc[w].todo : /\ loc' = [loc EXCEPT ![w].todo = @ \ {v}]
                                        /\ order' = Without(order, v) /\ pc' = pc
<1>1. ~ Fault
  BY DEF Fault, TypeOK
<1>2. ~ CallFails(w) /\ ~ Crash(w) /\ ~ LinkFails(w)
  BY <1>1 DEF CallFails, Crash, LinkFails
<1>3. \/ pc[w] \in {"scan", "open", "verify", "names", "items"} /\ ProcAction(w)
      \/ WriterAction(w)
  BY <1>2 DEF ProcAction, ScanEmpty, ScanHead, OpenHead, HeadGone, VerifyHead,
     HeadReplaced, ListNames, ReadItems
<1>4. pc[w] \notin Ended
  BY <1>3 DEF WriterAction, CallReorder, Stage, Link, LinkExists, LinkFails, Unstage,
     CheckHead, Collect, PruneScan, Prune, PruneDone, Ended
<1>5. /\ pc[w] = "link" => Link(w) \/ LinkExists(w)
      /\ pc[w] \in {"linked", "lost", "refused"} => Unstage(w)
      /\ pc[w] = "check" => CheckHead(w)
      /\ pc[w] = "collect" => Collect(w)
      /\ pc[w] = "prunescan" => PruneScan(w)
      /\ pc[w] = "prune" => Prune(w) \/ PruneDone(w)
  BY <1>2, <1>3 DEF WriterAction, CallReorder, Stage, Link, LinkExists, LinkFails, Unstage,
     CheckHead, Collect, PruneScan, Prune, PruneDone
<1>6. Unstage(w) => /\ tmp' = tmp \ {<<w, loc[w].attempt>>} /\ order' = order
                    /\ pc[w] = "linked" => pc'[w] = "check" /\ loc' = loc
  BY <1>1, WriterLocals DEF Unstage, Goto, TypeOK
<1>7. Collect(w) => order' = Without(order, Version(w))
  BY <1>1 DEF Collect
<1>8. PruneScan(w) =>
        /\ pc'[w] = "prune" /\ order' = order
        /\ loc' = [loc EXCEPT ![w].todo = {v \in DOMAIN order : v + Keep <= Version(w)}]
  BY <1>1, WriterLocals DEF PruneScan, Goto, TypeOK
<1>9. Prune(w) => \E v \in loc[w].todo : /\ loc' = [loc EXCEPT ![w].todo = @ \ {v}]
                                         /\ order' = Without(order, v) /\ pc' = pc
  BY <1>1 DEF Prune
<1>10. PruneDone(w) => loc[w].todo = {} /\ Return(w, "ok") /\ order' = order
  BY DEF PruneDone
<1> QED BY <1>4, <1>5, <1>6, <1>7, <1>8, <1>9, <1>10

(* A file in order/ was there before, or is the one just linked.            *)
LEMMA FileOrigin ==
  ASSUME TypeOK, BeliefsAreSafe, [Next]_vars, NEW v \in DOMAIN order'
  PROVE  \/ v \in DOMAIN order /\ order'[v] = order[v]
         \/ \E w \in Writer :
              /\ Link(w) /\ v = Version(w)
              /\ order'[v].by = w /\ order'[v].attempt = loc[w].attempt
<1>1. CASE order' = order
  BY <1>1
<1>2. ASSUME NEW w \in Writer, Link(w)
      PROVE  \/ v \in DOMAIN order /\ order'[v] = order[v]
             \/ /\ v = Version(w)
                /\ order'[v].by = w /\ order'[v].attempt = loc[w].attempt
  BY <1>2 DEF Link, LinkedAt
<1>3. ASSUME NEW u \in Nat, order' = Without(order, u)
      PROVE  v \in DOMAIN order /\ order'[v] = order[v]
  BY <1>3 DEF Without
<1> QED BY <1>1, <1>2, <1>3, OrderChanges

LEMMA RuledOrigin ==
  ASSUME TypeOK, BeliefsAreSafe, [Next]_vars
  PROVE  \/ ruled' = ruled
         \/ \E w \in Writer :
              /\ Link(w) /\ Version(w) > HeadVersion
              /\ ruled' = ruled \cup {<<w, loc[w].attempt>>}
BY OrderChanges DEF Link

(* The steps of the others, and of the readers, leave a writer alone.       *)
LEMMA WriterMoves ==
  ASSUME TypeOK, [Next]_vars, NEW w \in Writer
  PROVE  \/ pc'[w] = pc[w] /\ loc'[w] = loc[w]
         \/ ProcAction(w) \/ WriterAction(w)
<1>1. ASSUME NEW q \in Proc, q # w,
             ProcAction(q) \/ (q \in Writer /\ WriterAction(q)) \/ (q \in Reader /\ CallList(q))
      PROVE  pc'[w] = pc[w] /\ loc'[w] = loc[w]
  BY <1>1, WriterLocals, OthersStay
<1>2. ASSUME NEW r \in Reader, CallList(r)
      PROVE  pc'[w] = pc[w] /\ loc'[w] = loc[w]
  BY <1>1, <1>2, ProcAssumption DEF Proc
<1>3. ASSUME NEW i \in Id, AddItem(i) \/ RemoveItem(i)
      PROVE  pc'[w] = pc[w] /\ loc'[w] = loc[w]
  BY <1>3 DEF AddItem, RemoveItem
<1>4. CASE UNCHANGED vars
  BY <1>4 DEF vars
<1> QED BY <1>1, <1>2, <1>3, <1>4, NextByActor DEF Proc

(* Staging files come and go with the writers' own steps.                   *)
LEMMA StagedOrigin ==
  ASSUME TypeOK, [Next]_vars, NEW u \in tmp', u \notin tmp
  PROVE  \E w \in Writer : Stage(w) /\ u = <<w, loc[w].attempt>>
<1>1. ASSUME NEW p \in Proc, ProcAction(p) PROVE tmp' = tmp
  BY <1>1 DEF ProcAction, ScanEmpty, ScanHead, OpenHead, HeadGone, VerifyHead,
     HeadReplaced, ListNames, ReadItems, CallFails, Crash
<1>2. ASSUME NEW w \in Writer, WriterAction(w), ~ Stage(w) PROVE tmp' \subseteq tmp
  BY <1>2 DEF WriterAction, CallReorder, Link, LinkExists, LinkFails, Unstage,
     CheckHead, Collect, PruneScan, Prune, PruneDone
<1>3. ASSUME NEW w \in Writer, Stage(w) PROVE u = <<w, loc[w].attempt>>
  BY <1>3 DEF Stage
<1>4. ASSUME NEW r \in Reader, CallList(r) PROVE tmp' = tmp
  BY <1>4 DEF CallList
<1>5. ASSUME NEW i \in Id, AddItem(i) \/ RemoveItem(i) PROVE tmp' = tmp
  BY <1>5 DEF AddItem, RemoveItem
<1>6. CASE UNCHANGED vars
  BY <1>6 DEF vars
<1> QED BY <1>1, <1>2, <1>3, <1>4, <1>5, <1>6, NextByActor

LEMMA StartedWriter ==
  ASSUME TypeOK, NEW w \in Writer, Link(w) \/ Stage(w)
  PROVE  /\ loc' = loc /\ Version(w)' = Version(w)
         /\ pc[w] \notin Settling \cup Ended
         /\ Link(w) => pc[w] = "link" /\ pc'[w] = "linked"
         /\ Stage(w) => pc[w] = "stage" /\ pc'[w] = "link" /\ order' = order
BY WriterLocals DEF Link, Stage, Goto, Version, Settling, Ended, TypeOK

LEMMA FaultsAreCounted ==
  ASSUME TypeOK, [Next]_vars, faults' = 0
  PROVE  faults = 0
<1>1. faults' = faults \/ faults' = faults + 1
  BY DEF Next, WriterStep, ReaderStep, ReadHead, CallReorder, CallList, ScanEmpty, ScanHead,
     OpenHead, HeadGone, VerifyHead, HeadReplaced, ListNames, ReadItems, CallFails, Crash,
     Stage, Link, LinkExists, LinkFails, Unstage, CheckHead, Collect, PruneScan, Prune,
     PruneDone, AddItem, RemoveItem, Fault, vars
<1> QED BY <1>1 DEF TypeOK

LEMMA FilesStayOwn ==
  ASSUME TypeOK, BeliefsAreSafe, FilesAreOwn, [Next]_vars
  PROVE  FilesAreOwn'
<1> SUFFICES ASSUME NEW v \in DOMAIN order', NEW w, w = order'[v].by
             PROVE  IF w = Past THEN v <= InitHead
                    ELSE /\ w \in Writer /\ order'[v].attempt <= loc'[w].attempt
                         /\ order'[v].attempt = loc'[w].attempt =>
                              /\ pc'[w] \in Settling \cup Ended
                              /\ pc'[w] \in Settling => v = loc'[w].base + 1
  BY DEF FilesAreOwn, Version
<1>1. CASE v \in DOMAIN order /\ order'[v] = order[v]
  <2>1. CASE w = Past
    BY <1>1, <2>1 DEF FilesAreOwn
  <2>2. CASE w # Past
    <3>1. /\ w \in Writer /\ order[v].attempt <= loc[w].attempt /\ order[v].attempt \in Nat
          /\ order[v].attempt = loc[w].attempt =>
               /\ pc[w] \in Settling \cup Ended
               /\ pc[w] \in Settling => v = Version(w)
      BY <1>1, <2>2 DEF FilesAreOwn, TypeOK, File
    <3>2. loc[w].attempt \in Nat /\ AttemptGoesOn(w)
      BY <3>1, WriterLocals, AttemptsGoOn
    <3>3. CASE loc'[w].attempt = loc[w].attempt + 1
      <4>1. order[v].attempt <= loc'[w].attempt /\ order[v].attempt # loc'[w].attempt
        BY <3>1, <3>2, <3>3
      <4> QED BY <1>1, <2>2, <3>1, <4>1
    <3>4. CASE loc'[w].attempt = loc[w].attempt
      <4>1. /\ pc[w] \in Settling \cup Ended => pc'[w] \in Settling \cup Ended
            /\ pc[w] \in Settling /\ pc'[w] \in Settling => loc'[w].base + 1 = Version(w)
            /\ pc[w] \in Ended => pc'[w] \notin Settling
        BY <3>2, <3>4 DEF AttemptGoesOn, Settling, Ended, Version
      <4> QED BY <1>1, <2>2, <3>1, <3>4, <4>1
    <3> QED BY <3>2, <3>3, <3>4 DEF AttemptGoesOn
  <2> QED BY <2>1, <2>2
<1>2. ASSUME NEW x \in Writer, Link(x), v = Version(x),
             order'[v].by = x, order'[v].attempt = loc[x].attempt
      PROVE  /\ x # Past /\ loc'[x].attempt = loc[x].attempt /\ loc[x].attempt \in Nat
             /\ pc'[x] = "linked" /\ v = loc'[x].base + 1
  BY <1>2, StartedWriter, WriterLocals, ProcAssumption DEF Version
<1> QED BY <1>1, <1>2, FileOrigin DEF Settling

LEMMA RuledStayOwn ==
  ASSUME TypeOK, BeliefsAreSafe, RuledAreOwn, [Next]_vars
  PROVE  RuledAreOwn'
<1> SUFFICES ASSUME NEW u \in ruled', NEW w, w = u[1]
             PROVE  /\ u[2] <= loc'[w].attempt
                    /\ u[2] = loc'[w].attempt => pc'[w] \in Settling \cup Ended
  BY DEF RuledAreOwn
<1>1. CASE u \in ruled
  <2>1. /\ w \in Writer /\ u[2] \in Nat /\ u[2] <= loc[w].attempt
        /\ u[2] = loc[w].attempt => pc[w] \in Settling \cup Ended
    BY <1>1 DEF RuledAreOwn, TypeOK
  <2>2. loc[w].attempt \in Nat /\ AttemptGoesOn(w)
    BY <2>1, WriterLocals, AttemptsGoOn
  <2>3. CASE loc'[w].attempt = loc[w].attempt + 1
    BY <2>1, <2>2, <2>3
  <2>4. CASE /\ loc'[w].attempt = loc[w].attempt
             /\ pc[w] \in Settling \cup Ended => pc'[w] \in Settling \cup Ended
    BY <2>1, <2>4
  <2> QED BY <2>2, <2>3, <2>4 DEF AttemptGoesOn
<1>2. ASSUME NEW x \in Writer, Link(x), u = <<x, loc[x].attempt>>
      PROVE  /\ u[1] = x /\ u[2] = loc'[x].attempt /\ u[2] \in Nat /\ pc'[x] = "linked"
  BY <1>2, StartedWriter, WriterLocals
<1> QED BY <1>1, <1>2, RuledOrigin DEF Settling

LEMMA StagedStayOwn ==
  ASSUME TypeOK, StagedAreOwn, [Next]_vars
  PROVE  StagedAreOwn'
<1> SUFFICES ASSUME faults' = 0, NEW u \in tmp', NEW w, w = u[1]
             PROVE  /\ u[2] = loc'[w].attempt
                    /\ pc'[w] \in {"link", "linked", "lost", "refused"}
  BY DEF StagedAreOwn
<1>1. faults = 0
  BY FaultsAreCounted
<1>2. CASE u \in tmp
  <2>1. /\ w \in Writer /\ u = <<w, u[2]>> /\ u[2] = loc[w].attempt
        /\ pc[w] \in {"link", "linked", "lost", "refused"}
    BY <1>1, <1>2 DEF StagedAreOwn, TypeOK
  <2>2. CASE pc'[w] = pc[w] /\ loc'[w] = loc[w]
    BY <2>1, <2>2
  <2>3. CASE ProcAction(w) \/ WriterAction(w)
    <3>1. pc[w] = "link"
      BY <2>1, <2>3, QuietStep
    <3>2. Link(w) \/ LinkExists(w)
      BY <2>1, <2>3, <3>1, QuietStep
    <3>3. pc'[w] \in {"linked", "lost"} /\ loc' = loc
      BY <2>1, <3>2, WriterLocals DEF Link, LinkExists, Goto, TypeOK
    <3> QED BY <2>1, <3>3
  <2> QED BY <2>1, <2>2, <2>3, WriterMoves
<1>3. CASE u \notin tmp
  <2>1. PICK x \in Writer : Stage(x) /\ u = <<x, loc[x].attempt>>
    BY <1>3, StagedOrigin
  <2> QED BY <2>1, StartedWriter
<1> QED BY <1>2, <1>3

(* The owner of the head goes on to its success.                            *)
LEMMA OwnerKeepsWinning ==
  ASSUME TypeOK, BeliefsAreSafe, FilesAreOwn, HeadOwnerWins, [Next]_vars
  PROVE  HeadOwnerWins'
<1> SUFFICES ASSUME faults' = 0, HeadVersion' # 0, order'[HeadVersion'].by # Past
             PROVE  LET w == order'[HeadVersion'].by IN
                      /\ loc'[w].attempt = order'[HeadVersion'].attempt
                      /\ pc'[w] \in {"linked", "check", "prunescan", "prune", "ok"}
  BY DEF HeadOwnerWins
<1>1. /\ HeadExists' /\ HeadVersion \in Nat /\ HeadVersion' \in Nat
      /\ HeadVersion' = HeadVersion => order'[HeadVersion] = order[HeadVersion]
      /\ HeadVersion \in {0} \cup DOMAIN order
  BY HeadStep, HeadTyped DEF BeliefsAreSafe
<1>2. CASE HeadVersion' = HeadVersion
  <2> DEFINE h == order[HeadVersion].by
  <2>1. faults = 0
    BY FaultsAreCounted
  <2>2. /\ h \in Writer /\ loc[h].attempt = order[HeadVersion].attempt
        /\ pc[h] \in {"linked", "check", "prunescan", "prune", "ok"}
        /\ pc[h] \in Settling => HeadVersion = Version(h)
    BY <1>1, <1>2, <2>1 DEF HeadOwnerWins, FilesAreOwn
  <2>3. order'[HeadVersion'] = order[HeadVersion]
    BY <1>1, <1>2
  <2> HIDE DEF h
  <2>4. SUFFICES /\ loc'[h].attempt = loc[h].attempt
                 /\ pc'[h] \in {"linked", "check", "prunescan", "prune", "ok"}
    BY <2>2, <2>3 DEF h
  <2>5. CASE pc'[h] = pc[h] /\ loc'[h] = loc[h]
    BY <2>2, <2>5
  <2>6. CASE ProcAction(h) \/ WriterAction(h)
    <3>1. CASE pc[h] = "linked"
      BY <2>2, <2>6, <3>1, QuietStep
    <3>2. CASE pc[h] = "check"
      <4>1. CheckHead(h)
        BY <2>2, <2>6, <3>2, QuietStep
      <4>2. ~ HeadVersion > Version(h)
        BY <1>1, <2>2, <3>2 DEF Settling
      <4> QED BY <2>2, <4>1, <4>2, WriterLocals DEF CheckHead, Goto, TypeOK
    <3>3. CASE pc[h] = "prunescan"
      <4> DEFINE old == {v \in DOMAIN order : v + Keep <= Version(h)}
      <4>1. pc'[h] = "prune" /\ loc' = [loc EXCEPT ![h].todo = old]
        BY <2>2, <2>6, <3>3, QuietStep
      <4> HIDE DEF old
      <4> QED BY <2>2, <4>1, WriterLocals DEF TypeOK, Locals
    <3>4. CASE pc[h] = "prune"
      <4>1. CASE Return(h, "ok")
        BY <2>2, <4>1, AttemptsReturn DEF Ended
      <4>2. ASSUME NEW v \in loc[h].todo, loc' = [loc EXCEPT ![h].todo = @ \ {v}], pc' = pc
            PROVE  loc'[h].attempt = loc[h].attempt /\ pc'[h] = "prune"
        BY <2>2, <3>4, <4>2, WriterLocals DEF TypeOK, Locals
      <4> QED BY <2>2, <2>6, <3>4, <4>1, <4>2, AttemptsReturn, QuietStep DEF Ended
    <3>5. pc[h] # "ok"
      BY <2>2, <2>6, QuietStep DEF Ended
    <3> QED BY <2>2, <3>1, <3>2, <3>3, <3>4, <3>5
  <2> QED BY <2>2, <2>5, <2>6, WriterMoves
<1>3. CASE HeadVersion' # HeadVersion
  <2>1. HeadVersion' \in DOMAIN order'
    <3>1. DOMAIN order' \subseteq Nat \ {0}
      BY TypeStep DEF TypeOK
    <3> QED BY <1>1, <3>1, HighestIsMax DEF HeadExists, HeadVersion
  <2>2. HeadVersion' \notin DOMAIN order
    <3>1. HeadVersion' > HeadVersion
      BY <1>1, <1>3, HeadStep
    <3> QED BY <1>1, <3>1, HeadTyped DEF BeliefsAreSafe, TypeOK
  <2>3. PICK x \in Writer :
          /\ Link(x) /\ order'[HeadVersion'].by = x
          /\ order'[HeadVersion'].attempt = loc[x].attempt
    BY <2>1, <2>2, FileOrigin
  <2> QED BY <2>3, StartedWriter
<1> QED BY <1>2, <1>3

-----------------------------------------------------------------------------
(* The head moves only by a publish that then rules, the first of its       *)
(* attempt.                                                                 *)
LEMMA HeadMoves ==
  ASSUME TypeOK, BeliefsAreSafe, RuledAreOwn, [Next]_vars
  PROVE  \/ HeadVersion' = HeadVersion /\ ruled' = ruled
         \/ \E x \in Writer :
              /\ Link(x) /\ <<x, loc[x].attempt>> \notin ruled
              /\ HeadVersion' = Version(x)
              /\ ruled' = ruled \cup {<<x, loc[x].attempt>>}
<1>1. CASE ruled' = ruled
  <2>1. ASSUME HeadVersion' # HeadVersion
        PROVE  FALSE
    <3>1. /\ HeadExists' /\ HeadVersion \in Nat /\ HeadVersion' \in Nat
          /\ HeadVersion' > HeadVersion
      BY <2>1, HeadStep
    <3>2. HeadVersion' \in DOMAIN order'
      <4>1. DOMAIN order' \subseteq Nat \ {0}
        BY TypeStep DEF TypeOK
      <4> QED BY <3>1, <4>1, HighestIsMax DEF HeadExists, HeadVersion
    <3>3. HeadVersion' \notin DOMAIN order
      BY <3>1, HeadTyped DEF BeliefsAreSafe, TypeOK
    <3>4. PICK x \in Writer : Link(x) /\ HeadVersion' = Version(x)
      BY <3>2, <3>3, FileOrigin
    <3>5. <<x, loc[x].attempt>> \in ruled'
      BY <3>1, <3>4 DEF Link
    <3>6. <<x, loc[x].attempt>> \notin ruled
      BY <3>4, StartedWriter DEF RuledAreOwn
    <3> QED BY <1>1, <3>5, <3>6
  <2> QED BY <1>1, <2>1
<1>2. ASSUME NEW x \in Writer, Link(x), Version(x) > HeadVersion,
             ruled' = ruled \cup {<<x, loc[x].attempt>>}
      PROVE  HeadVersion' = Version(x) /\ <<x, loc[x].attempt>> \notin ruled
  <2>1. HeadVersion' = Version(x)
    BY <1>2, LinkMovesHead DEF BeliefsAreSafe
  <2> QED BY <1>2, <2>1, StartedWriter DEF RuledAreOwn
<1> QED BY <1>1, <1>2, RuledOrigin

(* Each such publish counts for everybody else.                             *)
LEMMA CountsGrow ==
  ASSUME TypeOK, BeliefsAreSafe, RuledAreOwn, IsFiniteSet(ruled), [Next]_vars
  PROVE  /\ IsFiniteSet(ruled')
         /\ Cardinality(ruled) \in Nat /\ Cardinality(ruled') \in Nat
         /\ Cardinality(ruled') >= Cardinality(ruled)
         /\ HeadVersion' # HeadVersion => Cardinality(ruled') = Cardinality(ruled) + 1
         /\ \A w \in Writer :
              LET others == {u \in ruled : u[1] # w}
                  later  == {u \in ruled' : u[1] # w}
              IN  /\ Cardinality(others) \in Nat /\ Cardinality(later) \in Nat
                  /\ Cardinality(later) >= Cardinality(others)
                  /\ HeadVersion' # HeadVersion /\ ~ Link(w)
                       => Cardinality(later) = Cardinality(others) + 1
<1>1. \A w \in Writer : IsFiniteSet({u \in ruled : u[1] # w})
  <2>1. \A w : {u \in ruled : u[1] # w} \subseteq ruled
    OBVIOUS
  <2> QED BY <2>1, FS_Subset
<1>2. CASE HeadVersion' = HeadVersion /\ ruled' = ruled
  BY <1>1, <1>2, FS_CardinalityType
<1>3. ASSUME NEW x \in Writer, Link(x), <<x, loc[x].attempt>> \notin ruled,
             ruled' = ruled \cup {<<x, loc[x].attempt>>}
      PROVE  /\ IsFiniteSet(ruled')
             /\ Cardinality(ruled) \in Nat
             /\ Cardinality(ruled') = Cardinality(ruled) + 1
             /\ \A w \in Writer :
                  LET others == {u \in ruled : u[1] # w}
                      later  == {u \in ruled' : u[1] # w}
                  IN  /\ Cardinality(others) \in Nat
                      /\ w = x => later = others
                      /\ w # x => Cardinality(later) = Cardinality(others) + 1
  <2>1. /\ IsFiniteSet(ruled') /\ Cardinality(ruled) \in Nat
        /\ Cardinality(ruled') = Cardinality(ruled) + 1
    BY <1>3, FS_AddElement, FS_CardinalityType
  <2>2. ASSUME NEW w \in Writer
        PROVE  LET others == {u \in ruled : u[1] # w}
                   later  == {u \in ruled' : u[1] # w}
               IN  /\ Cardinality(others) \in Nat
                   /\ w = x => later = others
                   /\ w # x => Cardinality(later) = Cardinality(others) + 1
    <3> DEFINE others == {u \in ruled : u[1] # w}
               later  == {u \in ruled' : u[1] # w}
    <3>1. IsFiniteSet(others)
      BY <1>1
    <3>2. w = x => later = others
      BY <1>3
    <3>3. w # x => later = others \cup {<<x, loc[x].attempt>>}
      BY <1>3
    <3>4. <<x, loc[x].attempt>> \notin others
      BY <1>3
    <3> HIDE DEF others, later
    <3>5. Cardinality(others) \in Nat
      BY <3>1, FS_CardinalityType
    <3>6. w # x => Cardinality(later) = Cardinality(others) + 1
      BY <3>1, <3>3, <3>4, FS_AddElement
    <3> QED BY <3>2, <3>5, <3>6 DEF others, later
  <2> QED BY <2>1, <2>2
<1>4. ASSUME NEW x \in Writer, Link(x), <<x, loc[x].attempt>> \notin ruled,
             ruled' = ruled \cup {<<x, loc[x].attempt>>}, NEW w \in Writer
      PROVE  LET others == {u \in ruled : u[1] # w}
                 later  == {u \in ruled' : u[1] # w}
             IN  /\ Cardinality(others) \in Nat /\ Cardinality(later) \in Nat
                 /\ Cardinality(later) >= Cardinality(others)
                 /\ ~ Link(w) => Cardinality(later) = Cardinality(others) + 1
  <2> DEFINE others == {u \in ruled : u[1] # w}
             later  == {u \in ruled' : u[1] # w}
  <2>1. /\ Cardinality(others) \in Nat
        /\ w = x => later = others
        /\ w # x => Cardinality(later) = Cardinality(others) + 1
    BY <1>3, <1>4
  <2> HIDE DEF others, later
  <2>2. Cardinality(later) \in Nat /\ Cardinality(later) >= Cardinality(others)
    BY <2>1
  <2> QED BY <1>4, <2>1, <2>2 DEF others, later
<1>5. ASSUME NEW x \in Writer, Link(x), <<x, loc[x].attempt>> \notin ruled,
             ruled' = ruled \cup {<<x, loc[x].attempt>>}
      PROVE  /\ IsFiniteSet(ruled')
             /\ Cardinality(ruled) \in Nat /\ Cardinality(ruled') \in Nat
             /\ Cardinality(ruled') >= Cardinality(ruled)
             /\ Cardinality(ruled') = Cardinality(ruled) + 1
  <2> DEFINE c == Cardinality(ruled)
             d == Cardinality(ruled')
  <2>1. IsFiniteSet(ruled') /\ c \in Nat /\ d = c + 1
    BY <1>3, <1>5
  <2> HIDE DEF c, d
  <2>2. c \in Nat /\ d \in Nat /\ d >= c /\ d = c + 1
    BY <2>1
  <2> QED BY <2>1, <2>2 DEF c, d
<1> QED BY <1>2, <1>4, <1>5, HeadMoves

(* An own step loses an attempt, or lets it be overtaken, only if the head  *)
(* had left it behind before.                                               *)
LossStep(w) ==
  \/ /\ loc'[w].attempt = loc[w].attempt
     /\ Overtaken(w)' => Overtaken(w)
  \/ /\ loc'[w].attempt = loc[w].attempt + 1
     /\ Overtaken(w) /\ ~ Overtaken(w)'

(* While a writer has not linked, it stands on the version it read.         *)
LEMMA StandsOnBase ==
  ASSUME RuledAreOwn, NEW w \in Writer, pc[w] \notin Settling \cup Ended
  PROVE  <<w, loc[w].attempt>> \notin ruled /\ Stand(w) = loc[w].base
BY DEF RuledAreOwn, Stand

LEMMA ReadingLosses ==
  ASSUME TypeOK, BeliefsAreSafe, RuledAreOwn, BasesAreHeads, [Next]_vars,
         NEW w \in Writer, ProcAction(w)
  PROVE  LossStep(w)
<1> USE WriterLocals
<1>1. /\ order' = order /\ ruled' = ruled /\ HeadVersion' = HeadVersion
      /\ HeadVersion \in Nat /\ HeadVersion \in {0} \cup DOMAIN order
      /\ loc[w].base <= HeadVersion
  <2>1. order' = order /\ ruled' = ruled
    BY DEF ProcAction, ScanEmpty, ScanHead, OpenHead, HeadGone, VerifyHead,
       HeadReplaced, ListNames, ReadItems, CallFails, Crash
  <2> QED BY <2>1, HeadTyped DEF BeliefsAreSafe, ReadIsCurrent, HeadVersion
<1>2. ASSUME NEW result \in Ended \ {"contended"}, Return(w, result)
      PROVE  LossStep(w)
  BY <1>2, AttemptsReturn DEF LossStep, Overtaken, Ended
<1>3. CASE CallFails(w) \/ Crash(w) \/ HeadReplaced(w)
  BY <1>2, <1>3 DEF CallFails, Crash, HeadReplaced, Ended
<1>4. CASE ScanEmpty(w) \/ ScanHead(w)
  <2>1. pc[w] = "scan" /\ loc'[w].attempt = loc[w].attempt /\ loc'[w].base = HeadVersion
    BY <1>4 DEF ScanEmpty, ScanHead, TypeOK, Locals
  <2>2. <<w, loc'[w].attempt>> \notin ruled'
    BY <1>1, <2>1, StandsOnBase DEF Settling, Ended
  <2>3. Stand(w)' = HeadVersion'
    BY <1>1, <2>1, <2>2 DEF Stand
  <2>4. pc'[w] \in {"names", "open"}
    BY <1>4 DEF ScanEmpty, ScanHead, HeadKnown, Goto, TypeOK
  <2>5. ~ Overtaken(w)'
    BY <1>1, <2>3, <2>4 DEF Overtaken
  <2> QED BY <2>1, <2>5 DEF LossStep
<1>5. ASSUME pc[w] \in {"open", "verify", "names", "items"},
             pc'[w] \in {"verify", "names", "items", "stage"},
             loc'[w].attempt = loc[w].attempt, loc'[w].base = loc[w].base
      PROVE  LossStep(w)
  <2>1. Stand(w) = loc[w].base /\ <<w, loc[w].attempt>> \notin ruled
    BY <1>5, StandsOnBase DEF Settling, Ended
  <2>2. Stand(w)' = loc[w].base
    BY <1>1, <1>5, <2>1 DEF Stand
  <2> QED BY <1>1, <1>5, <2>1, <2>2 DEF LossStep, Overtaken
<1>6. CASE OpenHead(w) \/ VerifyHead(w) \/ ListNames(w)
  <2>1. /\ pc[w] \in {"open", "verify", "names", "items"}
        /\ pc'[w] \in {"verify", "names", "items", "stage"}
    BY <1>6 DEF OpenHead, VerifyHead, ListNames, HeadKnown, Goto, TypeOK
  <2>2. loc'[w].attempt = loc[w].attempt /\ loc'[w].base = loc[w].base
    BY <1>6 DEF OpenHead, VerifyHead, ListNames, TypeOK, Locals
  <2> QED BY <1>5, <2>1, <2>2
<1>7. CASE ReadItems(w)
  <2>1. PICK present \in SUBSET loc[w].snap :
          \/ Return(w, "notfound")
          \/ Goto(w, "stage") /\ loc' = [loc EXCEPT ![w].snap = present]
    BY <1>7 DEF ReadItems
  <2>2. CASE Return(w, "notfound")
    BY <1>2, <2>2 DEF Ended
  <2>3. CASE Goto(w, "stage") /\ loc' = [loc EXCEPT ![w].snap = present]
    BY <1>5, <1>7, <2>3 DEF ReadItems, Goto, TypeOK, Locals
  <2> QED BY <2>1, <2>2, <2>3
<1>8. CASE HeadGone(w)
  <2>1. CASE Return(w, "contended")
    <3>1. loc[w].base # 0 /\ loc[w].base \notin DOMAIN order /\ pc[w] \in {"open", "verify"}
      BY <1>8 DEF HeadGone, BasesAreHeads
    <3>2. HeadVersion > loc[w].base
      BY <1>1, <3>1
    <3>3. Overtaken(w)
      BY <3>1, <3>2, StandsOnBase DEF Overtaken, Settling, Ended
    <3> QED BY <2>1, <3>3, AttemptsReturn DEF LossStep, Ended
  <2>2. CASE ~ Return(w, "contended")
    <3> DEFINE n == loc[w].reads + 1
    <3>1. /\ pc'[w] = "scan"
          /\ loc' = [loc EXCEPT ![w].reads = n, ![w].base = 0, ![w].file = NoFile]
      BY <1>8, <2>2 DEF HeadGone, Goto, TypeOK
    <3> HIDE DEF n
    <3>2. loc'[w].attempt = loc[w].attempt
      BY <3>1 DEF TypeOK, Locals
    <3> QED BY <3>1, <3>2 DEF LossStep, Overtaken
  <2> QED BY <2>1, <2>2
<1> QED BY <1>3, <1>4, <1>6, <1>7, <1>8 DEF ProcAction

LEMMA WritingLosses ==
  ASSUME TypeOK, BeliefsAreSafe, RuledAreOwn, [Next]_vars,
         NEW w \in Writer, WriterAction(w)
  PROVE  LossStep(w)
<1> USE WriterLocals
<1>1. /\ HeadVersion \in Nat /\ \A v \in DOMAIN order : v <= HeadVersion
      /\ Stand(w) \in Nat /\ Stand(w) <= Version(w)
      /\ Version(w) = loc[w].base + 1
  BY HeadTyped DEF BeliefsAreSafe, Stand, Version
<1>2. ~ Link(w) => ruled' = ruled
  BY DEF WriterAction, CallReorder, Stage, LinkExists, LinkFails, Unstage, CheckHead,
     Collect, PruneScan, Prune, PruneDone
<1>3. ruled' = ruled => HeadVersion' = HeadVersion
  BY HeadMoves
<1>4. CASE pc'[w] \in {"scan", "refused", "prunescan", "prune", "ok", "error"}
           /\ loc'[w].attempt = loc[w].attempt
  BY <1>4 DEF LossStep, Overtaken
<1>5. ASSUME pc[w] \in {"stage", "link", "linked"}, pc'[w] \in {"link", "linked", "check"},
             ruled' = ruled, loc' = loc
      PROVE  LossStep(w)
  <2>1. Stand(w)' = Stand(w)
    BY <1>5 DEF Stand, Version
  <2> QED BY <1>3, <1>5, <2>1 DEF LossStep, Overtaken
<1>6. CASE CallReorder(w) \/ LinkFails(w)
  BY <1>4, <1>6 DEF CallReorder, LinkFails, Goto, TypeOK, Locals
<1>7. CASE Stage(w)
  BY <1>5, <1>7 DEF Stage, Goto, TypeOK
<1>8. CASE Link(w)
  <2>1. pc[w] = "link" /\ pc'[w] = "linked" /\ loc' = loc
    BY <1>8, StartedWriter
  <2>2. CASE ruled' = ruled
    BY <1>5, <2>1, <2>2
  <2>3. CASE ruled' # ruled
    <3>1. Version(w) > HeadVersion /\ ruled' = ruled \cup {<<w, loc[w].attempt>>}
      BY <1>8, <2>3 DEF Link
    <3>2. HeadVersion' = Version(w)
      BY <1>8, <3>1, LinkMovesHead DEF BeliefsAreSafe
    <3>3. Stand(w)' = Version(w)
      BY <2>1, <3>1 DEF Stand, Version
    <3>4. ~ Overtaken(w)'
      BY <2>1, <3>2, <3>3 DEF Overtaken
    <3> QED BY <2>1, <3>4 DEF LossStep
  <2> QED BY <2>2, <2>3
<1>9. CASE LinkExists(w)
  <2>1. pc[w] = "link" /\ Version(w) \in DOMAIN order /\ loc' = loc
    BY <1>9 DEF LinkExists
  <2>2. Stand(w) = loc[w].base
    BY <2>1, StandsOnBase DEF Settling, Ended
  <2>3. HeadVersion > Stand(w)
    BY <1>1, <2>1, <2>2
  <2> QED BY <2>1, <2>3 DEF LossStep, Overtaken
<1>10. ASSUME Retry(w), pc[w] \in {"lost", "collect"}
       PROVE  LossStep(w)
  BY <1>10, AttemptsRetry DEF LossStep, Overtaken
<1>11. CASE Unstage(w)
  <2>1. CASE pc[w] = "linked"
    BY <1>2, <1>5, <1>11, <2>1 DEF Unstage, Goto, TypeOK
  <2>2. CASE pc[w] = "lost"
    BY <1>10, <1>11, <2>2 DEF Unstage
  <2>3. CASE pc[w] = "refused"
    BY <1>4, <1>11, <2>3, AttemptsReturn DEF Unstage, Ended
  <2> QED BY <1>11, <2>1, <2>2, <2>3 DEF Unstage
<1>12. CASE CheckHead(w)
  <2>1. CASE HeadVersion > Version(w)
    <3>1. pc[w] = "check" /\ loc' = loc /\ HeadVersion > Stand(w)
      BY <1>1, <1>12, <2>1 DEF CheckHead
    <3> QED BY <3>1 DEF LossStep, Overtaken
  <2>2. CASE ~ (HeadVersion > Version(w))
    BY <1>4, <1>12, <2>2 DEF CheckHead, Goto, TypeOK
  <2> QED BY <2>1, <2>2
<1>13. CASE Collect(w)
  BY <1>10, <1>13 DEF Collect
<1>14. CASE PruneScan(w)
  <2>1. CASE Return(w, "ok")
    BY <1>4, <2>1, AttemptsReturn DEF Ended
  <2>2. CASE ~ Return(w, "ok")
    <3> DEFINE old == {v \in DOMAIN order : v + Keep <= Version(w)}
    <3>1. pc'[w] = "prune" /\ loc' = [loc EXCEPT ![w].todo = old]
      BY <1>14, <2>2 DEF PruneScan, Goto, TypeOK
    <3> HIDE DEF old
    <3> QED BY <1>4, <3>1 DEF TypeOK, Locals
  <2> QED BY <2>1, <2>2
<1>15. CASE Prune(w)
  BY <1>4, <1>15 DEF Prune, TypeOK, Locals
<1>16. CASE PruneDone(w)
  BY <1>4, <1>16, AttemptsReturn DEF PruneDone, Ended
<1> QED
  BY <1>6, <1>7, <1>8, <1>9, <1>11, <1>12, <1>13, <1>14, <1>15, <1>16 DEF WriterAction

(* The steps of others overtake an attempt only by publishing a new head.   *)
LEMMA OthersLosses ==
  ASSUME TypeOK, BeliefsAreSafe, RuledAreOwn, [Next]_vars,
         NEW w \in Writer, pc'[w] = pc[w], loc'[w] = loc[w], HeadVersion' = HeadVersion
  PROVE  loc'[w].attempt = loc[w].attempt /\ (Overtaken(w)' => Overtaken(w))
<1>1. ruled' = ruled
  <2>1. ASSUME NEW x \in Writer, Link(x), HeadVersion' = Version(x)
        PROVE  FALSE
    BY <2>1, LinkMovesHead DEF BeliefsAreSafe
  <2> QED BY <2>1, HeadMoves
<1>2. Stand(w)' = Stand(w)
  BY <1>1 DEF Stand, Version
<1> QED BY <1>2 DEF Overtaken

LEMMA LossesStayCounted ==
  ASSUME TypeOK, BeliefsAreSafe, RuledAreOwn, LossesSoFar, [Next]_vars,
         NEW w \in Writer
  PROVE  LossesAreCounted(w)'
<1> DEFINE c == Cardinality(RuledByOthers(w))
           d == Cardinality(RuledByOthers(w)')
           k == loc[w].attempt
           l == loc'[w].attempt
<1>1. /\ k \in Nat /\ k <= c /\ (Overtaken(w) => k + 1 <= c)
  BY WriterLocals DEF LossesSoFar, LossesAreCounted
<1>2. /\ c \in Nat /\ d \in Nat /\ d >= c
      /\ HeadVersion' # HeadVersion /\ ~ Link(w) => d = c + 1
  BY CountsGrow DEF LossesSoFar, RuledByOthers
<1>3. SUFFICES l <= d /\ (Overtaken(w)' => l + 1 <= d)
  BY DEF LossesAreCounted
<1>4. CASE ProcAction(w) \/ WriterAction(w)
  <2>1. \/ l = k /\ (Overtaken(w)' => Overtaken(w))
        \/ l = k + 1 /\ Overtaken(w) /\ ~ Overtaken(w)'
    BY <1>4, ReadingLosses, WritingLosses DEF LossStep, LossesSoFar
  <2> HIDE DEF c, d, k, l
  <2> QED BY <1>1, <1>2, <2>1
<1>5. CASE pc'[w] = pc[w] /\ loc'[w] = loc[w] /\ HeadVersion' = HeadVersion
  <2>1. l = k /\ (Overtaken(w)' => Overtaken(w))
    BY <1>5, OthersLosses
  <2> HIDE DEF c, d, k, l
  <2> QED BY <1>1, <1>2, <2>1
<1>6. CASE pc'[w] = pc[w] /\ loc'[w] = loc[w] /\ HeadVersion' # HeadVersion
  <2>1. ~ Link(w) /\ l = k
    BY <1>6, StartedWriter
  <2> HIDE DEF c, d, k, l
  <2> QED BY <1>1, <1>2, <1>6, <2>1
<1> QED BY <1>4, <1>5, <1>6, WriterMoves

(* Readers never touch the head, and count every read it overtook.          *)
ReadStep(r) ==
  /\ pc[r] \notin Ended
  /\ HeadVersion' = HeadVersion /\ ruled' = ruled
  /\ \/ loc'[r].reads = loc[r].reads /\ ~ OvertakenReading(r)' /\ pc'[r] # "contended"
     \/ /\ loc'[r].reads = loc[r].reads /\ (OvertakenReading(r)' => OvertakenReading(r))
        /\ pc'[r] # "contended"
     \/ loc'[r].reads = loc[r].reads + 1 /\ OvertakenReading(r) /\ pc'[r] = "scan"
     \/ /\ loc'[r].reads = loc[r].reads /\ OvertakenReading(r) /\ pc'[r] = "contended"
        /\ loc[r].reads + 1 >= MaxHeadReads

LEMMA ReaderReads ==
  ASSUME TypeOK, BeliefsAreSafe, BasesAreHeads, NEW r \in Reader,
         ProcAction(r) \/ CallList(r)
  PROVE  ReadStep(r)
<1>1. r \in Proc /\ r \notin Writer /\ loc[r] \in Locals
      /\ loc[r].reads \in Nat /\ MaxHeadReads \in Nat /\ loc[r].base \in Nat
  BY ProcAssumption, BoundAssumption DEF Proc, TypeOK, Locals
<1> USE <1>1 DEF ReadStep
<1>2. /\ order' = order /\ ruled' = ruled /\ HeadVersion' = HeadVersion
      /\ HeadVersion \in Nat /\ HeadVersion \in {0} \cup DOMAIN order
      /\ loc[r].base <= HeadVersion
  <2>1. order' = order /\ ruled' = ruled
    BY DEF ProcAction, CallList, ScanEmpty, ScanHead, OpenHead, HeadGone, VerifyHead,
       HeadReplaced, ListNames, ReadItems, CallFails, Crash
  <2> QED BY <2>1, HeadTyped DEF BeliefsAreSafe, ReadIsCurrent, HeadVersion
<1>3. pc[r] \notin Ended
  BY DEF ProcAction, CallList, ScanEmpty, ScanHead, OpenHead, HeadGone, VerifyHead,
     HeadReplaced, ListNames, ReadItems, CallFails, Crash, Ended, Pending
<1>4. ASSUME loc'[r].reads = loc[r].reads, pc'[r] \notin {"open", "verify", "contended"}
      PROVE  ReadStep(r)
  BY <1>2, <1>3, <1>4 DEF OvertakenReading
<1>5. ASSUME NEW result, Return(r, result)
      PROVE  pc'[r] = result /\ loc' = loc
  BY <1>5 DEF Return, Goto, TypeOK
<1>6. CASE CallFails(r) \/ Crash(r) \/ HeadReplaced(r)
  BY <1>4, <1>5, <1>6 DEF CallFails, Crash, HeadReplaced
<1>7. CASE CallList(r) \/ ListNames(r) \/ VerifyHead(r) \/ ScanEmpty(r)
  <2>1. pc'[r] \notin {"open", "verify", "contended"}
    BY <1>7 DEF CallList, ListNames, VerifyHead, ScanEmpty, HeadKnown, Goto, TypeOK
  <2>2. loc'[r].reads = loc[r].reads
    BY <1>7 DEF CallList, ListNames, VerifyHead, ScanEmpty, TypeOK, Locals
  <2> QED BY <1>4, <2>1, <2>2
<1>8. CASE ReadItems(r)
  <2>1. PICK present \in SUBSET loc[r].snap :
          Goto(r, "scan") /\ loc' = [loc EXCEPT ![r].snap = present]
    BY <1>8 DEF ReadItems
  <2>2. pc'[r] = "scan" /\ loc'[r].reads = loc[r].reads
    BY <2>1 DEF Goto, TypeOK, Locals
  <2> QED BY <1>4, <2>2
<1>9. CASE ScanHead(r)
  <2>1. /\ pc'[r] = "open" /\ loc'[r].reads = loc[r].reads /\ loc'[r].base = HeadVersion
    BY <1>9 DEF ScanHead, Goto, TypeOK, Locals
  <2> QED BY <1>2, <1>3, <2>1 DEF OvertakenReading
<1>10. CASE OpenHead(r)
  <2>1. /\ pc[r] = "open" /\ pc'[r] = "verify" /\ loc'[r].reads = loc[r].reads
        /\ loc'[r].base = loc[r].base
    BY <1>10 DEF OpenHead, Goto, TypeOK, Locals
  <2> QED BY <1>2, <1>3, <2>1 DEF OvertakenReading
<1>11. CASE HeadGone(r)
  <2>1. OvertakenReading(r)
    <3>1. loc[r].base # 0 /\ loc[r].base \notin DOMAIN order /\ pc[r] \in {"open", "verify"}
      BY <1>11 DEF HeadGone, BasesAreHeads
    <3> QED BY <1>2, <3>1 DEF OvertakenReading
  <2> DEFINE n == loc[r].reads + 1
  <2>2. n \in Nat
    OBVIOUS
  <2>3. \/ n < MaxHeadReads /\ Goto(r, "scan")
           /\ loc' = [loc EXCEPT ![r].reads = n, ![r].base = 0, ![r].file = NoFile]
        \/ ~ (n < MaxHeadReads) /\ Return(r, "contended")
    BY <1>11 DEF HeadGone
  <2>4. CASE /\ n < MaxHeadReads /\ Goto(r, "scan")
             /\ loc' = [loc EXCEPT ![r].reads = n, ![r].base = 0, ![r].file = NoFile]
    <3> HIDE DEF n
    <3>1. loc'[r].reads = n /\ pc'[r] = "scan"
      BY <2>4 DEF Goto, TypeOK, Locals
    <3> QED BY <1>2, <1>3, <2>1, <3>1 DEF n
  <2>5. CASE ~ (n < MaxHeadReads) /\ Return(r, "contended")
    <3>1. pc'[r] = "contended" /\ loc'[r].reads = loc[r].reads /\ n >= MaxHeadReads
      BY <1>5, <2>2, <2>5
    <3> QED BY <1>2, <1>3, <2>1, <3>1
  <2> QED BY <2>3, <2>4, <2>5
<1> QED BY <1>6, <1>7, <1>8, <1>9, <1>10, <1>11 DEF ProcAction

(* The steps of the others leave a reader alone.                            *)
LEMMA ReaderMoves ==
  ASSUME TypeOK, [Next]_vars, NEW r \in Reader
  PROVE  \/ pc'[r] = pc[r] /\ loc'[r] = loc[r]
         \/ ProcAction(r) \/ CallList(r)
<1>1. r \in Proc /\ r \notin Writer
  BY ProcAssumption DEF Proc
<1>2. ASSUME NEW q \in Proc, q # r,
             ProcAction(q) \/ (q \in Writer /\ WriterAction(q)) \/ (q \in Reader /\ CallList(q))
      PROVE  pc'[r] = pc[r] /\ loc'[r] = loc[r]
  BY <1>1, <1>2, OthersStay
<1>3. ASSUME NEW i \in Id, AddItem(i) \/ RemoveItem(i)
      PROVE  pc'[r] = pc[r] /\ loc'[r] = loc[r]
  BY <1>3 DEF AddItem, RemoveItem
<1>4. CASE UNCHANGED vars
  BY <1>4 DEF vars
<1> QED BY <1>1, <1>2, <1>3, <1>4, NextByActor DEF Proc

LEMMA ReadsStayCounted ==
  ASSUME TypeOK, BeliefsAreSafe, RuledAreOwn, LossesSoFar, [Next]_vars,
         NEW r \in Reader
  PROVE  ReadsAreCounted(r)'
<1> DEFINE c == Cardinality(ruled)
           d == Cardinality(ruled')
           k == loc[r].reads
           l == loc'[r].reads
<1>1. /\ k \in Nat /\ k <= c /\ (OvertakenReading(r) => k + 1 <= c)
      /\ (pc[r] = "contended" => MaxHeadReads <= c) /\ MaxHeadReads \in Nat
  BY BoundAssumption DEF LossesSoFar, ReadsAreCounted, TypeOK, Locals, Proc
<1>2. /\ c \in Nat /\ d \in Nat /\ d >= c
      /\ HeadVersion' # HeadVersion => d = c + 1
  BY CountsGrow DEF LossesSoFar
<1>3. SUFFICES /\ l <= d /\ (OvertakenReading(r)' => l + 1 <= d)
               /\ pc'[r] = "contended" => MaxHeadReads <= d
  BY DEF ReadsAreCounted
<1>4. CASE ProcAction(r) \/ CallList(r)
  <2>1. ReadStep(r)
    BY <1>4, ReaderReads DEF LossesSoFar
  <2>2. \/ l = k /\ ~ OvertakenReading(r)' /\ pc'[r] # "contended"
        \/ l = k /\ (OvertakenReading(r)' => OvertakenReading(r)) /\ pc'[r] # "contended"
        \/ l = k + 1 /\ OvertakenReading(r) /\ pc'[r] = "scan"
        \/ l = k /\ OvertakenReading(r) /\ pc'[r] = "contended" /\ k + 1 >= MaxHeadReads
    BY <2>1 DEF ReadStep
  <2>3. pc'[r] \in {"scan", "contended"} => ~ OvertakenReading(r)'
    BY DEF OvertakenReading
  <2> HIDE DEF c, d, k, l
  <2> QED BY <1>1, <1>2, <2>2, <2>3
<1>5. CASE pc'[r] = pc[r] /\ loc'[r] = loc[r]
  <2>1. /\ l = k
        /\ HeadVersion' = HeadVersion /\ OvertakenReading(r)' => OvertakenReading(r)
    BY <1>5 DEF OvertakenReading
  <2> HIDE DEF c, d, k, l
  <2> QED BY <1>1, <1>2, <1>5, <2>1
<1> QED BY <1>4, <1>5, ReaderMoves

LEMMA BasesStayHeads ==
  ASSUME TypeOK, BasesAreHeads, [Next]_vars
  PROVE  BasesAreHeads'
<1> SUFFICES ASSUME NEW p \in Proc, pc'[p] \in {"open", "verify"}
             PROVE  loc'[p].base # 0
  BY DEF BasesAreHeads
<1>1. pc[p] \in {"open", "verify"} => loc[p].base # 0
  BY DEF BasesAreHeads
<1>2. CASE pc'[p] = pc[p] /\ loc'[p] = loc[p]
  BY <1>1, <1>2
<1>3. CASE ScanHead(p)
  BY <1>3 DEF ScanHead, TypeOK, Locals
<1>4. CASE OpenHead(p)
  BY <1>1, <1>4 DEF OpenHead, TypeOK, Locals
<1>5. CASE ProcAction(p) /\ ~ ScanHead(p) /\ ~ OpenHead(p)
  BY <1>5 DEF ProcAction, ScanEmpty, HeadGone, VerifyHead, HeadReplaced, ListNames,
     ReadItems, CallFails, Crash, HeadKnown, Goto, Return, TypeOK
<1>6. ~ WriterAction(p)
  BY DEF WriterAction, CallReorder, Stage, Link, LinkExists, LinkFails, Unstage, CheckHead,
     Collect, PruneScan, Prune, PruneDone, Goto, Return, Retry, TypeOK
<1>7. ~ CallList(p)
  BY DEF CallList, Goto, TypeOK
<1> QED BY <1>2, <1>3, <1>4, <1>5, <1>6, <1>7, WriterMoves, ReaderMoves DEF Proc

LEMMA LossesStaySoFar ==
  ASSUME TypeOK, BeliefsAreSafe, RuledAreOwn, LossesSoFar, [Next]_vars
  PROVE  LossesSoFar'
<1>1. IsFiniteSet(ruled)'
  BY CountsGrow DEF LossesSoFar
<1>2. BasesAreHeads'
  BY BasesStayHeads DEF LossesSoFar
<1> QED BY <1>1, <1>2, LossesStayCounted, ReadsStayCounted DEF LossesSoFar

-----------------------------------------------------------------------------
(* Old versions go: no step forgets one.                                    *)
LEMMA OldOnesKeepGoing ==
  ASSUME TypeOK, BeliefsAreSafe, FilesAreOwn, HeadOwnerWins, OldOnesGo, [Next]_vars
  PROVE  OldOnesGo'
<1> SUFFICES ASSUME faults' = 0, InitHead <= Keep, NEW v \in DOMAIN order',
                    v + Keep <= HeadVersion',
                    NEW w, w = order'[v].by, NEW h, h = order'[HeadVersion'].by,
                    ~ \/ pc'[h] \in {"linked", "check", "prunescan"}
                      \/ pc'[h] = "prune" /\ v \in loc'[h].todo
             PROVE  /\ w # Past /\ order'[v].attempt = loc'[w].attempt
                    /\ pc'[w] \in {"linked", "check", "collect"}
  BY DEF OldOnesGo
<1>1. /\ faults = 0 /\ Keep \in Nat \ {0} /\ InitHead \in Nat
      /\ DOMAIN order \subseteq Nat \ {0} /\ DOMAIN order' \subseteq Nat \ {0}
  BY TypeStep, FaultsAreCounted, BoundAssumption DEF TypeOK
<1>2. /\ HeadExists' /\ HeadVersion \in Nat /\ HeadVersion' \in Nat
      /\ HeadVersion' >= HeadVersion
      /\ HeadVersion' = HeadVersion /\ HeadVersion # 0
           => order'[HeadVersion] = order[HeadVersion]
      /\ HeadVersion \in {0} \cup DOMAIN order
      /\ \A u \in DOMAIN order : u <= HeadVersion
  BY HeadStep, HeadTyped DEF BeliefsAreSafe
<1>3. HeadVersion' = HeadVersion
  <2>1. SUFFICES ASSUME HeadVersion' # HeadVersion PROVE FALSE
    OBVIOUS
  <2>2. HeadVersion' \in DOMAIN order'
    BY <1>1, <1>2, <2>1, HighestIsMax DEF HeadExists, HeadVersion
  <2>3. HeadVersion' \notin DOMAIN order
    BY <1>2, <2>1
  <2>4. PICK x \in Writer : Link(x) /\ order'[HeadVersion'].by = x
    BY <2>2, <2>3, FileOrigin
  <2> QED BY <2>4, StartedWriter
<1>4. HeadVersion \in DOMAIN order /\ order'[HeadVersion'] = order[HeadVersion] /\ v < HeadVersion
  BY <1>1, <1>2, <1>3
<1>5. CASE v \notin DOMAIN order
  <2>1. PICK x \in Writer : Link(x) /\ order'[v].by = x /\ order'[v].attempt = loc[x].attempt
    BY <1>5, FileOrigin
  <2> QED BY <2>1, StartedWriter, ProcAssumption DEF Proc
<1>6. CASE v \in DOMAIN order
  <2>1. order'[v] = order[v]
    <3>1. ASSUME NEW x \in Writer, Link(x), v = Version(x) PROVE FALSE
      BY <1>6, <3>1 DEF Link
    <3> QED BY <3>1, FileOrigin
  <2>2. h = order[HeadVersion].by /\ w = order[v].by
    BY <1>4, <2>1
  <2>3. \/ w # Past /\ order[v].attempt = loc[w].attempt /\ pc[w] \in {"linked", "check", "collect"}
        \/ pc[h] \in {"linked", "check", "prunescan"}
        \/ pc[h] = "prune" /\ v \in loc[h].todo
    BY <1>1, <1>3, <1>6, <2>2 DEF OldOnesGo
  <2>4. CASE /\ w # Past /\ order[v].attempt = loc[w].attempt
             /\ pc[w] \in {"linked", "check", "collect"}
    <3>1. w \in Writer /\ v = Version(w)
      BY <1>6, <2>2, <2>4 DEF FilesAreOwn, Settling
    <3>2. CASE pc'[w] = pc[w] /\ loc'[w] = loc[w]
      BY <2>1, <2>4, <3>2
    <3>3. CASE ProcAction(w) \/ WriterAction(w)
      <4>1. CASE pc[w] = "linked"
        BY <2>1, <2>4, <3>1, <3>3, <4>1, QuietStep
      <4>2. CASE pc[w] = "check"
        <5>1. CheckHead(w)
          BY <3>1, <3>3, <4>2, QuietStep
        <5>2. HeadVersion > Version(w)
          BY <1>1, <1>2, <1>4, <3>1
        <5>3. pc'[w] = "collect" /\ loc' = loc
          BY <3>1, <5>1, <5>2, WriterLocals DEF CheckHead, Goto, TypeOK
        <5> QED BY <2>1, <2>4, <5>3
      <4>3. CASE pc[w] = "collect"
        <5>1. order' = Without(order, v)
          BY <3>1, <3>3, <4>3, QuietStep
        <5> QED BY <5>1 DEF Without
      <4> QED BY <2>4, <4>1, <4>2, <4>3
    <3> QED BY <3>1, <3>2, <3>3, WriterMoves
  <2>5. CASE \/ pc[h] \in {"linked", "check", "prunescan"}
             \/ pc[h] = "prune" /\ v \in loc[h].todo
    <3>1. h # Past
      <4>1. h = Past => HeadVersion <= InitHead
        BY <1>4, <2>2 DEF FilesAreOwn
      <4> QED BY <1>1, <1>2, <1>3, <1>6, <4>1
    <3>2. /\ h \in Writer /\ loc[h].attempt = order[HeadVersion].attempt
          /\ HeadVersion = Version(h)
      <4>1. h \in Writer /\ loc[h].attempt = order[HeadVersion].attempt
        BY <1>1, <1>4, <2>2, <3>1 DEF FilesAreOwn, HeadOwnerWins
      <4>2. pc[h] \in Settling
        BY <2>5 DEF Settling
      <4> QED BY <1>4, <2>2, <3>1, <4>1, <4>2 DEF FilesAreOwn
    <3>3. ~ (pc'[h] = pc[h] /\ loc'[h] = loc[h])
      BY <2>5
    <3>4. ProcAction(h) \/ WriterAction(h)
      BY <3>2, <3>3, WriterMoves
    <3>5. pc[h] # "linked"
      BY <3>2, <3>4, QuietStep
    <3>6. pc[h] # "check"
      <4>1. SUFFICES ASSUME CheckHead(h) PROVE FALSE
        BY <3>2, <3>4, QuietStep
      <4>2. ~ (HeadVersion > Version(h))
        BY <1>2, <3>2
      <4> QED BY <3>2, <4>1, <4>2, WriterLocals DEF CheckHead, Goto, TypeOK
    <3>7. pc[h] # "prunescan"
      <4> DEFINE old == {u \in DOMAIN order : u + Keep <= Version(h)}
      <4>1. SUFFICES ASSUME pc'[h] = "prune", loc' = [loc EXCEPT ![h].todo = old]
                     PROVE  FALSE
        BY <3>2, <3>4, QuietStep
      <4>2. v \in old
        BY <1>3, <1>6, <3>2
      <4> HIDE DEF old
      <4>3. loc'[h].todo = old
        BY <3>2, <4>1, WriterLocals DEF TypeOK, Locals
      <4> QED BY <4>1, <4>2, <4>3
    <3>8. pc[h] = "prune" /\ v \in loc[h].todo
      BY <2>5, <3>5, <3>6, <3>7
    <3>9. PICK u \in loc[h].todo : /\ loc' = [loc EXCEPT ![h].todo = @ \ {u}]
                                   /\ order' = Without(order, u) /\ pc' = pc
      BY <3>2, <3>4, <3>8, QuietStep
    <3>10. u # v
      BY <3>9 DEF Without
    <3>11. v \in loc'[h].todo
      BY <3>2, <3>8, <3>9, <3>10, WriterLocals DEF TypeOK, Locals
    <3> QED BY <3>8, <3>9, <3>11
  <2> QED BY <2>3, <2>4, <2>5
<1> QED BY <1>5, <1>6

-----------------------------------------------------------------------------
(* The whole invariant.                                                     *)
LEMMA RaceInit == Init => RaceIsSettled
<1> SUFFICES ASSUME Init PROVE RaceIsSettled
  OBVIOUS
<1>1. /\ DOMAIN order = 1 .. InitHead /\ \A v \in DOMAIN order : order[v].by = Past
      /\ tmp = {} /\ ruled = {} /\ InitHead \in Nat
      /\ \A p \in Proc : pc[p] = "idle" /\ loc[p].attempt = 0 /\ loc[p].reads = 0
  BY BoundAssumption DEF Init, NoFile, Fresh
<1>2. HeadVersion \in {0} \cup DOMAIN order
  BY TypeInit, BeliefInit, HeadTyped DEF BeliefsAreSafe
<1>3. AttemptsAreOwn
  BY <1>1 DEF AttemptsAreOwn, FilesAreOwn, RuledAreOwn, StagedAreOwn
<1>4. HeadOwnerWins
  BY <1>1, <1>2 DEF HeadOwnerWins
<1>5. LossesSoFar
  <2>1. IsFiniteSet(ruled) /\ Cardinality(ruled) = 0
    BY <1>1, FS_EmptySet
  <2>2. BasesAreHeads
    BY <1>1 DEF BasesAreHeads
  <2>3. ASSUME NEW w \in Writer PROVE LossesAreCounted(w)
    <3>1. RuledByOthers(w) = {}
      BY <1>1 DEF RuledByOthers
    <3> QED BY <1>1, <3>1, FS_EmptySet DEF LossesAreCounted, Overtaken, Proc
  <2>4. ASSUME NEW r \in Reader PROVE ReadsAreCounted(r)
    BY <1>1, <2>1 DEF ReadsAreCounted, OvertakenReading, Proc
  <2> QED BY <2>1, <2>2, <2>3, <2>4 DEF LossesSoFar
<1>6. OldOnesGo
  <2>1. \A v \in DOMAIN order : InitHead <= Keep => ~ (v + Keep <= HeadVersion)
    BY <1>1, <1>2, BoundAssumption
  <2> QED BY <2>1 DEF OldOnesGo
<1> QED BY <1>3, <1>4, <1>5, <1>6 DEF RaceIsSettled

LEMMA RaceStep ==
  TypeOK /\ BeliefsAreSafe /\ RaceIsSettled /\ [Next]_vars => RaceIsSettled'
BY FilesStayOwn, RuledStayOwn, StagedStayOwn, OwnerKeepsWinning, LossesStaySoFar,
   OldOnesKeepGoing
DEF RaceIsSettled, AttemptsAreOwn

(* The types, the processes' beliefs about the head, and how the race for   *)
(* the next version stands, hold in every state.                            *)
THEOREM BeliefsInvariant == Spec => []StoreInvariant
<1>1. Init => StoreInvariant
  BY TypeInit, BeliefInit, RaceInit DEF StoreInvariant
<1>2. StoreInvariant /\ [Next]_vars => StoreInvariant'
  BY TypeStep, BeliefStep, RaceStep DEF StoreInvariant
<1> QED BY <1>1, <1>2, PTL DEF Spec

(* Whoever published the current version succeeds, and every loss was paid  *)
(* for by the publish of somebody else.                                     *)
THEOREM TheRaceIsWon == Spec => []SomebodyWins
<1>1. TypeOK /\ LossesSoFar => LossesPaidFor
  <2> SUFFICES ASSUME TypeOK, LossesSoFar PROVE LossesPaidFor
    OBVIOUS
  <2>1. ASSUME NEW w \in Writer
        PROVE  loc[w].attempt + (IF pc[w] = "contended" THEN 1 ELSE 0)
                 <= Cardinality({u \in ruled : u[1] # w})
    <3> DEFINE c == Cardinality(RuledByOthers(w))
               k == loc[w].attempt
    <3>1. k \in Nat /\ k <= c /\ (pc[w] = "contended" => k + 1 <= c)
      BY WriterLocals DEF LossesSoFar, LossesAreCounted, Overtaken
    <3> HIDE DEF c, k
    <3>2. k + (IF pc[w] = "contended" THEN 1 ELSE 0) <= c
      BY <3>1
    <3> QED BY <3>2 DEF c, k, RuledByOthers
  <2>2. ASSUME NEW r \in Reader, pc[r] = "contended"
        PROVE  Cardinality(ruled) >= MaxHeadReads
    <3> DEFINE c == Cardinality(ruled)
    <3>1. c \in Nat /\ MaxHeadReads <= c /\ MaxHeadReads \in Nat
      BY <2>2, BoundAssumption, FS_CardinalityType DEF LossesSoFar, ReadsAreCounted
    <3> HIDE DEF c
    <3>2. c >= MaxHeadReads
      BY <3>1
    <3> QED BY <3>2 DEF c
  <2> QED BY <2>1, <2>2 DEF LossesPaidFor
<1>2. StoreInvariant => SomebodyWins
  BY <1>1 DEF StoreInvariant, RaceIsSettled, SomebodyWins
<1> QED BY <1>2, BeliefsInvariant, PTL

(* When every reorder ended without a fault, at most Keep versions remain   *)
(* and no staging file does.                                                *)
THEOREM CleanAtRest == Spec => []QuiescentStoreIsClean
<1>1. ASSUME StoreInvariant, AllEnded, faults = 0, InitHead <= Keep
      PROVE  Cardinality(DOMAIN order) <= Keep /\ tmp = {}
  <2>1. tmp = {}
    <3>1. ASSUME NEW u \in tmp PROVE FALSE
      <4>1. u[1] \in Writer /\ pc[u[1]] \in {"link", "linked", "lost", "refused"}
        BY <1>1, <3>1 DEF StoreInvariant, TypeOK, RaceIsSettled, AttemptsAreOwn, StagedAreOwn
      <4> QED BY <1>1, <4>1 DEF AllEnded, Ended
    <3> QED BY <3>1
  <2>2. /\ DOMAIN order \subseteq Nat \ {0} /\ HeadVersion \in Nat
        /\ HeadVersion \in {0} \cup DOMAIN order
        /\ \A v \in DOMAIN order : v <= HeadVersion
        /\ Keep \in Nat \ {0} /\ InitHead \in Nat
    BY <1>1, HeadTyped, BoundAssumption DEF StoreInvariant, TypeOK, BeliefsAreSafe
  <2>3. ASSUME NEW v \in DOMAIN order, v + Keep <= HeadVersion PROVE FALSE
    <3>1. HeadVersion \in DOMAIN order
      BY <2>2, <2>3
    <3>2. FilesAreOwn /\ OldOnesGo
      BY <1>1 DEF StoreInvariant, RaceIsSettled, AttemptsAreOwn
    <3>3. \A u \in DOMAIN order : order[u].by # Past => pc[order[u].by] \in Ended
      BY <1>1, <3>2 DEF FilesAreOwn, AllEnded
    <3>4. order[HeadVersion].by # Past
      <4>1. order[HeadVersion].by = Past => HeadVersion <= InitHead
        BY <3>1, <3>2 DEF FilesAreOwn
      <4> QED BY <1>1, <2>2, <2>3, <4>1
    <3> QED BY <1>1, <2>3, <3>1, <3>2, <3>3, <3>4 DEF OldOnesGo, Ended
  <2>4. \E low \in Nat : DOMAIN order \subseteq low + 1 .. low + Keep
    <3>1. CASE HeadVersion <= Keep
      <4>1. DOMAIN order \subseteq 0 + 1 .. 0 + Keep
        BY <2>2, <3>1
      <4> QED BY <4>1
    <3>2. CASE HeadVersion > Keep
      <4> DEFINE low == HeadVersion - Keep
      <4>1. low \in Nat /\ DOMAIN order \subseteq low + 1 .. low + Keep
        BY <2>2, <2>3, <3>2
      <4> QED BY <4>1
    <3> QED BY <2>2, <3>1, <3>2
  <2>5. PICK low \in Nat : DOMAIN order \subseteq low + 1 .. low + Keep
    BY <2>4
  <2>6. /\ IsFiniteSet(low + 1 .. low + Keep)
        /\ Cardinality(low + 1 .. low + Keep) = Keep
    <3>1. \A a, b \in Int : IsFiniteSet(a .. b) /\ Cardinality(a .. b) = IF a > b THEN 0 ELSE b - a + 1
      BY FS_Interval
    <3>2. /\ low + 1 \in Int /\ low + Keep \in Int /\ ~ (low + 1 > low + Keep)
          /\ (low + Keep) - (low + 1) + 1 = Keep
      BY <2>2
    <3> QED BY <3>1, <3>2, Zenon
  <2>7. Cardinality(DOMAIN order) <= Cardinality(low + 1 .. low + Keep)
    BY <2>5, <2>6, FS_Subset
  <2> QED BY <2>1, <2>6, <2>7
<1>2. StoreInvariant => QuiescentStoreIsClean
  BY <1>1 DEF QuiescentStoreIsClean
<1> QED BY <1>2, BeliefsInvariant, PTL
=============================================================================
