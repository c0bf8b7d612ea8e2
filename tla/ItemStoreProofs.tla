--------------------------- MODULE ItemStoreProofs ---------------------------
(***************************************************************************)
(* Proofs about ItemStore for any processes, ids, texts and bounds.        *)
(***************************************************************************)
EXTENDS ItemStore, TLAPS

-----------------------------------------------------------------------------
(* The disjuncts of Next, by who takes them; a crash hits adders and        *)
(* removers.                                                                *)
AdderAction(a) ==
  CallAdd(a) \/ AdderStep(a) \/ WriteFails(a) \/ LinkFails(a) \/ Crash(a)
    \/ CallFails(a)

RemoverAction(r) ==
  CallRemove(r) \/ RemoveItem(r) \/ Crash(r) \/ CallFails(r)

ReaderAction(l) ==
  ReadNames(l) \/ CallGet(l) \/ ReaderStep(l) \/ CallFails(l)

LEMMA NextByActor ==
  Next => \/ \E a \in Adder : AdderAction(a)
          \/ \E r \in Remover : RemoverAction(r)
          \/ \E l \in Reader : ReaderAction(l)
BY DEF Next, Proc, AdderAction, RemoverAction, ReaderAction

(* Adders, removers and readers are different processes.                    *)
LEMMA ProcKinds ==
  /\ Adder \subseteq Proc /\ Remover \subseteq Proc /\ Reader \subseteq Proc
  /\ \A a \in Adder, r \in Remover : a # r
  /\ \A a \in Adder, l \in Reader : a # l
  /\ \A r \in Remover, l \in Reader : r # l
BY ProcAssumption DEF Proc

(* A bounded sequence is a sequence, and the empty one is bounded.          *)
LEMMA BoundedSeqIsSeq ==
  ASSUME NEW S, NEW n \in Nat, NEW s \in BoundedSeq(S, n)
  PROVE  /\ Len(s) \in 0 .. n /\ DOMAIN s = 1 .. Len(s)
         /\ \A i \in 1 .. Len(s) : s[i] \in S
<1>1. PICK m \in 0 .. n : s \in [1 .. m -> S]
  BY DEF BoundedSeq, SeqOf
<1>2. s \in Seq(S) /\ Len(s) = m
  BY <1>1
<1> QED BY <1>1, <1>2

LEMMA EmptyIsBounded ==
  ASSUME NEW S, NEW n \in Nat
  PROVE  <<>> \in BoundedSeq(S, n)
<1>1. <<>> \in [1 .. 0 -> S]
  OBVIOUS
<1> QED BY <1>1 DEF BoundedSeq, SeqOf

-----------------------------------------------------------------------------
(* Type correctness.                                                        *)
LEMMA StartTyped == Start \in Locals
BY ItemBoundAssumption DEF Start, Locals

LEMMA EntriesTyped ==
  ASSUME TypeOK
  PROVE  Entries(items) \subseteq Id \X Adder
BY DEF TypeOK, Entries, File

LEMMA RedrawTyped ==
  ASSUME TypeOK, NEW a \in Adder, Redraw(a)
  PROVE  /\ pc' \in [Proc -> {"idle", "remove"} \cup AddPending \cup ReadPending \cup Ended]
         /\ loc' \in [Proc -> Locals]
<1>1. a \in Proc /\ loc[a] \in Locals
  BY ProcKinds DEF TypeOK
<1>2. CASE loc[a].tries + 1 < MaxIDAttempts
  <2>1. [loc[a] EXCEPT !.tries = @ + 1, !.id = 0] \in Locals
    <3> DEFINE n == loc[a].tries + 1
    <3>1. n \in 0 .. MaxIDAttempts - 1 /\ 0 \in Id \cup {0}
      BY <1>1, <1>2, ItemBoundAssumption DEF Locals
    <3> HIDE DEF n
    <3>2. [loc[a] EXCEPT !.tries = n, !.id = 0] \in Locals
      BY <1>1, <3>1 DEF Locals
    <3> QED BY <3>2 DEF n
  <2>2. loc' = [loc EXCEPT ![a].tries = @ + 1, ![a].id = 0] /\ Goto(a, "draw")
    BY <1>2 DEF Redraw
  <2> QED BY <1>1, <2>1, <2>2 DEF TypeOK, Goto, AddPending
<1>3. CASE ~ (loc[a].tries + 1 < MaxIDAttempts)
  BY <1>1, <1>3 DEF Redraw, TypeOK, Goto, Ended
<1> QED BY <1>2, <1>3

(* A change of items/ keeps what the listers have seen typed.               *)
LEMMA WitnessTyped ==
  ASSUME TypeOK, NEW files, Witness(files), Entries(files) \subseteq Id \X Adder
  PROVE  seen' \in [Reader -> [maybe : SUBSET (Id \X Adder),
                               always : SUBSET (Id \X Adder)]]
<1> SUFFICES ASSUME NEW l \in Reader
             PROVE  (IF loc[l].lists /\ pc[l] \in {"open", "verify"}
                       THEN [maybe  |-> seen[l].maybe \cup Entries(files),
                             always |-> seen[l].always \cap Entries(files)]
                       ELSE seen[l])
                    \in [maybe : SUBSET (Id \X Adder), always : SUBSET (Id \X Adder)]
  BY DEF Witness
<1> HIDE DEF Entries
<1> QED BY DEF TypeOK

LEMMA AdderTyped ==
  ASSUME TypeOK, StagedIsOwn, NEW a \in Adder, AdderAction(a)
  PROVE  TypeOK'
<1> USE DEF Goto, AddPending, ReadPending, Ended
<1>a. a \in Proc /\ loc[a] \in Locals
  BY ProcKinds DEF TypeOK
<1>s. pc[a] \in AddPending \ {"draw"} => loc[a].id \in DOMAIN tmp
  BY DEF StagedIsOwn
<1>1. CASE CallAdd(a)
  BY <1>1, <1>a DEF CallAdd, TypeOK
<1>2. CASE OpenStaged(a)
  <2>1. PICK id \in Id \ DOMAIN tmp :
          /\ tmp' = Put(tmp, id, [by |-> a, whole |-> FALSE])
          /\ loc' = [loc EXCEPT ![a].id = id]
    BY <1>2 DEF OpenStaged
  <2>2. DOMAIN tmp' \subseteq Id /\ tmp' \in [DOMAIN tmp' -> File]
    BY <2>1 DEF Put, File, TypeOK
  <2>3. loc' \in [Proc -> Locals]
    BY <1>a, <2>1 DEF TypeOK, Locals
  <2> QED BY <1>2, <1>a, <2>2, <2>3 DEF OpenStaged, TypeOK
<1>3. CASE OpenTaken(a)
  BY <1>3, RedrawTyped DEF OpenTaken, TypeOK
<1>4. CASE WriteStaged(a)
  <2>1. DOMAIN tmp' \subseteq Id /\ tmp' \in [DOMAIN tmp' -> File]
    BY <1>4 DEF WriteStaged, TypeOK, File
  <2> QED BY <1>4, <1>a, <2>1 DEF WriteStaged, TypeOK
<1>5. CASE WriteFails(a) \/ LinkFails(a)
  BY <1>5, <1>a DEF WriteFails, LinkFails, Fault, TypeOK
<1>6. CASE LinkItem(a)
  <2>1. loc[a].id \in Id /\ tmp[loc[a].id] \in File
    BY <1>6, <1>s DEF LinkItem, TypeOK
  <2>2. DOMAIN items' \subseteq Id /\ items' \in [DOMAIN items' -> File]
    BY <1>6, <2>1 DEF LinkItem, Put, TypeOK
  <2>3. Entries(items') \subseteq Id \X Adder
    BY <2>2 DEF Entries, File
  <2>4. seen' \in [Reader -> [maybe : SUBSET (Id \X Adder),
                              always : SUBSET (Id \X Adder)]]
    BY <1>6, <2>3, WitnessTyped DEF LinkItem
  <2>5. linked' \subseteq Adder \X Id \X Adder
    BY <1>6, <2>1 DEF LinkItem, TypeOK, File
  <2> QED BY <1>6, <1>a, <2>2, <2>4, <2>5 DEF LinkItem, TypeOK
<1>7. CASE LinkTaken(a)
  BY <1>7, <1>a DEF LinkTaken, TypeOK
<1>8. CASE RemoveStaged(a)
  <2>1. DOMAIN tmp' \subseteq Id /\ tmp' \in [DOMAIN tmp' -> File]
    BY <1>8 DEF RemoveStaged, Without, TypeOK
  <2>2. faults' \in Nat
    BY <1>8 DEF RemoveStaged, Fault, TypeOK
  <2>3. /\ pc' \in [Proc -> {"idle", "remove"} \cup AddPending \cup ReadPending \cup Ended]
        /\ loc' \in [Proc -> Locals]
    <3>1. CASE pc[a] = "taken"
      BY <1>8, <3>1, RedrawTyped DEF RemoveStaged
    <3>2. CASE pc[a] \in {"clean", "abandoned"}
      BY <1>8, <1>a, <3>2 DEF RemoveStaged, TypeOK
    <3> QED BY <1>8, <3>1, <3>2 DEF RemoveStaged
  <2> QED BY <1>8, <2>1, <2>2, <2>3 DEF RemoveStaged, TypeOK
<1>9. CASE Crash(a) \/ CallFails(a)
  <2>1. /\ faults' \in Nat /\ UNCHANGED <<items, tmp, loc, rm, linked, seen>>
        /\ Goto(a, "error") \/ Goto(a, "crashed")
    BY <1>9 DEF Crash, CallFails, Fault, TypeOK
  <2> QED BY <1>a, <2>1 DEF TypeOK
<1> QED
  BY <1>1, <1>2, <1>3, <1>4, <1>5, <1>6, <1>7, <1>8, <1>9 DEF AdderAction, AdderStep

(* Where a remover is: at its next argument, or at the end of its call.     *)
LEMMA RemoveItemStep ==
  ASSUME TypeOK, NEW r \in Remover, RemovesInTurn, RemoveItem(r)
  PROVE  LET tried == rm[r].tried + 1
         IN  /\ tried \in 1 .. Len(rm[r].args) /\ tried \in 1 .. MaxArgs
             /\ rm[r].args[tried] \in Id
             /\ rm'[r] = [args   |-> rm[r].args, tried |-> tried,
                          failed |-> IF items' = items THEN rm[r].failed \cup {tried}
                                                       ELSE rm[r].failed]
             /\ rm' = [rm EXCEPT ![r] = rm'[r]]
             /\ tried < Len(rm[r].args) => Goto(r, "remove")
             /\ ~ (tried < Len(rm[r].args)) =>
                  Goto(r, IF rm'[r].failed = {} THEN "ok" ELSE "error")
<1> DEFINE tried == rm[r].tried + 1
<1>1. rm[r] \in [args : BoundedSeq(Id, MaxArgs), tried : 0 .. MaxArgs,
                failed : SUBSET (1 .. MaxArgs)]
  BY DEF TypeOK
<1>2. /\ Len(rm[r].args) \in 0 .. MaxArgs
      /\ \A i \in 1 .. Len(rm[r].args) : rm[r].args[i] \in Id
  BY <1>1, BoundedSeqIsSeq, ItemBoundAssumption
<1>3. rm[r].tried < Len(rm[r].args) /\ rm[r].tried \in Nat
  BY <1>1, ItemBoundAssumption DEF RemovesInTurn, RemoveItem
<1>4. tried \in 1 .. Len(rm[r].args) /\ tried \in 1 .. MaxArgs
  BY <1>2, <1>3, ItemBoundAssumption
<1>5. rm[r].args[tried] \in Id
  BY <1>2, <1>4
<1>6. rm' = [rm EXCEPT
        ![r].tried = tried,
        ![r].failed = IF items' = items THEN @ \cup {tried} ELSE @]
  BY DEF RemoveItem
<1>7. rm'[r] = [args   |-> rm[r].args, tried |-> tried,
               failed |-> IF items' = items THEN rm[r].failed \cup {tried}
                                            ELSE rm[r].failed]
  <2> HIDE DEF tried
  <2> QED BY <1>1, <1>6 DEF TypeOK
<1>8. rm' = [rm EXCEPT ![r] = rm'[r]]
  <2> HIDE DEF tried
  <2> QED BY <1>1, <1>6 DEF TypeOK
<1>9. Goto(r, IF tried < Len(rm[r].args) THEN "remove"
              ELSE IF rm'[r].failed = {} THEN "ok" ELSE "error")
  BY DEF RemoveItem
<1> QED BY <1>4, <1>5, <1>7, <1>8, <1>9

LEMMA RemoverTyped ==
  ASSUME TypeOK, RemovesInTurn, NEW r \in Remover, RemoverAction(r)
  PROVE  TypeOK'
<1> USE DEF Goto, AddPending, ReadPending, Ended
<1>r. r \in Proc
  BY ProcKinds
<1>1. CASE CallRemove(r)
  <2>1. PICK args \in BoundedSeq(Id, MaxArgs) : rm' = [rm EXCEPT ![r].args = args]
    BY <1>1 DEF CallRemove
  <2>2. rm[r] = [args |-> <<>>, tried |-> 0, failed |-> {}]
    BY <1>1 DEF CallRemove, RemovesInTurn
  <2>3. rm' = [rm EXCEPT ![r] = [args |-> args, tried |-> 0, failed |-> {}]]
    <3>1. rm' = [rm EXCEPT ![r] = [rm[r] EXCEPT !.args = args]]
      BY <2>1 DEF TypeOK
    <3>2. [rm[r] EXCEPT !.args = args] = [args |-> args, tried |-> 0, failed |-> {}]
      BY <2>2, SMTT(30)
    <3> QED BY <3>1, <3>2
  <2>4. Len(args) \in Nat
    BY BoundedSeqIsSeq, ItemBoundAssumption
  <2>5. /\ rm' \in [Remover -> [args : BoundedSeq(Id, MaxArgs), tried : 0 .. MaxArgs,
                               failed : SUBSET (1 .. MaxArgs)]]
        /\ \A x \in Remover :
             /\ rm'[x].failed \subseteq 1 .. rm'[x].tried
             /\ rm'[x].tried <= Len(rm'[x].args)
    BY <2>3, <2>4, ItemBoundAssumption DEF TypeOK
  <2> QED BY <1>1, <1>r, <2>5 DEF CallRemove, TypeOK
<1>2. CASE RemoveItem(r)
  <2> DEFINE tried == rm[r].tried + 1
             new == rm'[r]
  <2>1. /\ tried \in 1 .. Len(rm[r].args) /\ tried \in 1 .. MaxArgs
        /\ new = [args   |-> rm[r].args, tried |-> tried,
                  failed |-> IF items' = items THEN rm[r].failed \cup {tried}
                                               ELSE rm[r].failed]
        /\ rm' = [rm EXCEPT ![r] = new]
        /\ Goto(r, "remove") \/ Goto(r, "ok") \/ Goto(r, "error")
    BY <1>2, RemoveItemStep
  <2>2. DOMAIN items' \subseteq Id /\ items' \in [DOMAIN items' -> File]
    BY <1>2 DEF RemoveItem, Without, TypeOK
  <2>3. seen' \in [Reader -> [maybe : SUBSET (Id \X Adder),
                              always : SUBSET (Id \X Adder)]]
    <3>1. Entries(items') \subseteq Id \X Adder
      BY <2>2 DEF Entries, File
    <3> QED BY <1>2, <3>1, WitnessTyped DEF RemoveItem
  <2>4. /\ new \in [args : BoundedSeq(Id, MaxArgs), tried : 0 .. MaxArgs,
                    failed : SUBSET (1 .. MaxArgs)]
        /\ new.failed \subseteq 1 .. new.tried
        /\ new.tried <= Len(new.args)
    <3>1. /\ rm[r] \in [args : BoundedSeq(Id, MaxArgs), tried : 0 .. MaxArgs,
                        failed : SUBSET (1 .. MaxArgs)]
          /\ rm[r].failed \subseteq 1 .. rm[r].tried
      BY DEF TypeOK
    <3>2. Len(rm[r].args) \in Nat
      BY <3>1, BoundedSeqIsSeq, ItemBoundAssumption
    <3>3. rm[r].failed \cup {tried} \subseteq 1 .. tried
      BY <3>1, ItemBoundAssumption
    <3> QED BY <2>1, <3>1, <3>2, <3>3, ItemBoundAssumption
  <2>5. /\ rm' \in [Remover -> [args : BoundedSeq(Id, MaxArgs), tried : 0 .. MaxArgs,
                               failed : SUBSET (1 .. MaxArgs)]]
        /\ \A x \in Remover :
             /\ rm'[x].failed \subseteq 1 .. rm'[x].tried
             /\ rm'[x].tried <= Len(rm'[x].args)
    <3> HIDE DEF new
    <3>1. rm' = [rm EXCEPT ![r] = new]
      BY <2>1
    <3> QED BY <2>4, <3>1 DEF TypeOK
  <2>6. faults' \in Nat
    BY <1>2 DEF RemoveItem, Fault, TypeOK
  <2>7. pc' \in [Proc -> {"idle", "remove"} \cup AddPending \cup ReadPending \cup Ended]
    BY <1>r, <2>1 DEF TypeOK
  <2> QED BY <1>2, <2>2, <2>3, <2>5, <2>6, <2>7 DEF RemoveItem, TypeOK
<1>3. CASE Crash(r) \/ CallFails(r)
  <2>1. /\ faults' \in Nat /\ UNCHANGED <<items, tmp, loc, rm, linked, seen>>
        /\ Goto(r, "error") \/ Goto(r, "crashed")
    BY <1>3 DEF Crash, CallFails, Fault, TypeOK
  <2> QED BY <1>r, <2>1 DEF TypeOK
<1> QED BY <1>1, <1>2, <1>3 DEF RemoverAction

LEMMA ReaderTyped ==
  ASSUME TypeOK, NEW l \in Reader, ReaderAction(l)
  PROVE  TypeOK'
<1> USE DEF Goto, AddPending, ReadPending, Ended
<1>l. l \in Proc /\ loc[l] \in Locals
  BY ProcKinds DEF TypeOK
<1>s. CASE Skip(l) /\ UNCHANGED <<items, tmp, rm, linked, seen, faults>>
  <2>1. loc' \in [Proc -> Locals]
    BY <1>s, <1>l DEF Skip, TypeOK, Locals
  <2> QED BY <1>s, <1>l, <2>1 DEF Skip, TypeOK
<1>e. ASSUME NEW step \in Ended, Goto(l, step),
             UNCHANGED <<items, tmp, loc, rm, linked, seen, faults>>
      PROVE  TypeOK'
  BY <1>l, <1>e DEF TypeOK
<1>1. CASE ReadNames(l)
  <2> DEFINE now == Entries(items)
  <2>1. now \in SUBSET (Id \X Adder)
    BY EntriesTyped
  <2>2. loc' \in [Proc -> Locals]
    BY <1>1, <1>l DEF ReadNames, TypeOK, Locals
  <2>3. seen' \in [Reader -> [maybe : SUBSET (Id \X Adder),
                              always : SUBSET (Id \X Adder)]]
    <3>1. seen' = [seen EXCEPT ![l] = [maybe |-> now, always |-> now]]
      BY <1>1 DEF ReadNames
    <3> HIDE DEF now
    <3> QED BY <2>1, <3>1 DEF TypeOK
  <2> QED BY <1>1, <1>l, <2>2, <2>3 DEF ReadNames, TypeOK
<1>2. CASE CallGet(l)
  <2>1. PICK id \in Id : loc' = [loc EXCEPT ![l].todo = {id}]
    BY <1>2 DEF CallGet
  <2>2. loc' \in [Proc -> Locals]
    BY <2>1, <1>l DEF TypeOK, Locals
  <2> QED BY <1>2, <1>l, <2>2 DEF CallGet, TypeOK
<1>3. CASE OpenItem(l)
  <2> DEFINE file == <<NextName(l), items[NextName(l)].by>>
  <2>1. file \in Id \X Adder
    BY <1>3 DEF OpenItem, TypeOK, File
  <2>2. loc' \in [Proc -> Locals]
    <3>1. loc' = [loc EXCEPT ![l].file = file]
      BY <1>3 DEF OpenItem
    <3> HIDE DEF file
    <3> QED BY <1>l, <2>1, <3>1 DEF TypeOK, Locals
  <2> QED BY <1>3, <1>l, <2>2 DEF OpenItem, TypeOK
<1>4. CASE ItemGone(l)
  BY <1>4, <1>s, <1>e DEF ItemGone
<1>5. CASE ItemReplaced(l)
  BY <1>5, <1>s, <1>e DEF ItemReplaced
<1>6. CASE ReadItem(l)
  <2> DEFINE file == loc[l].file
  <2>1. file \in Id \X Adder
    <3>1. file = <<NextName(l), items[NextName(l)].by>> /\ NextName(l) \in DOMAIN items
      BY <1>6 DEF ReadItem
    <3>2. NextName(l) \in Id /\ items[NextName(l)].by \in Adder
      BY <3>1 DEF TypeOK, File
    <3> HIDE DEF file
    <3> QED BY <3>1, <3>2
  <2>2. loc' \in [Proc -> Locals]
    <3>1. loc' = [loc EXCEPT ![l].todo = @ \ {NextName(l)}, ![l].file = <<>>,
                            ![l].got = @ \cup {file}]
      BY <1>6 DEF ReadItem
    <3>2. loc \in [Proc -> Locals]
      BY DEF TypeOK
    <3> DEFINE found == [loc[l] EXCEPT !.todo = @ \ {NextName(l)}, !.file = <<>>,
                                       !.got = @ \cup {file}]
    <3>3. loc' = [loc EXCEPT ![l] = found]
      BY <1>l, <3>1, <3>2
    <3> HIDE DEF file
    <3>4. found \in Locals
      BY <1>l, <2>1, <3>2 DEF Locals
    <3> HIDE DEF found
    <3> QED BY <3>2, <3>3, <3>4
  <2> QED BY <1>6, <1>l, <2>2 DEF ReadItem, TypeOK
<1>7. CASE ReadDone(l)
  BY <1>7, <1>e DEF ReadDone
<1>8. CASE CallFails(l)
  <2>1. faults' \in Nat /\ UNCHANGED <<items, tmp, loc, rm, linked, seen>>
        /\ Goto(l, "error")
    BY <1>8 DEF CallFails, Fault, TypeOK
  <2> QED BY <1>l, <2>1 DEF TypeOK
<1> QED
  BY <1>1, <1>2, <1>3, <1>4, <1>5, <1>6, <1>7, <1>8 DEF ReaderAction, ReaderStep

LEMMA TypeInit == Init => TypeOK
<1> SUFFICES ASSUME Init PROVE TypeOK
  OBVIOUS
<1>1. loc \in [Proc -> Locals]
  BY StartTyped DEF Init
<1>2. rm \in [Remover -> [args : BoundedSeq(Id, MaxArgs), tried : 0 .. MaxArgs,
                         failed : SUBSET (1 .. MaxArgs)]]
  <2>1. [args |-> <<>>, tried |-> 0, failed |-> {}]
          \in [args : BoundedSeq(Id, MaxArgs), tried : 0 .. MaxArgs,
              failed : SUBSET (1 .. MaxArgs)]
    BY EmptyIsBounded, ItemBoundAssumption
  <2> QED BY <2>1 DEF Init
<1>3. DOMAIN items = {} /\ DOMAIN tmp = {}
  BY DEF Init
<1>4. pc \in [Proc -> {"idle", "remove"} \cup AddPending \cup ReadPending \cup Ended]
  BY DEF Init
<1>5. seen \in [Reader -> [maybe : SUBSET (Id \X Adder), always : SUBSET (Id \X Adder)]]
  BY DEF Init
<1>6. \A r \in Remover : rm[r].failed \subseteq 1 .. rm[r].tried
                        /\ rm[r].tried <= Len(rm[r].args)
  BY DEF Init
<1> QED BY <1>1, <1>2, <1>3, <1>4, <1>5, <1>6 DEF Init, TypeOK

LEMMA TypeStep ==
  ASSUME TypeOK, StagedIsOwn, RemovesInTurn, [Next]_vars
  PROVE  TypeOK'
<1>1. CASE UNCHANGED vars
  BY <1>1 DEF vars, TypeOK
<1>2. CASE Next
  BY <1>2, NextByActor, AdderTyped, RemoverTyped, ReaderTyped
<1> QED BY <1>1, <1>2

-----------------------------------------------------------------------------
(* What a step leaves alone.                                                *)
(* An adder changes its own variables and files only.                       *)
LEMMA AdderFrame ==
  ASSUME TypeOK, StagedIsOwn, NEW a \in Adder, AdderAction(a)
  PROVE  /\ \A p \in Proc \ {a} : pc'[p] = pc[p] /\ loc'[p] = loc[p]
         /\ rm' = rm
         /\ \A i \in DOMAIN tmp : tmp[i].by # a =>
              i \in DOMAIN tmp' /\ tmp'[i] = tmp[i]
         /\ \A i \in DOMAIN tmp' : i \in DOMAIN tmp \/ tmp'[i].by = a
         /\ LinkItem(a) \/ (items' = items /\ linked' = linked /\ seen' = seen)
<1> USE DEF Goto
<1>s. pc[a] \in AddPending \ {"draw"} =>
        loc[a].id \in DOMAIN tmp /\ tmp[loc[a].id].by = a
  BY DEF StagedIsOwn
<1>r. Redraw(a) => \A p \in Proc \ {a} : pc'[p] = pc[p] /\ loc'[p] = loc[p]
  BY DEF Redraw, TypeOK
<1>1. CASE CallAdd(a) \/ WriteFails(a) \/ LinkFails(a) \/ Crash(a) \/ CallFails(a)
  BY <1>1 DEF CallAdd, WriteFails, LinkFails, Crash, CallFails, TypeOK
<1>2. CASE OpenStaged(a)
  <2>1. PICK id \in Id \ DOMAIN tmp :
          /\ tmp' = Put(tmp, id, [by |-> a, whole |-> FALSE])
          /\ loc' = [loc EXCEPT ![a].id = id]
    BY <1>2 DEF OpenStaged
  <2>2. /\ \A i \in DOMAIN tmp : i \in DOMAIN tmp' /\ tmp'[i] = tmp[i]
        /\ \A i \in DOMAIN tmp' : i \in DOMAIN tmp \/ tmp'[i].by = a
    BY <2>1 DEF Put
  <2> QED BY <1>2, <2>1, <2>2 DEF OpenStaged, TypeOK
<1>3. CASE OpenTaken(a)
  BY <1>3, <1>r DEF OpenTaken
<1>4. CASE WriteStaged(a)
  BY <1>4, <1>s DEF WriteStaged, TypeOK, AddPending
<1>5. CASE LinkItem(a) \/ LinkTaken(a)
  BY <1>5 DEF LinkItem, LinkTaken, TypeOK
<1>6. CASE RemoveStaged(a)
  <2>1. \A p \in Proc \ {a} : pc'[p] = pc[p] /\ loc'[p] = loc[p]
    <3>1. CASE pc[a] = "taken"
      BY <1>6, <1>r, <3>1 DEF RemoveStaged
    <3>2. CASE pc[a] \in {"clean", "abandoned"}
      BY <1>6, <3>2 DEF RemoveStaged, TypeOK
    <3> QED BY <1>6, <3>1, <3>2 DEF RemoveStaged
  <2> QED BY <1>6, <1>s, <2>1 DEF RemoveStaged, Without, AddPending
<1> QED BY <1>1, <1>2, <1>3, <1>4, <1>5, <1>6 DEF AdderAction, AdderStep

(* A remover changes items/ only, and tells the listers.                    *)
LEMMA RemoverFrame ==
  ASSUME TypeOK, NEW r \in Remover, RemoverAction(r)
  PROVE  /\ \A p \in Proc \ {r} : pc'[p] = pc[p]
         /\ \A x \in Remover \ {r} : rm'[x] = rm[x]
         /\ UNCHANGED <<tmp, loc, linked>>
         /\ RemoveItem(r) \/ (items' = items /\ seen' = seen)
         /\ DOMAIN items' \subseteq DOMAIN items
         /\ \A i \in DOMAIN items' : items'[i] = items[i]
         /\ faults' = faults \/ faults' = faults + 1
<1> USE DEF Goto
<1>1. CASE CallRemove(r)
  BY <1>1 DEF CallRemove, TypeOK
<1>2. CASE RemoveItem(r)
  BY <1>2 DEF RemoveItem, Without, Fault, TypeOK
<1>3. CASE Crash(r) \/ CallFails(r)
  BY <1>3 DEF Crash, CallFails, Fault, TypeOK
<1> QED BY <1>1, <1>2, <1>3 DEF RemoverAction

(* A reader changes its own variables only.                                 *)
LEMMA ReaderFrame ==
  ASSUME TypeOK, NEW l \in Reader, ReaderAction(l)
  PROVE  /\ \A p \in Proc \ {l} : pc'[p] = pc[p] /\ loc'[p] = loc[p]
         /\ \A p \in Reader \ {l} : seen'[p] = seen[p]
         /\ UNCHANGED <<items, tmp, rm, linked>>
         /\ faults' = faults \/ faults' = faults + 1
<1> USE DEF Goto
<1>1. CASE ReadNames(l) \/ CallGet(l)
  BY <1>1 DEF ReadNames, CallGet, TypeOK
<1>2. CASE OpenItem(l) \/ ItemGone(l) \/ ItemReplaced(l)
  BY <1>2 DEF OpenItem, ItemGone, ItemReplaced, Skip, TypeOK
<1>3. CASE ReadItem(l) \/ ReadDone(l) \/ CallFails(l)
  BY <1>3 DEF ReadItem, ReadDone, CallFails, Fault, TypeOK
<1> QED BY <1>1, <1>2, <1>3 DEF ReaderAction, ReaderStep

-----------------------------------------------------------------------------
(* What an adder has staged stays its own: other adders take other names,   *)
(* and it keeps the file until it lets go of it.                            *)
LEMMA StagedByItself ==
  ASSUME TypeOK, StagedIsOwn, NEW a \in Adder, AdderAction(a),
         pc'[a] \in AddPending \ {"draw"}
  PROVE  /\ loc'[a].id \in DOMAIN tmp'
         /\ tmp'[loc'[a].id].by = a
         /\ pc'[a] = "link" => tmp'[loc'[a].id].whole
<1> USE DEF Goto, AddPending, Ended
<1>a. a \in Proc /\ loc[a] \in Locals /\ \A i \in DOMAIN tmp : tmp[i] \in File
  BY ProcKinds DEF TypeOK
<1>s. pc[a] \in AddPending \ {"draw"} =>
        /\ loc[a].id \in DOMAIN tmp /\ tmp[loc[a].id].by = a
        /\ pc[a] = "link" => tmp[loc[a].id].whole
  BY DEF StagedIsOwn
<1>r. ~ Redraw(a)
  BY <1>a DEF Redraw, TypeOK
<1>1. CASE OpenStaged(a)
  <2>1. PICK id \in Id \ DOMAIN tmp :
          /\ tmp' = Put(tmp, id, [by |-> a, whole |-> FALSE])
          /\ loc' = [loc EXCEPT ![a].id = id]
    BY <1>1 DEF OpenStaged
  <2>2. loc'[a].id = id
    BY <1>a, <2>1 DEF TypeOK, Locals
  <2>3. tmp'[id] = [by |-> a, whole |-> FALSE] /\ id \in DOMAIN tmp'
    BY <2>1 DEF Put
  <2>4. pc'[a] = "write"
    BY <1>1, <1>a DEF OpenStaged, TypeOK
  <2> QED BY <2>2, <2>3, <2>4
<1>2. CASE WriteStaged(a)
  BY <1>2, <1>a, <1>s DEF WriteStaged, TypeOK, File
<1>3. CASE WriteFails(a) \/ LinkItem(a) \/ LinkTaken(a) \/ LinkFails(a)
  BY <1>3, <1>a, <1>s DEF WriteFails, LinkItem, LinkTaken, LinkFails, TypeOK
<1>4. CASE RemoveStaged(a)
  BY <1>4, <1>a, <1>r DEF RemoveStaged, TypeOK
<1>5. CASE CallAdd(a) \/ OpenTaken(a) \/ Crash(a) \/ CallFails(a)
  BY <1>5, <1>a, <1>r DEF CallAdd, OpenTaken, Crash, CallFails, TypeOK
<1> QED BY <1>1, <1>2, <1>3, <1>4, <1>5 DEF AdderAction, AdderStep

LEMMA StagedStep ==
  ASSUME TypeOK, StagedIsOwn, [Next]_vars
  PROVE  StagedIsOwn'
<1>1. CASE UNCHANGED vars
  BY <1>1 DEF vars, StagedIsOwn
<1>2. ASSUME NEW a \in Adder, AdderAction(a)
      PROVE  StagedIsOwn'
  <2> SUFFICES ASSUME NEW b \in Adder, pc'[b] \in AddPending \ {"draw"}
               PROVE  /\ loc'[b].id \in DOMAIN tmp'
                      /\ tmp'[loc'[b].id].by = b
                      /\ pc'[b] = "link" => tmp'[loc'[b].id].whole
    BY DEF StagedIsOwn
  <2>1. CASE b = a
    BY <1>2, <2>1, StagedByItself
  <2>2. CASE b # a
    <3>1. pc'[b] = pc[b] /\ loc'[b] = loc[b]
      BY <1>2, <2>2, AdderFrame, ProcKinds
    <3>2. /\ loc[b].id \in DOMAIN tmp /\ tmp[loc[b].id].by = b
          /\ pc[b] = "link" => tmp[loc[b].id].whole
      BY <3>1 DEF StagedIsOwn
    <3>3. loc[b].id \in DOMAIN tmp' /\ tmp'[loc[b].id] = tmp[loc[b].id]
      BY <1>2, <2>2, <3>2, AdderFrame
    <3> QED BY <3>1, <3>2, <3>3
  <2> QED BY <2>1, <2>2
<1>3. ASSUME NEW r \in Remover, RemoverAction(r)
      PROVE  StagedIsOwn'
  <2>1. UNCHANGED tmp /\ \A b \in Adder : pc'[b] = pc[b] /\ loc'[b] = loc[b]
    BY <1>3, RemoverFrame, ProcKinds
  <2> QED BY <2>1 DEF StagedIsOwn
<1>4. ASSUME NEW l \in Reader, ReaderAction(l)
      PROVE  StagedIsOwn'
  <2>1. UNCHANGED tmp /\ \A b \in Adder : pc'[b] = pc[b] /\ loc'[b] = loc[b]
    BY <1>4, ReaderFrame, ProcKinds
  <2> QED BY <2>1 DEF StagedIsOwn
<1> QED BY <1>1, <1>2, <1>3, <1>4, NextByActor

-----------------------------------------------------------------------------
(* What is published is whole and its adder's: link(2) publishes a file     *)
(* that is written, closed and the caller's.                                *)
LEMMA PublishedStep ==
  ASSUME TypeOK, StagedIsOwn, PublishedIsWhole, [Next]_vars
  PROVE  PublishedIsWhole'
<1>1. CASE UNCHANGED vars
  BY <1>1 DEF vars, PublishedIsWhole
<1>2. ASSUME NEW a \in Adder, LinkItem(a)
      PROVE  PublishedIsWhole'
  <2>1. tmp[loc[a].id].by = a /\ tmp[loc[a].id].whole
    BY <1>2 DEF StagedIsOwn, LinkItem, AddPending
  <2>2. /\ items' = Put(items, loc[a].id, tmp[loc[a].id])
        /\ linked' = linked \cup {<<a, loc[a].id, tmp[loc[a].id].by>>}
    BY <1>2 DEF LinkItem
  <2> QED BY <2>1, <2>2 DEF PublishedIsWhole, Put
<1>3. ASSUME NEW a \in Adder, AdderAction(a), ~ LinkItem(a)
      PROVE  PublishedIsWhole'
  BY <1>3, AdderFrame DEF PublishedIsWhole
<1>4. ASSUME NEW r \in Remover, RemoverAction(r)
      PROVE  PublishedIsWhole'
  BY <1>4, RemoverFrame DEF PublishedIsWhole
<1>5. ASSUME NEW l \in Reader, ReaderAction(l)
      PROVE  PublishedIsWhole'
  BY <1>5, ReaderFrame DEF PublishedIsWhole
<1> QED BY <1>1, <1>2, <1>3, <1>4, <1>5, NextByActor

(* An adder's own step, when nothing fails: its files are the one it works  *)
(* on, if it has one.                                                       *)
LEMMA OwnedByItself ==
  ASSUME TypeOK, StagedIsOwn, StagingIsOwned, faults = 0, faults' = 0,
         NEW a \in Adder, AdderAction(a), NEW i \in DOMAIN tmp', tmp'[i].by = a
  PROVE  pc'[a] \in AddPending \ {"draw"} /\ loc'[a].id = i
<1> USE DEF Goto, AddPending
<1>a. a \in Proc /\ loc[a] \in Locals
  BY ProcKinds DEF TypeOK
<1>f. ~ Fault
  BY DEF Fault
<1>o. \A j \in DOMAIN tmp : tmp[j].by = a => pc[a] \in AddPending \ {"draw"} /\ loc[a].id = j
  BY DEF StagingIsOwned
<1>1. CASE OpenStaged(a)
  <2>1. PICK id \in Id \ DOMAIN tmp :
          /\ tmp' = Put(tmp, id, [by |-> a, whole |-> FALSE])
          /\ loc' = [loc EXCEPT ![a].id = id]
    BY <1>1 DEF OpenStaged
  <2>2. loc'[a].id = id /\ pc'[a] = "write"
    BY <1>1, <1>a, <2>1 DEF OpenStaged, TypeOK, Locals
  <2>3. i = id
    BY <1>1, <1>o, <2>1 DEF OpenStaged, Put
  <2> QED BY <2>2, <2>3
<1>2. CASE WriteStaged(a)
  <2>1. i \in DOMAIN tmp /\ tmp[i].by = a
    BY <1>2, <1>a DEF WriteStaged, TypeOK, File
  <2> QED BY <1>2, <1>a, <1>o, <2>1 DEF WriteStaged, TypeOK
<1>3. CASE LinkItem(a) \/ LinkTaken(a)
  BY <1>3, <1>a, <1>o DEF LinkItem, LinkTaken, TypeOK
<1>4. CASE RemoveStaged(a)
  BY <1>4, <1>f, <1>o DEF RemoveStaged, Without
<1>5. CASE CallAdd(a) \/ OpenTaken(a)
  BY <1>5, <1>o DEF CallAdd, OpenTaken
<1>6. CASE WriteFails(a) \/ LinkFails(a) \/ Crash(a) \/ CallFails(a)
  BY <1>6, <1>f DEF WriteFails, LinkFails, Crash, CallFails
<1> QED BY <1>1, <1>2, <1>3, <1>4, <1>5, <1>6 DEF AdderAction, AdderStep

LEMMA OwnedStep ==
  ASSUME TypeOK, TypeOK', StagedIsOwn, StagingIsOwned, [Next]_vars
  PROVE  StagingIsOwned'
<1>1. CASE UNCHANGED vars
  BY <1>1 DEF vars, StagingIsOwned
<1> SUFFICES ASSUME Next, faults' = 0, NEW i \in DOMAIN tmp'
             PROVE  pc'[tmp'[i].by] \in AddPending \ {"draw"} /\ loc'[tmp'[i].by].id = i
  BY <1>1 DEF StagingIsOwned
<1>b. tmp'[i].by \in Adder
  BY DEF TypeOK, File
<1>f. faults = 0
  <2>1. faults' = faults \/ faults' = faults + 1
    <3>1. ASSUME NEW a \in Adder, AdderAction(a)
          PROVE  faults' = faults \/ faults' = faults + 1
      BY <3>1 DEF AdderAction, AdderStep, CallAdd, OpenStaged, OpenTaken, WriteStaged,
                  WriteFails, LinkItem, LinkTaken, LinkFails, RemoveStaged, Crash,
                  CallFails, Fault
    <3> QED BY <3>1, NextByActor, RemoverFrame, ReaderFrame
  <2> QED BY <2>1 DEF TypeOK
<1>o. \A j \in DOMAIN tmp :
        pc[tmp[j].by] \in AddPending \ {"draw"} /\ loc[tmp[j].by].id = j
  BY <1>f DEF StagingIsOwned
<1>2. ASSUME NEW a \in Adder, AdderAction(a)
      PROVE  pc'[tmp'[i].by] \in AddPending \ {"draw"} /\ loc'[tmp'[i].by].id = i
  <2>1. CASE tmp'[i].by = a
    BY <1>2, <1>f, <2>1, OwnedByItself
  <2>2. CASE tmp'[i].by # a
    <3>1. i \in DOMAIN tmp
      BY <1>2, <2>2, AdderFrame
    <3>2. tmp[i].by # a
      <4>1. SUFFICES ASSUME tmp[i].by = a PROVE FALSE
        OBVIOUS
      <4>2. CASE WriteStaged(a)
        BY <2>2, <3>1, <4>1, <4>2 DEF WriteStaged, TypeOK, File
      <4>3. CASE OpenStaged(a)
        BY <2>2, <3>1, <4>1, <4>3 DEF OpenStaged, Put
      <4>4. CASE RemoveStaged(a)
        BY <2>2, <3>1, <4>1, <4>4 DEF RemoveStaged, Without
      <4>5. CASE UNCHANGED tmp
        BY <2>2, <4>1, <4>5
      <4> QED
        BY <1>2, <4>2, <4>3, <4>4, <4>5
        DEF AdderAction, AdderStep, CallAdd, OpenTaken, WriteFails, LinkItem, LinkTaken,
            LinkFails, Crash, CallFails
    <3>3. tmp'[i] = tmp[i]
      BY <1>2, <3>1, <3>2, AdderFrame
    <3>4. pc'[tmp[i].by] = pc[tmp[i].by] /\ loc'[tmp[i].by] = loc[tmp[i].by]
      BY <1>2, <1>b, <3>2, <3>3, AdderFrame, ProcKinds
    <3> QED BY <1>o, <3>1, <3>3, <3>4
  <2> QED BY <2>1, <2>2
<1>3. ASSUME NEW r \in Remover, RemoverAction(r)
      PROVE  pc'[tmp'[i].by] \in AddPending \ {"draw"} /\ loc'[tmp'[i].by].id = i
  <2>1. UNCHANGED tmp /\ \A b \in Adder : pc'[b] = pc[b] /\ loc'[b] = loc[b]
    BY <1>3, RemoverFrame, ProcKinds
  <2> QED BY <1>b, <1>o, <2>1
<1>4. ASSUME NEW l \in Reader, ReaderAction(l)
      PROVE  pc'[tmp'[i].by] \in AddPending \ {"draw"} /\ loc'[tmp'[i].by].id = i
  <2>1. UNCHANGED tmp /\ \A b \in Adder : pc'[b] = pc[b] /\ loc'[b] = loc[b]
    BY <1>4, ReaderFrame, ProcKinds
  <2> QED BY <1>b, <1>o, <2>1
<1> QED BY <1>2, <1>3, <1>4, NextByActor

-----------------------------------------------------------------------------
(* An adder publishes once, at its link.                                    *)
Published(a) == \E entry \in linked : entry[1] = a

LEMMA PublishedByItself ==
  ASSUME TypeOK, PublishedOnce, NEW a \in Adder, AdderAction(a)
  PROVE  /\ Published(a)' => pc'[a] \in {"clean", "ok", "crashed"}
         /\ pc'[a] \in {"clean", "ok"} => Published(a)'
         /\ \A b \in Adder \ {a} : Published(b)' <=> Published(b)
<1> USE DEF Goto, AddPending
<1>a. a \in Proc
  BY ProcKinds
<1>o. /\ Published(a) => pc[a] \in {"clean", "ok", "crashed"}
      /\ pc[a] \in {"clean", "ok"} => Published(a)
  BY DEF PublishedOnce, Published
<1>u. linked' = linked => \A b \in Adder : Published(b)' <=> Published(b)
  BY DEF Published
<1>r. Redraw(a) => pc'[a] \in {"draw", "exhausted"}
  BY <1>a DEF Redraw, TypeOK
<1> HIDE DEF Published
<1>1. CASE LinkItem(a)
  <2> DEFINE new == <<a, loc[a].id, tmp[loc[a].id].by>>
  <2>1. linked' = linked \cup {new} /\ new[1] = a
    BY <1>1 DEF LinkItem
  <2> HIDE DEF new
  <2>2. Published(a)' /\ \A b \in Adder \ {a} : Published(b)' <=> Published(b)
    BY <2>1 DEF Published
  <2> QED BY <1>1, <1>a, <2>2 DEF LinkItem, TypeOK
<1>2. CASE RemoveStaged(a)
  <2>1. CASE pc[a] = "taken"
    BY <1>2, <1>o, <1>u, <1>r, <2>1 DEF RemoveStaged
  <2>2. CASE pc[a] \in {"clean", "abandoned"}
    BY <1>2, <1>a, <1>o, <1>u, <2>2 DEF RemoveStaged, TypeOK
  <2> QED BY <1>2, <2>1, <2>2 DEF RemoveStaged
<1>3. CASE OpenStaged(a) \/ OpenTaken(a) \/ WriteStaged(a) \/ LinkTaken(a)
  BY <1>3, <1>a, <1>o, <1>u, <1>r DEF OpenStaged, OpenTaken, WriteStaged, LinkTaken, TypeOK
<1>4. CASE CallAdd(a)
  BY <1>4, <1>a, <1>o, <1>u DEF CallAdd, TypeOK
<1>5. CASE WriteFails(a) \/ LinkFails(a) \/ Crash(a) \/ CallFails(a)
  <2>1. a \notin Reader
    BY ProcKinds
  <2> QED BY <1>5, <1>a, <1>o, <1>u, <2>1 DEF WriteFails, LinkFails, Crash, CallFails, TypeOK
<1> QED BY <1>1, <1>2, <1>3, <1>4, <1>5 DEF AdderAction, AdderStep

LEMMA PublishedOnceStep ==
  ASSUME TypeOK, StagedIsOwn, PublishedOnce, [Next]_vars
  PROVE  PublishedOnce'
<1>o. \A b \in Adder :
        /\ Published(b) => pc[b] \in {"clean", "ok", "crashed"}
        /\ pc[b] \in {"clean", "ok"} => Published(b)
  BY DEF PublishedOnce, Published
<1> SUFFICES \A b \in Adder :
               /\ Published(b)' => pc'[b] \in {"clean", "ok", "crashed"}
               /\ pc'[b] \in {"clean", "ok"} => Published(b)'
  BY DEF PublishedOnce, Published
<1>u. ASSUME UNCHANGED linked, \A b \in Adder : pc'[b] = pc[b]
      PROVE  \A b \in Adder :
               /\ Published(b)' => pc'[b] \in {"clean", "ok", "crashed"}
               /\ pc'[b] \in {"clean", "ok"} => Published(b)'
  BY <1>o, <1>u DEF Published
<1>1. CASE UNCHANGED vars
  BY <1>1, <1>u DEF vars
<1>2. ASSUME NEW a \in Adder, AdderAction(a), NEW b \in Adder
      PROVE  /\ Published(b)' => pc'[b] \in {"clean", "ok", "crashed"}
             /\ pc'[b] \in {"clean", "ok"} => Published(b)'
  <2>1. CASE b = a
    BY <1>2, <2>1, PublishedByItself
  <2>2. CASE b # a
    <3>1. pc'[b] = pc[b]
      BY <1>2, <2>2, AdderFrame, ProcKinds
    <3>2. Published(b)' <=> Published(b)
      BY <1>2, <2>2, PublishedByItself
    <3> QED BY <1>o, <3>1, <3>2
  <2> QED BY <2>1, <2>2
<1>3. ASSUME NEW r \in Remover, RemoverAction(r)
      PROVE  UNCHANGED linked /\ \A b \in Adder : pc'[b] = pc[b]
  BY <1>3, RemoverFrame, ProcKinds
<1>4. ASSUME NEW l \in Reader, ReaderAction(l)
      PROVE  UNCHANGED linked /\ \A b \in Adder : pc'[b] = pc[b]
  BY <1>4, ReaderFrame, ProcKinds
<1> QED BY <1>1, <1>2, <1>3, <1>4, <1>u, NextByActor

-----------------------------------------------------------------------------
(* A remover goes through its arguments.                                    *)
LEMMA RemovesStep ==
  ASSUME TypeOK, StagedIsOwn, RemovesInTurn, [Next]_vars
  PROVE  RemovesInTurn'
<1> USE DEF Goto
<1>u. ASSUME UNCHANGED rm, \A r \in Remover : pc'[r] = pc[r]
      PROVE  RemovesInTurn'
  BY <1>u DEF RemovesInTurn
<1>1. CASE UNCHANGED vars
  BY <1>1, <1>u DEF vars
<1>2. ASSUME NEW a \in Adder, AdderAction(a)
      PROVE  RemovesInTurn'
  BY <1>2, <1>u, AdderFrame, ProcKinds
<1>3. ASSUME NEW l \in Reader, ReaderAction(l)
      PROVE  RemovesInTurn'
  BY <1>3, <1>u, ReaderFrame, ProcKinds
<1>4. ASSUME NEW r \in Remover, RemoverAction(r)
      PROVE  RemovesInTurn'
  <2>r. r \in Proc
    BY ProcKinds
  <2>1. SUFFICES /\ pc'[r] = "idle" =>
                      rm'[r] = [args |-> <<>>, tried |-> 0, failed |-> {}]
                 /\ pc'[r] = "remove" => rm'[r].tried < Len(rm'[r].args)
    <3>1. \A x \in Remover \ {r} : rm'[x] = rm[x] /\ pc'[x] = pc[x]
      BY <1>4, RemoverFrame, ProcKinds
    <3> QED BY <2>1, <3>1 DEF RemovesInTurn
  <2>2. CASE CallRemove(r)
    <3>1. PICK args \in BoundedSeq(Id, MaxArgs) \ {<<>>} : rm' = [rm EXCEPT ![r].args = args]
      BY <2>2 DEF CallRemove
    <3>2. rm[r] \in [args : BoundedSeq(Id, MaxArgs), tried : 0 .. MaxArgs,
                    failed : SUBSET (1 .. MaxArgs)]
          /\ rm[r].tried = 0
      BY <2>2 DEF CallRemove, RemovesInTurn, TypeOK
    <3>3. rm'[r].args = args /\ rm'[r].tried = 0
      BY <3>1, <3>2 DEF TypeOK
    <3>4. Len(args) > 0
      <4>1. PICK m \in 0 .. MaxArgs : args \in [1 .. m -> Id]
        BY ItemBoundAssumption DEF BoundedSeq, SeqOf
      <4>2. args \in Seq(Id) /\ Len(args) = m
        BY <4>1
      <4> QED BY <4>2
    <3> QED BY <2>2, <2>r, <3>3, <3>4 DEF CallRemove, TypeOK
  <2>3. CASE RemoveItem(r)
    <3> DEFINE tried == rm[r].tried + 1
    <3>1. rm'[r].tried = tried /\ rm'[r].args = rm[r].args
      <4>1. rm'[r] = [args   |-> rm[r].args, tried |-> tried,
                     failed |-> IF items' = items THEN rm[r].failed \cup {tried}
                                                  ELSE rm[r].failed]
        BY <2>3, RemoveItemStep
      <4> QED BY <4>1
    <3>2. CASE tried < Len(rm[r].args)
      <4>1. pc'[r] = "remove"
        BY <2>3, <2>r, <3>2, RemoveItemStep DEF TypeOK
      <4> QED BY <3>1, <3>2, <4>1
    <3>3. CASE ~ (tried < Len(rm[r].args))
      <4>1. pc'[r] \in {"ok", "error"}
        BY <2>3, <2>r, <3>3, RemoveItemStep DEF TypeOK
      <4> QED BY <4>1
    <3> QED BY <3>2, <3>3
  <2>4. CASE Crash(r) \/ CallFails(r)
    BY <2>4, <2>r DEF Crash, CallFails, TypeOK
  <2> QED BY <1>4, <2>2, <2>3, <2>4 DEF RemoverAction
<1> QED BY <1>1, <1>2, <1>3, <1>4, NextByActor

-----------------------------------------------------------------------------
(* A listing.                                                               *)
ListerKnows(l) ==
  /\ pc[l] = "idle" => ~ loc[l].lists /\ loc[l].got = {}
  /\ loc[l].lists /\ pc[l] \in ReadPending =>
       /\ seen[l].always \subseteq Entries(items)
       /\ Entries(items) \cup loc[l].got \subseteq seen[l].maybe
       /\ \A entry \in seen[l].always :
            /\ entry \in loc[l].got \/ entry[1] \in loc[l].todo
            /\ pc[l] = "verify" /\ entry[1] = NextName(l) => entry = loc[l].file
  /\ loc[l].lists /\ pc[l] = "ok" =>
       /\ seen[l].always \subseteq loc[l].got
       /\ loc[l].got \subseteq seen[l].maybe

LEMMA ListersKnow ==
  ListingSoFar /\ ListingIsSnapshot <=> \A l \in Reader : ListerKnows(l)
BY DEF ListingSoFar, ListingIsSnapshot, ListerKnows

(* The name a reader is at depends on its own list only.                    *)
LEMMA SameNextName ==
  ASSUME NEW l \in Reader, loc'[l].todo = loc[l].todo
  PROVE  NextName(l)' = NextName(l)
BY DEF NextName

(* Whatever items/ becomes, a lister at work is told of it.                 *)
LEMMA WitnessKeeps ==
  ASSUME TypeOK, NEW l \in Reader, ListerKnows(l), Witness(items'),
         UNCHANGED loc, pc'[l] = pc[l]
  PROVE  ListerKnows(l)'
<1>1. NextName(l)' = NextName(l)
  BY SameNextName
<1>2. seen'[l] = IF loc[l].lists /\ pc[l] \in {"open", "verify"}
                   THEN [maybe  |-> seen[l].maybe \cup Entries(items'),
                         always |-> seen[l].always \cap Entries(items')]
                   ELSE seen[l]
  BY DEF Witness
<1>3. Entries(items)' = Entries(items')
  BY DEF Entries
<1> HIDE DEF Entries, NextName
<1>4. CASE loc[l].lists /\ pc[l] \in {"open", "verify"}
  <2>1. /\ seen'[l].maybe = seen[l].maybe \cup Entries(items')
        /\ seen'[l].always = seen[l].always \cap Entries(items')
    BY <1>2, <1>4
  <2> QED BY <1>1, <1>3, <1>4, <2>1 DEF ListerKnows, ReadPending
<1>5. CASE ~ (loc[l].lists /\ pc[l] \in {"open", "verify"})
  <2>1. seen'[l] = seen[l]
    BY <1>2, <1>5
  <2> QED BY <1>5, <2>1 DEF ListerKnows, ReadPending
<1> QED BY <1>4, <1>5

(* Nothing of a lister changes when neither its variables nor items/ do.    *)
LEMMA ListerUnmoved ==
  ASSUME NEW l \in Reader, ListerKnows(l), UNCHANGED items,
         pc'[l] = pc[l], loc'[l] = loc[l], seen'[l] = seen[l]
  PROVE  ListerKnows(l)'
<1>1. NextName(l)' = NextName(l)
  BY SameNextName
<1> HIDE DEF Entries, NextName
<1>2. Entries(items)' = Entries(items)
  BY DEF Entries
<1> QED BY <1>1, <1>2 DEF ListerKnows

(* What a reader at work knows of the entry under a name that is there.     *)
LEMMA EntryThere ==
  ASSUME NEW i \in DOMAIN items, NEW entry \in Entries(items), entry[1] = i
  PROVE  entry = <<i, items[i].by>>
BY DEF Entries

LEMMA SkipKeeps ==
  ASSUME TypeOK, NEW l \in Reader, ListerKnows(l), Skip(l), loc[l].lists,
         pc[l] \in ReadPending, UNCHANGED <<items, seen>>,
         \A entry \in seen[l].always : entry[1] # NextName(l)
  PROVE  ListerKnows(l)'
<1>1. l \in Proc /\ loc[l] \in Locals
  BY ProcKinds DEF TypeOK
<1> DEFINE name == NextName(l)
<1>2. /\ pc'[l] = "open" /\ loc'[l].got = loc[l].got /\ loc'[l].lists = loc[l].lists
      /\ loc'[l].todo = loc[l].todo \ {name}
  BY <1>1 DEF Skip, Goto, TypeOK, Locals
<1>3. \A entry \in seen[l].always : entry[1] # name
  OBVIOUS
<1>4. Entries(items)' = Entries(items)
  BY DEF Entries
<1> HIDE DEF name, Entries
<1> QED BY <1>2, <1>3, <1>4 DEF ListerKnows, ReadPending

LEMMA ListerByItself ==
  ASSUME TypeOK, NEW l \in Reader, ListerKnows(l), ReaderAction(l)
  PROVE  ListerKnows(l)'
<1> USE DEF Goto, ReadPending
<1>l. l \in Proc /\ loc[l] \in Locals
  BY ProcKinds DEF TypeOK
<1>e. Entries(items)' = Entries(items)
  BY ReaderFrame DEF Entries
<1> HIDE DEF Entries
<1>1. CASE ReadNames(l)
  <2>1. /\ seen' = [seen EXCEPT ![l] = [maybe |-> Entries(items), always |-> Entries(items)]]
        /\ loc' = [loc EXCEPT ![l].lists = TRUE, ![l].todo = DOMAIN items]
    BY <1>1 DEF ReadNames
  <2>2. seen'[l].maybe = Entries(items) /\ seen'[l].always = Entries(items)
    BY <2>1 DEF TypeOK
  <2>3. loc'[l].todo = DOMAIN items /\ loc'[l].got = {}
    BY <1>1, <1>l, <2>1 DEF ReadNames, ListerKnows, TypeOK, Locals
  <2>4. pc'[l] = "open"
    BY <1>1, <1>l DEF ReadNames, TypeOK
  <2>5. \A entry \in Entries(items) : entry[1] \in DOMAIN items
    BY DEF Entries
  <2> QED BY <1>e, <2>2, <2>3, <2>4, <2>5 DEF ListerKnows
<1>2. CASE CallGet(l)
  <2>1. PICK id \in Id : loc' = [loc EXCEPT ![l].todo = {id}]
    BY <1>2 DEF CallGet
  <2>2. loc'[l].lists = loc[l].lists /\ loc'[l].got = loc[l].got
    BY <1>l, <2>1 DEF TypeOK, Locals
  <2>3. ~ loc[l].lists
    BY <1>2 DEF CallGet, ListerKnows
  <2>4. pc'[l] = "open"
    BY <1>2, <1>l DEF CallGet, TypeOK
  <2> QED BY <2>2, <2>3, <2>4 DEF ListerKnows
<1>3. CASE OpenItem(l)
  <2> DEFINE file == <<NextName(l), items[NextName(l)].by>>
  <2>1. loc' = [loc EXCEPT ![l].file = file] /\ NextName(l) \in DOMAIN items
    BY <1>3 DEF OpenItem
  <2>2. \A entry \in Entries(items) : entry[1] = NextName(l) => entry = file
    BY <2>1, EntryThere
  <2> HIDE DEF file
  <2>3. /\ loc'[l].file = file /\ loc'[l].todo = loc[l].todo
        /\ loc'[l].got = loc[l].got /\ loc'[l].lists = loc[l].lists
    BY <1>l, <2>1 DEF TypeOK, Locals
  <2>4. NextName(l)' = NextName(l)
    BY <2>3, SameNextName
  <2>5. pc'[l] = "verify" /\ pc[l] = "open" /\ seen' = seen
    BY <1>3, <1>l DEF OpenItem, TypeOK
  <2> HIDE DEF NextName
  <2> QED BY <1>e, <2>2, <2>3, <2>4, <2>5 DEF ListerKnows
<1>4. CASE ItemGone(l)
  <2>1. CASE loc[l].lists
    <3>1. \A entry \in seen[l].always : entry[1] # NextName(l)
      <4>1. \A entry \in Entries(items) : entry[1] \in DOMAIN items
        BY DEF Entries
      <4> QED BY <1>4, <2>1, <4>1 DEF ItemGone, ListerKnows
    <3> QED BY <1>4, <2>1, <3>1, SkipKeeps DEF ItemGone
  <2>2. CASE ~ loc[l].lists
    BY <1>4, <1>l, <2>2 DEF ItemGone, ListerKnows, TypeOK
  <2> QED BY <2>1, <2>2
<1>5. CASE ItemReplaced(l)
  <2>1. CASE loc[l].lists
    <3>1. \A entry \in seen[l].always : entry[1] # NextName(l)
      <4>1. NextName(l) \in DOMAIN items
            /\ <<NextName(l), items[NextName(l)].by>> # loc[l].file
        BY <1>5 DEF ItemReplaced
      <4>2. \A entry \in seen[l].always :
              /\ entry \in Entries(items)
              /\ entry[1] = NextName(l) => entry = loc[l].file
        BY <1>5, <2>1 DEF ItemReplaced, ListerKnows
      <4> QED BY <4>1, <4>2, EntryThere
    <3> QED BY <1>5, <2>1, <3>1, SkipKeeps DEF ItemReplaced
  <2>2. CASE ~ loc[l].lists
    BY <1>5, <1>l, <2>2 DEF ItemReplaced, ListerKnows, TypeOK
  <2> QED BY <2>1, <2>2
<1>6. CASE ReadItem(l)
  <2> DEFINE file == loc[l].file
             name == NextName(l)
  <2>1. name \in DOMAIN items /\ file = <<name, items[name].by>>
    BY <1>6 DEF ReadItem
  <2>2. file \in Entries(items)
        /\ \A entry \in Entries(items) : entry[1] = name => entry = file
    BY <2>1, EntryThere DEF Entries
  <2>3. loc' = [loc EXCEPT ![l].todo = @ \ {name}, ![l].file = <<>>, ![l].got = @ \cup {file}]
    BY <1>6 DEF ReadItem
  <2>4. pc'[l] = "open" /\ pc[l] = "verify" /\ seen' = seen
    BY <1>6, <1>l DEF ReadItem, TypeOK
  <2> HIDE DEF file, name
  <2>5. /\ loc'[l].todo = loc[l].todo \ {name} /\ loc'[l].got = loc[l].got \cup {file}
        /\ loc'[l].lists = loc[l].lists
    BY <1>l, <2>3 DEF TypeOK, Locals
  <2> QED BY <1>e, <2>2, <2>4, <2>5 DEF ListerKnows
<1>7. CASE ReadDone(l)
  BY <1>7, <1>l DEF ReadDone, ListerKnows, TypeOK
<1>8. CASE CallFails(l)
  BY <1>8, <1>l DEF CallFails, ListerKnows, TypeOK
<1> QED
  BY <1>1, <1>2, <1>3, <1>4, <1>5, <1>6, <1>7, <1>8 DEF ReaderAction, ReaderStep

LEMMA ListingStep ==
  ASSUME TypeOK, StagedIsOwn, ListingSoFar, ListingIsSnapshot, [Next]_vars
  PROVE  ListingSoFar' /\ ListingIsSnapshot'
<1> SUFFICES ASSUME NEW l \in Reader PROVE ListerKnows(l)'
  BY ListersKnow DEF ListingSoFar, ListingIsSnapshot, ListerKnows
<1>k. ListerKnows(l)
  BY ListersKnow
<1>1. CASE UNCHANGED vars
  BY <1>1, <1>k, ListerUnmoved DEF vars
<1>2. ASSUME NEW a \in Adder, AdderAction(a)
      PROVE  ListerKnows(l)'
  <2>1. pc'[l] = pc[l] /\ loc'[l] = loc[l]
    BY <1>2, AdderFrame, ProcKinds
  <2>2. CASE LinkItem(a)
    BY <1>k, <2>1, <2>2, WitnessKeeps DEF LinkItem
  <2>3. CASE ~ LinkItem(a)
    BY <1>2, <1>k, <2>1, <2>3, AdderFrame, ListerUnmoved
  <2> QED BY <2>2, <2>3
<1>3. ASSUME NEW r \in Remover, RemoverAction(r)
      PROVE  ListerKnows(l)'
  <2>1. pc'[l] = pc[l] /\ UNCHANGED loc
    BY <1>3, RemoverFrame, ProcKinds
  <2>2. CASE RemoveItem(r)
    BY <1>k, <2>1, <2>2, WitnessKeeps DEF RemoveItem
  <2>3. CASE ~ RemoveItem(r)
    BY <1>3, <1>k, <2>1, <2>3, RemoverFrame, ListerUnmoved
  <2> QED BY <2>2, <2>3
<1>4. ASSUME NEW k \in Reader, ReaderAction(k)
      PROVE  ListerKnows(l)'
  <2>1. CASE k = l
    BY <1>4, <1>k, <2>1, ListerByItself
  <2>2. CASE k # l
    BY <1>4, <1>k, <2>2, ReaderFrame, ListerUnmoved, ProcKinds
  <2> QED BY <2>1, <2>2
<1> QED BY <1>1, <1>2, <1>3, <1>4, NextByActor

-----------------------------------------------------------------------------
(* The inductive invariant.                                                 *)
LEMMA InvariantInit == Init => ItemInvariant
<1> SUFFICES ASSUME Init PROVE ItemInvariant
  OBVIOUS
<1>1. TypeOK
  BY TypeInit
<1>2. /\ \A p \in Proc : pc[p] = "idle" /\ loc[p] = Start
      /\ \A r \in Remover : rm[r] = [args |-> <<>>, tried |-> 0, failed |-> {}]
      /\ DOMAIN items = {} /\ DOMAIN tmp = {} /\ linked = {}
  BY DEF Init
<1>3. StagedIsOwn /\ PublishedOnce /\ RemovesInTurn
  BY <1>2, ProcKinds DEF StagedIsOwn, PublishedOnce, RemovesInTurn, AddPending
<1>4. ItemsAreWhole
  BY <1>2 DEF ItemsAreWhole, PublishedIsWhole, StagingIsOwned
<1>5. ListingSoFar /\ ListingIsSnapshot
  BY <1>2, ProcKinds DEF ListingSoFar, ListingIsSnapshot, ReadPending, Start
<1> QED BY <1>1, <1>3, <1>4, <1>5 DEF ItemInvariant

LEMMA InvariantStep ==
  ASSUME ItemInvariant, [Next]_vars
  PROVE  ItemInvariant'
<1>0. /\ TypeOK /\ StagedIsOwn /\ PublishedIsWhole /\ StagingIsOwned
      /\ PublishedOnce /\ RemovesInTurn /\ ListingSoFar /\ ListingIsSnapshot
  BY DEF ItemInvariant, ItemsAreWhole
<1>1. TypeOK'
  BY <1>0, TypeStep
<1>2. StagedIsOwn' /\ PublishedOnce' /\ RemovesInTurn'
  BY <1>0, StagedStep, PublishedOnceStep, RemovesStep
<1>3. ItemsAreWhole'
  BY <1>0, <1>1, PublishedStep, OwnedStep DEF ItemsAreWhole
<1>4. ListingSoFar' /\ ListingIsSnapshot'
  BY <1>0, ListingStep
<1> QED BY <1>1, <1>2, <1>3, <1>4 DEF ItemInvariant

(* Whatever adders, removers, listers and getters do to one store at a      *)
(* time, and wherever calls fail or processes die, each knows what it has   *)
(* staged, published, tried and seen.                                       *)
THEOREM ItemsInvariant == Spec => []ItemInvariant
<1>1. ItemInvariant /\ [Next]_vars => ItemInvariant'
  BY InvariantStep
<1> QED BY <1>1, InvariantInit, PTL DEF Spec

(* No published item is half written or holds another adder's text, and no  *)
(* adder removes or forgets a staging file while nothing fails.             *)
THEOREM ItemsStayWhole == Spec => []ItemsAreWhole
BY ItemsInvariant, PTL DEF ItemInvariant

(* A listing that went through saw every item that was there all along, and *)
(* none that never was, however many were added and removed meanwhile.      *)
THEOREM ListingsAreSnapshots == Spec => []ListingIsSnapshot
BY ItemsInvariant, PTL DEF ItemInvariant

-----------------------------------------------------------------------------
(* The store implements the map of ItemSpec.                                *)
Contents == [i \in DOMAIN items |-> items[i].by]
Added == {entry[1] : entry \in linked}
Statuses == [p \in Adder \cup Remover |-> Status(pc[p])]
Asked == [r \in Remover |-> Range(rm[r].args)]
Tried == [r \in Remover |-> {rm[r].args[n] : n \in 1 .. rm[r].tried}]
Told == {r \in Remover : rm[r].failed # {}}

LEMMA MapInit == Init => Map!ItemInit
<1> SUFFICES ASSUME Init PROVE Map!ItemInit
  OBVIOUS
<1>1. Contents = [i \in {} |-> i]
  BY DEF Init, Contents
<1>2. Added = {}
  BY DEF Init, Added
<1>3. Statuses = [p \in Adder \cup Remover |-> "idle"]
  BY DEF Init, Statuses, Status, Proc
<1>4. /\ Asked = [r \in Remover |-> {}] /\ Tried = [r \in Remover |-> {}]
      /\ Told = {}
  BY DEF Init, Asked, Tried, Told, Range
<1> QED
  BY <1>1, <1>2, <1>3, <1>4
  DEF Map!ItemInit, Contents, Added, Statuses, Asked, Tried, Told

(* A step that ends or goes on with one call shows in its status only.      *)
LEMMA StatusOfOne ==
  ASSUME TypeOK, NEW p \in Adder \cup Remover,
         \A q \in Proc \ {p} : pc'[q] = pc[q]
  PROVE  Statuses' = [Statuses EXCEPT ![p] = Status(pc'[p])]
BY DEF Statuses, Proc

LEMMA SameStatus ==
  ASSUME NEW p \in Adder \cup Remover,
         Statuses' = [Statuses EXCEPT ![p] = Status(pc'[p])], Status(pc'[p]) = Status(pc[p])
  PROVE  Statuses' = Statuses
BY DEF Statuses

LEMMA LinkPublishes ==
  ASSUME ItemInvariant, NEW a \in Adder, LinkItem(a)
  PROVE  Map!Publish(a)
<1>a. a \in Proc /\ TypeOK
  BY ProcKinds DEF ItemInvariant
<1> DEFINE id == loc[a].id
<1>1. tmp[id].by = a /\ id \in DOMAIN tmp /\ id \notin DOMAIN items
  BY DEF ItemInvariant, StagedIsOwn, LinkItem, AddPending
<1>2. id \in Id \ DOMAIN Contents
  BY <1>a, <1>1 DEF TypeOK, Contents
<1>3. Contents' = [j \in DOMAIN Contents \cup {id} |-> IF j = id THEN a ELSE Contents[j]]
  <2>1. items' = Put(items, id, tmp[id])
    BY DEF LinkItem
  <2> HIDE DEF id
  <2> QED BY <1>1, <2>1 DEF Contents, Put
<1>4. Added' = Added \cup {a}
  <2> DEFINE new == <<a, id, tmp[id].by>>
  <2>1. linked' = linked \cup {new} /\ new[1] = a
    BY DEF LinkItem
  <2> HIDE DEF new
  <2> QED BY <2>1 DEF Added
<1>5. a \notin Added
  BY DEF Added, ItemInvariant, PublishedOnce, LinkItem
<1>6. Statuses[a] = "busy"
  BY DEF LinkItem, Statuses, Status, Ended
<1>7. Statuses' = Statuses
  <2>1. \A q \in Proc \ {a} : pc'[q] = pc[q]
    BY <1>a DEF LinkItem, Goto, TypeOK
  <2>2. Status(pc'[a]) = Status(pc[a])
    BY <1>a DEF LinkItem, Goto, TypeOK, Status, Ended
  <2> QED BY <1>a, <2>1, <2>2, StatusOfOne, SameStatus
<1>8. Asked' = Asked /\ Tried' = Tried /\ Told' = Told
  BY DEF LinkItem, Asked, Tried, Told
<1> HIDE DEF id
<1> QED
  BY <1>2, <1>3, <1>4, <1>5, <1>6, <1>7, <1>8
  DEF Map!Publish, Contents, Added, Statuses, Asked, Tried, Told

(* Where an adder's step leads that is not its link: on, or to its end, and *)
(* with success only once it published.                                     *)
LEMMA AdderGoesOn ==
  ASSUME ItemInvariant, NEW a \in Adder, AdderAction(a), ~ LinkItem(a)
  PROVE  \/ Status(pc[a]) = "idle" /\ Status(pc'[a]) = "busy"
         \/ Status(pc'[a]) = Status(pc[a])
         \/ Status(pc[a]) = "busy" /\ a \in Added /\ Status(pc'[a]) = "ok"
         \/ /\ Status(pc[a]) \in {"idle", "busy"} /\ a \notin Added
            /\ Status(pc'[a]) = "failed"
         \/ Status(pc[a]) = "busy" /\ Status(pc'[a]) = "dead"
<1> USE DEF Goto, Status, Ended, AddPending
<1>a. a \in Proc /\ a \notin Reader /\ TypeOK
  BY ProcKinds DEF ItemInvariant
<1>o. /\ a \in Added => pc[a] \in {"clean", "ok", "crashed"}
      /\ pc[a] \in {"clean", "ok"} => a \in Added
  BY DEF ItemInvariant, PublishedOnce, Added
<1>r. Redraw(a) => pc'[a] \in {"draw", "exhausted"}
  BY <1>a DEF Redraw, TypeOK
<1>1. CASE CallAdd(a)
  <2>1. pc[a] = "idle" /\ pc'[a] \in {"draw", "refused"}
    BY <1>1, <1>a DEF CallAdd, TypeOK
  <2> QED BY <1>o, <2>1
<1>2. CASE OpenStaged(a) \/ WriteStaged(a) \/ LinkTaken(a) \/ WriteFails(a) \/ LinkFails(a)
  BY <1>2, <1>a DEF OpenStaged, WriteStaged, LinkTaken, WriteFails, LinkFails, TypeOK
<1>3. CASE OpenTaken(a)
  BY <1>3, <1>o, <1>r DEF OpenTaken
<1>4. CASE RemoveStaged(a)
  <2>1. \/ pc[a] = "clean" /\ pc'[a] = "ok"
        \/ pc[a] = "taken" /\ pc'[a] \in {"draw", "exhausted"}
        \/ pc[a] = "abandoned" /\ pc'[a] = "error"
    <3>1. CASE pc[a] = "taken"
      BY <1>4, <1>r, <3>1 DEF RemoveStaged
    <3>2. CASE pc[a] \in {"clean", "abandoned"}
      BY <1>4, <1>a, <3>2 DEF RemoveStaged, TypeOK
    <3> QED BY <1>4, <3>1, <3>2 DEF RemoveStaged
  <2> QED BY <1>o, <2>1
<1>5. CASE Crash(a)
  BY <1>5, <1>a DEF Crash, TypeOK
<1>6. CASE CallFails(a)
  BY <1>6, <1>a, <1>o DEF CallFails, TypeOK
<1> QED
  BY <1>1, <1>2, <1>3, <1>4, <1>5, <1>6 DEF AdderAction, AdderStep

LEMMA AdderStepMaps ==
  ASSUME ItemInvariant, NEW a \in Adder, AdderAction(a)
  PROVE  Map!ItemNext \/ UNCHANGED Map!itemVars
<1>1. CASE LinkItem(a)
  BY <1>1, LinkPublishes DEF Map!ItemNext
<1>2. CASE ~ LinkItem(a)
  <2>1. /\ rm' = rm /\ items' = items /\ linked' = linked
        /\ \A q \in Proc \ {a} : pc'[q] = pc[q]
    BY <1>2, AdderFrame DEF ItemInvariant
  <2>2. Statuses' = [Statuses EXCEPT ![a] = Status(pc'[a])]
    BY <2>1, StatusOfOne DEF ItemInvariant
  <2>3. /\ Contents' = Contents /\ Added' = Added /\ Asked' = Asked
        /\ Tried' = Tried /\ Told' = Told
    BY <2>1 DEF Contents, Added, Asked, Tried, Told
  <2>4. Statuses[a] = Status(pc[a])
    BY DEF Statuses
  <2>5. \/ Status(pc[a]) = "idle" /\ Status(pc'[a]) = "busy"
        \/ Status(pc'[a]) = Status(pc[a])
        \/ Status(pc[a]) = "busy" /\ a \in Added /\ Status(pc'[a]) = "ok"
        \/ /\ Status(pc[a]) \in {"idle", "busy"} /\ a \notin Added
           /\ Status(pc'[a]) = "failed"
        \/ Status(pc[a]) = "busy" /\ Status(pc'[a]) = "dead"
    BY <1>2, AdderGoesOn
  <2>6. CASE Status(pc[a]) = "idle" /\ Status(pc'[a]) = "busy"
    <3>1. Map!Begin(a)
      BY <2>2, <2>3, <2>4, <2>6
      DEF Map!Begin, Contents, Added, Statuses, Asked, Tried, Told
    <3> QED BY <3>1 DEF Map!ItemNext
  <2>7. CASE Status(pc'[a]) = Status(pc[a])
    <3>1. Statuses' = Statuses
      BY <2>2, <2>7, SameStatus
    <3> QED
      BY <2>3, <3>1 DEF Map!itemVars, Contents, Added, Statuses, Asked, Tried, Told
  <2>8. ASSUME \/ Statuses[a] = "busy" /\ a \in Added
                  /\ Statuses' = [Statuses EXCEPT ![a] = "ok"]
               \/ Statuses[a] \in {"idle", "busy"} /\ a \notin Added
                  /\ Statuses' = [Statuses EXCEPT ![a] = "failed"]
               \/ Statuses[a] = "busy" /\ Statuses' = [Statuses EXCEPT ![a] = "dead"]
        PROVE  Map!ItemNext
    <3>1. Map!Finish(a)
      BY <2>3, <2>8 DEF Map!Finish, Contents, Added, Statuses, Asked, Tried, Told
    <3> QED BY <3>1 DEF Map!ItemNext
  <2> QED BY <2>2, <2>4, <2>5, <2>6, <2>7, <2>8
<1> QED BY <1>1, <1>2

(* What a remover was given and has tried, as sets.                         *)
LEMMA RemoverSets ==
  ASSUME TypeOK, NEW r \in Remover
  PROVE  /\ rm[r].args \in BoundedSeq(Id, MaxArgs)
         /\ Len(rm[r].args) \in Nat /\ rm[r].tried \in Nat
         /\ DOMAIN rm[r].args = 1 .. Len(rm[r].args)
         /\ Range(rm[r].args) \subseteq Id
         /\ Asked[r] = Range(rm[r].args)
         /\ Tried[r] = {rm[r].args[n] : n \in 1 .. rm[r].tried}
<1>1. rm[r].args \in BoundedSeq(Id, MaxArgs) /\ rm[r].tried \in Nat
  BY ItemBoundAssumption DEF TypeOK
<1>2. /\ Len(rm[r].args) \in Nat /\ DOMAIN rm[r].args = 1 .. Len(rm[r].args)
      /\ \A i \in 1 .. Len(rm[r].args) : rm[r].args[i] \in Id
  BY <1>1, BoundedSeqIsSeq, ItemBoundAssumption
<1> QED BY <1>1, <1>2 DEF Range, Asked, Tried

LEMMA RemoveDeletes ==
  ASSUME ItemInvariant, NEW r \in Remover, RemoveItem(r)
  PROVE  Map!Delete(r)
<1>0. TypeOK /\ RemovesInTurn /\ r \in Proc
  BY ProcKinds DEF ItemInvariant
<1> DEFINE tried == rm[r].tried + 1
           id == rm[r].args[tried]
<1>1. tried \in 1 .. Len(rm[r].args)
  BY <1>0, RemoveItemStep
<1>2. /\ rm'[r].args = rm[r].args /\ rm'[r].tried = tried
      /\ rm'[r].failed = IF items' = items THEN rm[r].failed \cup {tried}
                                           ELSE rm[r].failed
  <2>1. rm'[r] = [args   |-> rm[r].args, tried |-> tried,
                 failed |-> IF items' = items THEN rm[r].failed \cup {tried}
                                              ELSE rm[r].failed]
    BY <1>0, RemoveItemStep
  <2> HIDE DEF tried
  <2> QED BY <2>1
<1>3. \A x \in Remover \ {r} : rm'[x] = rm[x]
  BY <1>0, RemoverFrame DEF RemoverAction
<1>4. Asked' = Asked
  BY <1>2, <1>3 DEF Asked
<1>5. id \in Asked[r] /\ Tried' = [Tried EXCEPT ![r] = @ \cup {id}]
  <2>1. id \in Asked[r]
    BY <1>0, <1>1, RemoverSets DEF Range
  <2>2. 1 .. tried = (1 .. rm[r].tried) \cup {tried}
    BY <1>0, RemoverSets
  <2> HIDE DEF tried
  <2>3. {rm[r].args[n] : n \in 1 .. tried}
          = {rm[r].args[n] : n \in 1 .. rm[r].tried} \cup {rm[r].args[tried]}
    BY <2>2
  <2>4. Tried' = [x \in Remover |-> IF x = r THEN Tried[r] \cup {id} ELSE Tried[x]]
    BY <1>2, <1>3, <2>3 DEF Tried
  <2> QED BY <2>1, <2>4 DEF Tried
<1>6. \/ /\ id \in DOMAIN Contents
         /\ Contents' = [j \in DOMAIN Contents \ {id} |-> Contents[j]]
         /\ Told' = Told
      \/ Told' = Told \cup {r} /\ Contents' = Contents
  <2> HIDE DEF tried, id
  <2>1. CASE items' = items
    BY <1>2, <1>3, <2>1 DEF Told, Contents
  <2>2. CASE items' # items
    <3>1. items' = Without(items, id)
      BY <2>2 DEF RemoveItem, id, tried
    <3>2. id \in DOMAIN items
      BY <1>0, <2>2, <3>1 DEF Without, TypeOK
    <3>3. Told' = Told
      BY <1>2, <1>3, <2>2 DEF Told
    <3> QED BY <3>1, <3>2, <3>3 DEF Contents, Without
  <2> QED BY <2>1, <2>2
<1>7. Statuses[r] = "busy" /\ Added' = Added
  BY DEF RemoveItem, Statuses, Status, Ended, Added
<1>8. Statuses' = [Statuses EXCEPT ![r] = Status(pc'[r])]
  BY <1>0, RemoverFrame, StatusOfOne DEF RemoverAction
<1>9. /\ Status(pc'[r]) \in {"busy", IF r \in Told' THEN "failed" ELSE "ok"}
      /\ Status(pc'[r]) # "busy" => Tried'[r] = Asked[r]
  <2>t. r \in Told' <=> rm'[r].failed # {}
    BY DEF Told
  <2>1. CASE tried < Len(rm[r].args)
    <3>1. pc'[r] = "remove"
      BY <1>0, <2>1, RemoveItemStep DEF Goto, TypeOK
    <3> QED BY <3>1 DEF Status, Ended
  <2>2. CASE ~ (tried < Len(rm[r].args))
    <3>1. pc'[r] = IF rm'[r].failed = {} THEN "ok" ELSE "error"
      BY <1>0, <2>2, RemoveItemStep DEF Goto, TypeOK
    <3>2. tried = Len(rm[r].args)
      BY <1>0, <1>1, <2>2, RemoverSets
    <3>3. Tried'[r] = {rm[r].args[n] : n \in 1 .. tried}
      BY <1>2 DEF Tried
    <3>4. Asked[r] = {rm[r].args[n] : n \in 1 .. tried}
      BY <1>0, <3>2, RemoverSets DEF Range
    <3> QED BY <2>t, <3>1, <3>3, <3>4 DEF Status, Ended
  <2> QED BY <2>1, <2>2
<1>10. Status(pc'[r]) \in {"busy", "ok", "failed"}
  BY <1>9
<1> HIDE DEF id, tried
<1> QED
  BY <1>4, <1>5, <1>6, <1>7, <1>8, <1>9, <1>10
  DEF Map!Delete, Map!Report, Contents, Added, Statuses, Asked, Tried, Told

LEMMA CallRemoveAsks ==
  ASSUME ItemInvariant, NEW r \in Remover, CallRemove(r)
  PROVE  Map!Ask(r)
<1>0. TypeOK /\ r \in Proc /\ pc[r] = "idle"
  BY ProcKinds DEF ItemInvariant, CallRemove
<1>1. PICK args \in BoundedSeq(Id, MaxArgs) \ {<<>>} : rm' = [rm EXCEPT ![r].args = args]
  BY DEF CallRemove
<1>2. rm[r] \in [args : BoundedSeq(Id, MaxArgs), tried : 0 .. MaxArgs,
                failed : SUBSET (1 .. MaxArgs)]
      /\ rm[r].tried = 0
  BY <1>0 DEF ItemInvariant, RemovesInTurn, TypeOK
<1>3. rm'[r].args = args /\ rm'[r].tried = 0 /\ rm'[r].failed = rm[r].failed
  BY <1>0, <1>1, <1>2 DEF TypeOK
<1>4. \A x \in Remover \ {r} : rm'[x] = rm[x]
  BY <1>0, RemoverFrame DEF RemoverAction
<1>5. Range(args) \in (SUBSET Id) \ {{}}
  <2>1. PICK m \in 0 .. MaxArgs : args \in [1 .. m -> Id]
    BY ItemBoundAssumption DEF BoundedSeq, SeqOf
  <2>2. m # 0
    <3>1. args \in Seq(Id) /\ Len(args) = m
      BY <2>1
    <3> QED BY <3>1
  <2>3. args[1] \in Range(args) /\ Range(args) \subseteq Id
    BY <2>1, <2>2 DEF Range
  <2> QED BY <2>3
<1>6. Asked' = [Asked EXCEPT ![r] = Range(args)]
  BY <1>3, <1>4 DEF Asked
<1>7. Tried' = Tried
  <2>1. {rm'[r].args[n] : n \in 1 .. rm'[r].tried} = {}
        /\ {rm[r].args[n] : n \in 1 .. rm[r].tried} = {}
    BY <1>2, <1>3
  <2>2. \A x \in Remover : {rm'[x].args[n] : n \in 1 .. rm'[x].tried}
                           = {rm[x].args[n] : n \in 1 .. rm[x].tried}
    BY <1>4, <2>1
  <2> QED BY <2>2 DEF Tried
<1>8. Told' = Told /\ Contents' = Contents /\ Added' = Added
  BY <1>3, <1>4 DEF Told, Contents, Added, CallRemove
<1>9. Statuses[r] = "idle"
  BY <1>0 DEF Statuses, Status
<1>10. Statuses' = [Statuses EXCEPT ![r] = "busy"]
  <2>1. Statuses' = [Statuses EXCEPT ![r] = Status(pc'[r])]
    BY <1>0, RemoverFrame, StatusOfOne DEF RemoverAction
  <2>2. Status(pc'[r]) = "busy"
    BY <1>0 DEF CallRemove, Goto, TypeOK, Status, Ended
  <2> QED BY <2>1, <2>2
<1> QED
  BY <1>5, <1>6, <1>7, <1>8, <1>9, <1>10
  DEF Map!Ask, Contents, Added, Statuses, Asked, Tried, Told

LEMMA RemoverStepMaps ==
  ASSUME ItemInvariant, NEW r \in Remover, RemoverAction(r)
  PROVE  Map!ItemNext
<1>1. CASE CallRemove(r)
  BY <1>1, CallRemoveAsks DEF Map!ItemNext
<1>2. CASE RemoveItem(r)
  BY <1>2, RemoveDeletes DEF Map!ItemNext
<1>3. CASE Crash(r)
  <2>1. TypeOK /\ r \in Proc
    BY ProcKinds DEF ItemInvariant
  <2>2. Statuses' = [Statuses EXCEPT ![r] = Status(pc'[r])]
    BY <1>3, <2>1, RemoverFrame, StatusOfOne DEF RemoverAction
  <2>3. Statuses[r] = "busy" /\ Status(pc'[r]) = "dead"
    BY <1>3, <2>1 DEF Crash, Goto, TypeOK, Statuses, Status, Ended, AddPending
  <2>4. /\ Contents' = Contents /\ Added' = Added /\ Asked' = Asked
        /\ Tried' = Tried /\ Told' = Told
    BY <1>3 DEF Crash, Contents, Added, Asked, Tried, Told
  <2>5. Map!Die(r)
    BY <2>2, <2>3, <2>4 DEF Map!Die, Contents, Added, Statuses, Asked, Tried, Told
  <2> QED BY <2>5 DEF Map!ItemNext
<1>4. CASE CallFails(r)
  BY <1>4, ProcKinds DEF CallFails
<1> QED BY <1>1, <1>2, <1>3, <1>4 DEF RemoverAction

LEMMA MapStep ==
  ASSUME ItemInvariant, [Next]_vars
  PROVE  Map!ItemNext \/ UNCHANGED Map!itemVars
<1>1. CASE UNCHANGED vars
  BY <1>1 DEF vars, Map!itemVars
<1>2. ASSUME NEW l \in Reader, ReaderAction(l)
      PROVE  UNCHANGED Map!itemVars
  <2>1. /\ UNCHANGED <<items, rm, linked>>
        /\ \A p \in Adder \cup Remover : pc'[p] = pc[p]
    BY <1>2, ReaderFrame, ProcKinds DEF ItemInvariant
  <2> QED BY <2>1 DEF Map!itemVars
<1> QED BY <1>1, <1>2, NextByActor, AdderStepMaps, RemoverStepMaps

(* The staging and the link implement one atomic addition to a map: an Add  *)
(* that returns success added its reminder once, one that fails not at all, *)
(* and an rm tries every id it was given and fails if one was not removed.  *)
THEOREM StoreImplementsMap == Spec => ImplementsMap
<1>1. ItemInvariant /\ [Next]_vars => [Map!ItemNext]_(Map!itemVars)
  BY MapStep
<1> QED
  BY <1>1, MapInit, ItemsInvariant, PTL DEF Spec, ImplementsMap, Map!ItemMapSpec
=============================================================================
