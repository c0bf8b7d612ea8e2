----------------------------- MODULE ItemStore -----------------------------
(***************************************************************************)
(* The items of one reminder store (internal/store/store.go), shared       *)
(* without a lock by adders (Store.Add), removers (the rm command, which   *)
(* runs Store.Remove on each of its arguments), listers (the items() of    *)
(* Store.List and Store.Reorder) and getters (Store.Get).                  *)
(* An item is written to tmp/<id>, opened with O_EXCL, and published by    *)
(* link(2) to items/<id>.md.  Every system call is one action.             *)
(***************************************************************************)
EXTENDS Naturals, FiniteSets, SequencesExt

CONSTANTS
  Adder, Remover, Reader, \* processes, each makes one call
  Text,          \* what an adder may be called with: fine, blank, huge
  Id,            \* the ids newID may draw: numbers, by their time
  MaxIDAttempts, \* maxIDAttempts
  MaxArgs,       \* bound on the arguments of an rm
  MaxFaults      \* bound on crashes and failed system calls in a behaviour

Proc == Adder \cup Remover \cup Reader

ASSUME ProcAssumption ==
  Adder \cap Remover = {} /\ (Adder \cup Remover) \cap Reader = {}
ASSUME IdAssumption == Id \subseteq Nat
ASSUME TextAssumption == Text \subseteq {"fine", "blank", "huge"}
ASSUME ItemBoundAssumption ==
  MaxIDAttempts \in Nat \ {0} /\ MaxArgs \in Nat \ {0} /\ MaxFaults \in Nat

VARIABLES
  items,   \* items/: id -> the file linked under it
  tmp,     \* tmp/: id -> the staged file
  pc,      \* pc[p]: the next system call of p, or how its call ended
  loc,     \* loc[p]: the local variables of p
  rm,      \* rm[r]: the arguments of r, how many it tried, and its failures
  linked,  \* history: <<adder, id, whose body>> of every link(2) that worked
  seen,    \* history: seen[l]: what was there at some time, and at all times,
           \* since l's directory read
  faults   \* history: crashes and failed system calls so far

vars == <<items, tmp, pc, loc, rm, linked, seen, faults>>

-----------------------------------------------------------------------------
(* A file is told by whose text it holds; it is whole once it was written   *)
(* and closed without an error.                                             *)
File == [by : Adder, whole : BOOLEAN]

Put(files, id, file) ==
  [i \in DOMAIN files \cup {id} |-> IF i = id THEN file ELSE files[i]]

Without(files, id) == [i \in DOMAIN files \ {id} |-> files[i]]

Entries(files) == {<<i, files[i].by>> : i \in DOMAIN files}

Ended == {"ok", "refused", "exhausted", "notfound", "error", "crashed"}

(* For an adder; "taken" and "abandoned" are the removal of the staging     *)
(* file after an EEXIST and after any other error.                          *)
AddPending == {"draw", "write", "link", "clean", "taken", "abandoned"}

ReadPending == {"open", "verify"}

Locals == [id : Id \cup {0}, tries : 0 .. MaxIDAttempts - 1, todo : SUBSET Id,
           lists : BOOLEAN, file : (Id \X Adder) \cup {<<>>},
           got : SUBSET (Id \X Adder)]

Start == [id |-> 0, tries |-> 0, todo |-> {}, lists |-> FALSE,
          file |-> <<>>, got |-> {}]

Goto(p, step) == pc' = [pc EXCEPT ![p] = step]

Fault == faults < MaxFaults /\ faults' = faults + 1

(* items/ became files: what the listers at work may and must report.       *)
Witness(files) ==
  seen' = [l \in Reader |->
    IF loc[l].lists /\ pc[l] \in {"open", "verify"}
      THEN [maybe  |-> seen[l].maybe \cup Entries(files),
            always |-> seen[l].always \cap Entries(files)]
      ELSE seen[l]]

(* Slips a change to the code could make; each breaks a property below.     *)
(* One draw too many.                                                       *)
RedrawOnce(a) ==
  IF loc[a].tries < MaxIDAttempts
    THEN Goto(a, "draw") /\ loc' = [loc EXCEPT ![a].tries = @ + 1, ![a].id = 0]
    ELSE Goto(a, "exhausted") /\ UNCHANGED loc

(* The id is taken, by a staged write or by a published item: a new one is  *)
(* drawn, at most MaxIDAttempts times.                                      *)
Redraw(a) ==
  IF loc[a].tries + 1 < MaxIDAttempts
    THEN Goto(a, "draw") /\ loc' = [loc EXCEPT ![a].tries = @ + 1, ![a].id = 0]
    ELSE Goto(a, "exhausted") /\ UNCHANGED loc

-----------------------------------------------------------------------------
Init ==
  /\ items = [i \in {} |-> i]
  /\ tmp = [i \in {} |-> i]
  /\ pc = [p \in Proc |-> "idle"]
  /\ loc = [p \in Proc |-> Start]
  /\ rm = [r \in Remover |-> [args |-> <<>>, tried |-> 0, failed |-> {}]]
  /\ linked = {}
  /\ seen = [l \in Reader |-> [maybe |-> {}, always |-> {}]]
  /\ faults = 0

(* Add: blank text is ErrEmptyText, and text whose item could not be read   *)
(* back is ErrTextTooLarge, both before anything is written.                *)
CallAdd(a) ==
  /\ pc[a] = "idle"
  /\ \E text \in Text : Goto(a, IF text = "fine" THEN "draw" ELSE "refused")
  /\ UNCHANGED <<items, tmp, loc, rm, linked, seen, faults>>

(* Slip: the staging file is opened without O_EXCL.                         *)
OpenShared(a) ==
  /\ pc[a] = "draw"
  /\ \E id \in Id :
       /\ tmp' = Put(tmp, id, [by |-> a, whole |-> FALSE])
       /\ loc' = [loc EXCEPT ![a].id = id]
  /\ Goto(a, "write")
  /\ UNCHANGED <<items, rm, linked, seen, faults>>

(* newID draws an id whose staging name is free, and O_EXCL takes the name. *)
OpenStaged(a) ==
  /\ pc[a] = "draw"
  /\ \E id \in Id \ DOMAIN tmp :
       /\ tmp' = Put(tmp, id, [by |-> a, whole |-> FALSE])
       /\ loc' = [loc EXCEPT ![a].id = id]
  /\ Goto(a, "write")
  /\ UNCHANGED <<items, rm, linked, seen, faults>>

OpenTaken(a) ==
  /\ pc[a] = "draw"
  /\ Id \cap DOMAIN tmp # {}
  /\ Redraw(a)
  /\ UNCHANGED <<items, tmp, rm, linked, seen, faults>>

(* The body is written and the file closed, each checked.                   *)
WriteStaged(a) ==
  /\ pc[a] = "write"
  /\ tmp' = [tmp EXCEPT ![loc[a].id].whole = TRUE]
  /\ Goto(a, "link")
  /\ UNCHANGED <<items, loc, rm, linked, seen, faults>>

WriteFails(a) ==
  /\ pc[a] = "write"
  /\ Fault
  /\ Goto(a, "abandoned")
  /\ UNCHANGED <<items, tmp, loc, rm, linked, seen>>

LinkItem(a) ==
  /\ pc[a] = "link"
  /\ loc[a].id \notin DOMAIN items
  /\ items' = Put(items, loc[a].id, tmp[loc[a].id])
  /\ linked' = linked \cup {<<a, loc[a].id, tmp[loc[a].id].by>>}
  /\ Witness(items')
  /\ Goto(a, "clean")
  /\ UNCHANGED <<tmp, loc, rm, faults>>

LinkTaken(a) ==
  /\ pc[a] = "link"
  /\ loc[a].id \in DOMAIN items
  /\ Goto(a, "taken")
  /\ UNCHANGED <<items, tmp, loc, rm, linked, seen, faults>>

LinkFails(a) ==
  /\ pc[a] = "link"
  /\ Fault
  /\ Goto(a, "abandoned")
  /\ UNCHANGED <<items, tmp, loc, rm, linked, seen>>

(* Slip: a clean-up that fails is reported as an Add that failed.           *)
RemoveStagedReported(a) ==
  /\ pc[a] \in {"clean", "taken", "abandoned"}
  /\ \/ tmp' = Without(tmp, loc[a].id) /\ UNCHANGED faults
     \/ Fault /\ UNCHANGED tmp
  /\ IF tmp' = tmp THEN Goto(a, "error") /\ UNCHANGED loc
     ELSE CASE pc[a] = "clean"     -> Goto(a, "ok") /\ UNCHANGED loc
            [] pc[a] = "taken"     -> Redraw(a)
            [] pc[a] = "abandoned" -> Goto(a, "error") /\ UNCHANGED loc
  /\ UNCHANGED <<items, rm, linked, seen>>

(* The removal of the staging file, whose error is dropped in every case:   *)
(* once the link landed the item is published and Add returns success.      *)
RemoveStaged(a) ==
  /\ pc[a] \in {"clean", "taken", "abandoned"}
  /\ \/ tmp' = Without(tmp, loc[a].id) /\ UNCHANGED faults
     \/ Fault /\ UNCHANGED tmp
  /\ CASE pc[a] = "clean"     -> Goto(a, "ok") /\ UNCHANGED loc
       [] pc[a] = "taken"     -> Redraw(a)
       [] pc[a] = "abandoned" -> Goto(a, "error") /\ UNCHANGED loc
  /\ UNCHANGED <<items, rm, linked, seen>>

-----------------------------------------------------------------------------
(* rm takes ids as they are typed, the same one twice too.                  *)
CallRemove(r) ==
  /\ pc[r] = "idle"
  /\ \E args \in BoundedSeq(Id, MaxArgs) \ {<<>>} :
       rm' = [rm EXCEPT ![r].args = args]
  /\ Goto(r, "remove")
  /\ UNCHANGED <<items, tmp, loc, linked, seen, faults>>

(* Remove, one unlink, for every argument whatever became of those before   *)
(* it: an id that is not there is a failure, and rm fails if one did.       *)
RemoveItem(r) ==
  LET tried == rm[r].tried + 1
      id    == rm[r].args[tried]
  IN  /\ pc[r] = "remove"
      /\ \/ items' = Without(items, id) /\ UNCHANGED faults
         \/ Fault /\ UNCHANGED items
      /\ rm' = [rm EXCEPT
           ![r].tried = tried,
           ![r].failed = IF items' = items THEN @ \cup {tried} ELSE @]
      /\ Goto(r, IF tried < Len(rm[r].args) THEN "remove"
                 ELSE IF rm'[r].failed = {} THEN "ok" ELSE "error")
      /\ Witness(items')
      /\ UNCHANGED <<tmp, loc, linked>>

-----------------------------------------------------------------------------
(* items(): the directory read.                                             *)
ReadNames(l) ==
  /\ pc[l] = "idle"
  /\ loc' = [loc EXCEPT ![l].lists = TRUE, ![l].todo = DOMAIN items]
  /\ seen' = [seen EXCEPT ![l] = [maybe |-> Entries(items),
                                  always |-> Entries(items)]]
  /\ Goto(l, "open")
  /\ UNCHANGED <<items, tmp, rm, linked, faults>>

CallGet(g) ==
  /\ pc[g] = "idle"
  /\ \E id \in Id : loc' = [loc EXCEPT ![g].todo = {id}]
  /\ Goto(g, "open")
  /\ UNCHANGED <<items, tmp, rm, linked, seen, faults>>

(* The names are read in the order of the directory listing.                *)
NextName(p) ==
  CHOOSE i \in loc[p].todo : \A j \in loc[p].todo : i <= j

OpenItem(p) ==
  /\ pc[p] = "open"
  /\ loc[p].todo # {}
  /\ NextName(p) \in DOMAIN items
  /\ loc' = [loc EXCEPT ![p].file = <<NextName(p), items[NextName(p)].by>>]
  /\ Goto(p, "verify")
  /\ UNCHANGED <<items, tmp, rm, linked, seen, faults>>

(* Slip: the loop goes on at the same name.                                 *)
SkipNothing(p) ==
  /\ loc' = [loc EXCEPT ![p].file = <<>>]
  /\ Goto(p, "open")

(* The name is on to the next, with nothing read under this one.            *)
Skip(p) ==
  /\ loc' = [loc EXCEPT ![p].todo = @ \ {NextName(p)}, ![p].file = <<>>]
  /\ Goto(p, "open")

(* Slip: a vanished item ends the loop.                                     *)
ItemGoneEnds(p) ==
  /\ pc[p] \in {"open", "verify"}
  /\ loc[p].todo # {}
  /\ NextName(p) \notin DOMAIN items
  /\ Goto(p, IF loc[p].lists THEN "ok" ELSE "notfound")
  /\ UNCHANGED <<items, tmp, loc, rm, linked, seen, faults>>

(* The open, or the lstat after it, finds no such name: removed meanwhile.  *)
ItemGone(p) ==
  /\ pc[p] \in {"open", "verify"}
  /\ loc[p].todo # {}
  /\ NextName(p) \notin DOMAIN items
  /\ IF loc[p].lists THEN Skip(p) ELSE Goto(p, "notfound") /\ UNCHANGED loc
  /\ UNCHANGED <<items, tmp, rm, linked, seen, faults>>

(* Another file under the name than the one opened: ErrNotRegular, which    *)
(* items() skips and Get returns.                                           *)
ItemReplaced(p) ==
  /\ pc[p] = "verify"
  /\ NextName(p) \in DOMAIN items
  /\ <<NextName(p), items[NextName(p)].by>> # loc[p].file
  /\ IF loc[p].lists THEN Skip(p) ELSE Goto(p, "error") /\ UNCHANGED loc
  /\ UNCHANGED <<items, tmp, rm, linked, seen, faults>>

ReadItem(p) ==
  /\ pc[p] = "verify"
  /\ NextName(p) \in DOMAIN items
  /\ <<NextName(p), items[NextName(p)].by>> = loc[p].file
  /\ loc' = [loc EXCEPT ![p].todo = @ \ {NextName(p)}, ![p].file = <<>>,
                        ![p].got = @ \cup {loc[p].file}]
  /\ Goto(p, "open")
  /\ UNCHANGED <<items, tmp, rm, linked, seen, faults>>

ReadDone(p) ==
  /\ pc[p] = "open"
  /\ loc[p].todo = {}
  /\ Goto(p, "ok")
  /\ UNCHANGED <<items, tmp, loc, rm, linked, seen, faults>>

-----------------------------------------------------------------------------
(* Any other failed system call ends the call with its error, before        *)
(* anything was staged; and a process can be killed at any time.            *)
CallFails(p) ==
  /\ \/ p \in Adder /\ pc[p] = "draw"
     \/ p \in Reader /\ pc[p] \in {"idle", "open", "verify"}
  /\ Fault
  /\ Goto(p, "error")
  /\ UNCHANGED <<items, tmp, loc, rm, linked, seen>>

Crash(a) ==
  /\ pc[a] \in AddPending \cup {"remove"}
  /\ Fault
  /\ Goto(a, "crashed")
  /\ UNCHANGED <<items, tmp, loc, rm, linked, seen>>

-----------------------------------------------------------------------------
AdderStep(a) ==
  \/ OpenStaged(a) \/ OpenTaken(a) \/ WriteStaged(a)
  \/ LinkItem(a) \/ LinkTaken(a) \/ RemoveStaged(a)

ReaderStep(p) ==
  \/ OpenItem(p) \/ ItemGone(p) \/ ItemReplaced(p) \/ ReadItem(p) \/ ReadDone(p)

Next ==
  \/ \E a \in Adder : CallAdd(a) \/ AdderStep(a) \/ WriteFails(a) \/ LinkFails(a)
                      \/ Crash(a)
  \/ \E r \in Remover : CallRemove(r) \/ RemoveItem(r) \/ Crash(r)
  \/ \E p \in Reader : ReadNames(p) \/ CallGet(p) \/ ReaderStep(p)
  \/ \E p \in Proc : CallFails(p)

Spec == Init /\ [][Next]_vars

(* A process that was started is scheduled until its call ends.             *)
Fairness ==
  /\ \A a \in Adder : WF_vars(AdderStep(a))
  /\ \A r \in Remover : WF_vars(RemoveItem(r))
  /\ \A p \in Reader : WF_vars(ReaderStep(p))

FairSpec == Spec /\ Fairness

-----------------------------------------------------------------------------
TypeOK ==
  /\ DOMAIN items \subseteq Id /\ items \in [DOMAIN items -> File]
  /\ DOMAIN tmp \subseteq Id /\ tmp \in [DOMAIN tmp -> File]
  /\ pc \in [Proc -> {"idle", "remove"} \cup AddPending \cup ReadPending \cup Ended]
  /\ loc \in [Proc -> Locals]
  /\ rm \in [Remover -> [args : BoundedSeq(Id, MaxArgs), tried : 0 .. MaxArgs,
                          failed : SUBSET (1 .. MaxArgs)]]
  /\ \A r \in Remover :
       /\ rm[r].failed \subseteq 1 .. rm[r].tried
       /\ rm[r].tried <= Len(rm[r].args)
  /\ linked \subseteq Adder \X Id \X Adder
  /\ seen \in [Reader -> [maybe : SUBSET (Id \X Adder),
                          always : SUBSET (Id \X Adder)]]
  /\ faults \in Nat

(* What an adder has staged is its own until it is done with it, and it is  *)
(* whole when it is linked.                                                 *)
StagedIsOwn ==
  \A a \in Adder :
    pc[a] \in AddPending \ {"draw"} =>
      /\ loc[a].id \in DOMAIN tmp
      /\ tmp[loc[a].id].by = a
      /\ pc[a] = "link" => tmp[loc[a].id].whole

(* An adder has published if and only if it got past its link.              *)
PublishedOnce ==
  \A a \in Adder :
    LET published == \E entry \in linked : entry[1] = a
    IN  /\ published => pc[a] \in {"clean", "ok", "crashed"}
        /\ pc[a] \in {"clean", "ok"} => published

(* A remover at work has an argument left; one that was not started, none.  *)
RemovesInTurn ==
  \A r \in Remover :
    /\ pc[r] = "idle" => rm[r] = [args |-> <<>>, tried |-> 0, failed |-> {}]
    /\ pc[r] = "remove" => rm[r].tried < Len(rm[r].args)

(* Half-way through a listing: what was there all along is there, and read  *)
(* or still to be read; and nothing was read that never was there.          *)
ListingSoFar ==
  \A l \in Reader :
    /\ pc[l] = "idle" => ~ loc[l].lists /\ loc[l].got = {}
    /\ loc[l].lists /\ pc[l] \in ReadPending =>
         /\ seen[l].always \subseteq Entries(items)
         /\ Entries(items) \cup loc[l].got \subseteq seen[l].maybe
         /\ \A entry \in seen[l].always :
              /\ entry \in loc[l].got \/ entry[1] \in loc[l].todo
              /\ pc[l] = "verify" /\ entry[1] = NextName(l) => entry = loc[l].file

(* A published item is a whole file with its adder's own text: no reader of *)
(* items/ can see one that is still being written or whose write failed,    *)
(* and two adders that draw one id never get their texts mixed up.          *)
PublishedIsWhole ==
  /\ \A i \in DOMAIN items : items[i].whole
  /\ \A entry \in linked : entry[1] = entry[3]

(* Every staging file has a live owner, unless something failed: an adder   *)
(* never removes a staging file of another, nor forgets its own.            *)
StagingIsOwned ==
  faults = 0 =>
    \A i \in DOMAIN tmp :
      pc[tmp[i].by] \in AddPending \ {"draw"} /\ loc[tmp[i].by].id = i

(* Both: from the staging on, an item is its adder's own.                   *)
ItemsAreWhole == PublishedIsWhole /\ StagingIsOwned

(* A listing misses no item that was there all along, and invents none.     *)
ListingIsSnapshot ==
  \A l \in Reader :
    loc[l].lists /\ pc[l] = "ok" =>
      /\ seen[l].always \subseteq loc[l].got
      /\ loc[l].got \subseteq seen[l].maybe

(* What the steps of all processes keep, together with the properties above *)
(* (the inductive invariant of ItemStoreProofs): every process knows what   *)
(* it has staged, published, tried and seen.                                *)
ItemInvariant ==
  /\ TypeOK /\ StagedIsOwn /\ ItemsAreWhole
  /\ PublishedOnce /\ RemovesInTurn
  /\ ListingSoFar /\ ListingIsSnapshot

(* Every call ends: nobody waits for an adder that was killed half-way.     *)
CallsEnd ==
  \A p \in Proc : pc[p] \in AddPending \cup ReadPending \cup {"remove"} ~> pc[p] \in Ended

-----------------------------------------------------------------------------
Status(step) ==
  IF step = "idle" THEN "idle" ELSE IF step = "ok" THEN "ok"
  ELSE IF step = "crashed" THEN "dead"
  ELSE IF step \in Ended THEN "failed" ELSE "busy"

Map == INSTANCE ItemSpec WITH
  contents <- [i \in DOMAIN items |-> items[i].by],
  added    <- {entry[1] : entry \in linked},
  status   <- [p \in Adder \cup Remover |-> Status(pc[p])],
  asked    <- [r \in Remover |-> Range(rm[r].args)],
  tried    <- [r \in Remover |-> {rm[r].args[n] : n \in 1 .. rm[r].tried}],
  told     <- {r \in Remover : rm[r].failed # {}}

(* The staging and the link implement one atomic addition to a map, and no  *)
(* item is ever exchanged under its id.  An Add that returns success added  *)
(* its reminder once, one that returns an error not at all, however its     *)
(* clean-up went.  An rm tries every id it was given, so that "one stale id *)
(* on the line does not silently skip the rest" (reminders.go:114-116), and *)
(* returns success only if it removed them all.                             *)
ImplementsMap == Map!ItemMapSpec
=============================================================================
