----------------------------- MODULE OrderStore -----------------------------
(***************************************************************************)
(* The order documents of one reminder store (internal/store/order.go),    *)
(* shared without a lock by any number of processes: writers that run      *)
(* Store.Reorder and readers that run Store.List.                          *)
(*                                                                         *)
(* order/<N> holds version N of the order; the highest N is current.  A    *)
(* writer reads the head N, computes a new order from it and publishes     *)
(* order/<N+1> with link(2), which fails when the name exists.  Every      *)
(* system call on the shared directories is one action, so that all        *)
(* interleavings of the calls of different processes are behaviours.       *)
(***************************************************************************)
EXTENDS Naturals, Sequences, FiniteSets

CONSTANTS
  Writer,         \* processes that call Reorder once
  Reader,         \* processes that call List once
  Past,           \* stands for whoever published order/1 .. order/InitHead
  Id,             \* reminder ids
  InitItems,      \* the ids that have an item file at the start
  Request,        \* the id lists a Reorder may be called with
  Doc,            \* the contents an order document may have
  Empty,          \* the order of a store that was never reordered
  Merge(_, _, _), \* mergeOrder(front, current, present)
  InitHead,       \* order/1 .. order/InitHead exist at the start ...
  InitDoc,        \* ... with this content
  Keep,           \* orderKeepVersions
  MaxCAS,         \* maxCASAttempts
  MaxHeadReads,   \* maxHeadReads
  MaxFaults       \* bound on crashes and failed system calls in a behaviour

Proc == Writer \cup Reader

ASSUME ProcAssumption == Writer \cap Reader = {} /\ Past \notin Proc
ASSUME ItemAssumption == InitItems \subseteq Id
ASSUME BoundAssumption ==
  /\ Keep \in Nat \ {0}
  /\ MaxCAS \in Nat \ {0}
  /\ MaxHeadReads \in Nat \ {0}
  /\ MaxFaults \in Nat
  /\ InitHead \in Nat
ASSUME DocAssumption ==
  /\ Empty \in Doc
  /\ InitDoc \in Doc
  /\ \A front \in Request, current \in Doc, present \in SUBSET Id :
       Merge(front, current, present) \in Doc

VARIABLES
  order,   \* order/: version -> the file linked under that name
  items,   \* items/: the ids that have a file
  fresh,   \* ids no Add has drawn yet
  tmp,     \* tmp/: the staging files, named by who staged them
  pc,      \* pc[p]: the next system call of p, or how its call ended
  loc,     \* loc[p]: the local variables of p
  ruled,   \* history: the publishes that were the highest version when linked
  faults   \* history: crashes and failed system calls so far

vars == <<order, items, fresh, tmp, pc, loc, ruled, faults>>

-----------------------------------------------------------------------------
(* A file is identified by the publish that made it: the process and its    *)
(* attempt.  Two links of one name are different files, as they are         *)
(* different inodes to os.SameFile.                                         *)
File == [by : Proc \cup {Past}, attempt : Nat, doc : Doc]

NoFile == [by |-> Past, attempt |-> 0, doc |-> Empty]

LinkedAt(files, version, file) ==
  [v \in DOMAIN files \cup {version} |-> IF v = version THEN file ELSE files[v]]

Without(files, version) == [v \in DOMAIN files \ {version} |-> files[v]]

(* orderHeadVersion: the highest version in order/, 0 when there is none.   *)
HighestOf(versions) ==
  CHOOSE h \in {0} \cup versions : \A v \in versions : v <= h

HeadVersion == HighestOf(DOMAIN order)

(* What a store at rest presents.                                           *)
CurrentDoc == IF HeadVersion = 0 THEN Empty ELSE order[HeadVersion].doc

(* How a call ended; "crashed" is a process killed in the middle of it.     *)
Ended == {"ok", "contended", "notfound", "error", "crashed"}

(* The system call p makes next.  "linked", "lost" and "refused" are the    *)
(* deferred removal of the staging file after the link(2) went that way.    *)
Pending == {"scan", "open", "verify", "names", "items", "stage", "link",
            "linked", "lost", "refused", "check", "collect", "prunescan",
            "prune"}

Locals == [req : Request \cup {<<>>}, attempt : Nat, reads : Nat, base : Nat,
           file : File, snap : SUBSET Id, todo : SUBSET Nat]

(* The locals at the top of an iteration of the retry loop.                 *)
Fresh(req, attempt) ==
  [req |-> req, attempt |-> attempt, reads |-> 0, base |-> 0,
   file |-> NoFile, snap |-> {}, todo |-> {}]

(* Slip: the version is taken from the head at the time of the link.        *)
VersionNow(w) == HeadVersion + 1

(* The version this iteration of Reorder tries to publish.                  *)
Version(w) == loc[w].base + 1

Named(request) == {request[i] : i \in DOMAIN request}

Goto(p, step) == pc' = [pc EXCEPT ![p] = step]

(* The call of p returns.  A writer's locals die; a reader's stay, since    *)
(* what it returns is made of them.                                         *)
Return(p, result) ==
  /\ Goto(p, result)
  /\ loc' = IF p \in Writer
              THEN [loc EXCEPT ![p] = Fresh(loc[p].req, loc[p].attempt)]
              ELSE loc

(* A lost race: the next iteration of the retry loop, or ErrContended.      *)
Retry(w) ==
  IF loc[w].attempt + 1 < MaxCAS
    THEN /\ Goto(w, "scan")
         /\ loc' = [loc EXCEPT ![w] = Fresh(loc[w].req, loc[w].attempt + 1)]
    ELSE Return(w, "contended")

Fault == faults < MaxFaults /\ faults' = faults + 1

-----------------------------------------------------------------------------
Init ==
  /\ order = [v \in 1 .. InitHead |-> [NoFile EXCEPT !.doc = InitDoc]]
  /\ items = InitItems
  /\ fresh = Id \ InitItems
  /\ tmp = {}
  /\ pc = [p \in Proc |-> "idle"]
  /\ loc = [p \in Proc |-> Fresh(<<>>, 0)]
  /\ ruled = {}
  /\ faults = 0

(* Reorder(ids): the ids are valid, so checkID lets them pass.              *)
CallReorder(w) ==
  /\ pc[w] = "idle"
  /\ \E request \in Request : loc' = [loc EXCEPT ![w].req = request]
  /\ Goto(w, "scan")
  /\ UNCHANGED <<order, items, fresh, tmp, ruled, faults>>

(* List: the items are read first, the order after them.                    *)
CallList(r) ==
  /\ pc[r] = "idle"
  /\ Goto(r, "names")
  /\ UNCHANGED <<order, items, fresh, tmp, loc, ruled, faults>>

-----------------------------------------------------------------------------
(* orderHead, the steps Reorder and List share.                             *)

(* orderHead has an answer: Reorder goes on to the items, List is done.     *)
HeadKnown(p) == Goto(p, IF p \in Writer THEN "names" ELSE "ok")

(* The directory read finds no version: version 0, no ids.                  *)
ScanEmpty(p) ==
  /\ pc[p] = "scan"
  /\ HeadVersion = 0
  /\ HeadKnown(p)
  /\ loc' = [loc EXCEPT ![p].base = 0, ![p].file = NoFile]
  /\ UNCHANGED <<order, items, fresh, tmp, ruled, faults>>

(* The directory read finds a head, which is opened by its name next.       *)
ScanHead(p) ==
  /\ pc[p] = "scan"
  /\ HeadVersion # 0
  /\ Goto(p, "open")
  /\ loc' = [loc EXCEPT ![p].base = HeadVersion]
  /\ UNCHANGED <<order, items, fresh, tmp, ruled, faults>>

OpenHead(p) ==
  /\ pc[p] = "open"
  /\ loc[p].base \in DOMAIN order
  /\ Goto(p, "verify")
  /\ loc' = [loc EXCEPT ![p].file = order[loc[p].base]]
  /\ UNCHANGED <<order, items, fresh, tmp, ruled, faults>>

(* Slip: the same version is opened again, without counting.                *)
HeadGoneReopens(p) ==
  /\ pc[p] \in {"open", "verify"}
  /\ loc[p].base \notin DOMAIN order
  /\ Goto(p, "open")
  /\ UNCHANGED <<order, items, fresh, tmp, loc, ruled, faults>>

(* The open or the lstat after it finds no such name: the head is read      *)
(* again, at most MaxHeadReads times.                                       *)
HeadGone(p) ==
  /\ pc[p] \in {"open", "verify"}
  /\ loc[p].base \notin DOMAIN order
  /\ IF loc[p].reads + 1 < MaxHeadReads
       THEN /\ Goto(p, "scan")
            /\ loc' = [loc EXCEPT ![p].reads = @ + 1, ![p].base = 0,
                                  ![p].file = NoFile]
       ELSE Return(p, "contended")
  /\ UNCHANGED <<order, items, fresh, tmp, ruled, faults>>

(* lstat finds the file that was opened, and its content is read.           *)
VerifyHead(p) ==
  /\ pc[p] = "verify"
  /\ loc[p].base \in DOMAIN order
  /\ order[loc[p].base] = loc[p].file
  /\ HeadKnown(p)
  /\ UNCHANGED <<order, items, fresh, tmp, loc, ruled, faults>>

(* Another file was linked under the name in between: boundedread answers   *)
(* ErrNotRegular, and the call fails.                                       *)
HeadReplaced(p) ==
  /\ pc[p] = "verify"
  /\ loc[p].base \in DOMAIN order
  /\ order[loc[p].base] # loc[p].file
  /\ Return(p, "error")
  /\ UNCHANGED <<order, items, fresh, tmp, ruled, faults>>

-----------------------------------------------------------------------------
(* items(): the directory read, then one read per name.                     *)
ListNames(p) ==
  /\ pc[p] = "names"
  /\ Goto(p, "items")
  /\ loc' = [loc EXCEPT ![p].snap = items]
  /\ UNCHANGED <<order, items, fresh, tmp, ruled, faults>>

(* An item removed since the directory read is in the map or not, depending *)
(* on which came first, its read or its removal; the others are in.         *)
(* Reorder then refuses ids that are not in the map.                        *)
ReadItems(p) ==
  /\ pc[p] = "items"
  /\ \E present \in SUBSET loc[p].snap :
       /\ loc[p].snap \cap items \subseteq present
       /\ IF p \in Writer /\ ~ (Named(loc[p].req) \subseteq present)
            THEN Return(p, "notfound")
            ELSE /\ Goto(p, IF p \in Writer THEN "stage" ELSE "scan")
                 /\ loc' = [loc EXCEPT ![p].snap = present]
  /\ UNCHANGED <<order, items, fresh, tmp, ruled, faults>>

-----------------------------------------------------------------------------
(* publishOrder: stage writes and closes a file under a random name, which  *)
(* link(2) publishes; the deferred removal follows in every case.           *)
Stage(w) ==
  /\ pc[w] = "stage"
  /\ tmp' = tmp \cup {<<w, loc[w].attempt>>}
  /\ Goto(w, "link")
  /\ UNCHANGED <<order, items, fresh, loc, ruled, faults>>

(* Slip: a rename instead of a link replaces the name.                      *)
LinkOver(w) ==
  /\ pc[w] = "link"
  /\ order' = LinkedAt(order, Version(w),
       [by |-> w, attempt |-> loc[w].attempt,
        doc |-> Merge(loc[w].req, loc[w].file.doc, loc[w].snap)])
  /\ ruled' = IF Version(w) > HeadVersion
                THEN ruled \cup {<<w, loc[w].attempt>>} ELSE ruled
  /\ Goto(w, "linked")
  /\ UNCHANGED <<items, fresh, tmp, loc, faults>>

Link(w) ==
  /\ pc[w] = "link"
  /\ Version(w) \notin DOMAIN order
  /\ order' = LinkedAt(order, Version(w),
       [by |-> w, attempt |-> loc[w].attempt,
        doc |-> Merge(loc[w].req, loc[w].file.doc, loc[w].snap)])
  /\ ruled' = IF Version(w) > HeadVersion
                THEN ruled \cup {<<w, loc[w].attempt>>} ELSE ruled
  /\ Goto(w, "linked")
  /\ UNCHANGED <<items, fresh, tmp, loc, faults>>

(* The name exists: another writer took this version first.                 *)
LinkExists(w) ==
  /\ pc[w] = "link"
  /\ Version(w) \in DOMAIN order
  /\ Goto(w, "lost")
  /\ UNCHANGED <<order, items, fresh, tmp, loc, ruled, faults>>

(* The deferred removal, with which publishOrder returns.  Its error is     *)
(* dropped, so a failed one leaves the staging file behind.                 *)
Unstage(w) ==
  /\ pc[w] \in {"linked", "lost", "refused"}
  /\ \/ tmp' = tmp \ {<<w, loc[w].attempt>>} /\ UNCHANGED faults
     \/ Fault /\ UNCHANGED tmp
  /\ CASE pc[w] = "linked"  -> Goto(w, "check") /\ UNCHANGED loc
       [] pc[w] = "lost"    -> Retry(w)
       [] pc[w] = "refused" -> Return(w, "error")
  /\ UNCHANGED <<order, items, fresh, ruled>>

(* Slip: an own publish that is the head counts as overtaken.               *)
CheckHeadNotStrict(w) ==
  /\ pc[w] = "check"
  /\ Goto(w, IF HeadVersion >= Version(w) THEN "collect" ELSE "prunescan")
  /\ UNCHANGED <<order, items, fresh, tmp, loc, ruled, faults>>

(* Slip: the link alone proves the win.                                     *)
CheckHeadSkipped(w) ==
  /\ pc[w] = "check"
  /\ Goto(w, "prunescan")
  /\ UNCHANGED <<order, items, fresh, tmp, loc, ruled, faults>>

(* tryPublish: a publish counts only if it is still the highest version.    *)
CheckHead(w) ==
  /\ pc[w] = "check"
  /\ Goto(w, IF HeadVersion > Version(w) THEN "collect" ELSE "prunescan")
  /\ UNCHANGED <<order, items, fresh, tmp, loc, ruled, faults>>

(* An overtaken publish is removed, by name, and the race is lost.  The     *)
(* error of the removal is dropped.                                         *)
Collect(w) ==
  /\ pc[w] = "collect"
  /\ \/ order' = Without(order, Version(w)) /\ UNCHANGED faults
     \/ Fault /\ UNCHANGED order
  /\ Retry(w)
  /\ UNCHANGED <<items, fresh, tmp, ruled>>

(* Slips: one version too many is kept; none is.                            *)
PruneScanShort(w) ==
  /\ pc[w] = "prunescan"
  /\ \/ /\ Goto(w, "prune")
        /\ loc' = [loc EXCEPT
             ![w].todo = {v \in DOMAIN order : v + Keep < Version(w)}]
        /\ UNCHANGED faults
     \/ Fault /\ Return(w, "ok")
  /\ UNCHANGED <<order, items, fresh, tmp, ruled>>

PruneScanAll(w) ==
  /\ pc[w] = "prunescan"
  /\ \/ /\ Goto(w, "prune")
        /\ loc' = [loc EXCEPT ![w].todo = {v \in DOMAIN order : v <= Version(w)}]
        /\ UNCHANGED faults
     \/ Fault /\ Return(w, "ok")
  /\ UNCHANGED <<order, items, fresh, tmp, ruled>>

(* pruneOrder: one directory read, then one removal per old version.        *)
PruneScan(w) ==
  /\ pc[w] = "prunescan"
  /\ \/ /\ Goto(w, "prune")
        /\ loc' = [loc EXCEPT
             ![w].todo = {v \in DOMAIN order : v + Keep <= Version(w)}]
        /\ UNCHANGED faults
     \/ Fault /\ Return(w, "ok")
  /\ UNCHANGED <<order, items, fresh, tmp, ruled>>

Prune(w) ==
  /\ pc[w] = "prune"
  /\ \E v \in loc[w].todo :
       /\ loc' = [loc EXCEPT ![w].todo = @ \ {v}]
       /\ \/ order' = Without(order, v) /\ UNCHANGED faults
          \/ Fault /\ UNCHANGED order
  /\ UNCHANGED <<items, fresh, tmp, pc, ruled>>

PruneDone(w) ==
  /\ pc[w] = "prune"
  /\ loc[w].todo = {}
  /\ Return(w, "ok")
  /\ UNCHANGED <<order, items, fresh, tmp, ruled, faults>>

-----------------------------------------------------------------------------
(* A directory read, an open or a staging that fails ends the call with the *)
(* error, also after the link: nothing is undone.                           *)
CallFails(p) ==
  /\ pc[p] \in {"scan", "open", "verify", "names", "items", "stage", "check"}
  /\ Fault
  /\ Return(p, "error")
  /\ UNCHANGED <<order, items, fresh, tmp, ruled>>

(* A link that fails with anything but EEXIST ends the call with the error  *)
(* once the staging file is removed.                                        *)
LinkFails(w) ==
  /\ pc[w] = "link"
  /\ Fault
  /\ Goto(w, "refused")
  /\ UNCHANGED <<order, items, fresh, tmp, loc, ruled>>

(* The process is killed.  What it linked or staged stays.                  *)
Crash(p) ==
  /\ pc[p] \in Pending
  /\ Fault
  /\ Return(p, "crashed")
  /\ UNCHANGED <<order, items, fresh, tmp, ruled>>

(* The rest of the store: an Add publishes one item file, a Remove unlinks  *)
(* one, each in one system call, and neither touches order/.                *)
AddItem(i) ==
  /\ i \in fresh
  /\ fresh' = fresh \ {i}
  /\ items' = items \cup {i}
  /\ UNCHANGED <<order, tmp, pc, loc, ruled, faults>>

RemoveItem(i) ==
  /\ i \in items
  /\ items' = items \ {i}
  /\ UNCHANGED <<order, fresh, tmp, pc, loc, ruled, faults>>

-----------------------------------------------------------------------------
ReadHead(p) ==
  \/ ScanEmpty(p) \/ ScanHead(p) \/ OpenHead(p) \/ HeadGone(p)
  \/ VerifyHead(p) \/ HeadReplaced(p)

WriterStep(w) ==
  \/ ReadHead(w) \/ ListNames(w) \/ ReadItems(w)
  \/ Stage(w) \/ Link(w) \/ LinkExists(w) \/ Unstage(w)
  \/ CheckHead(w) \/ Collect(w)
  \/ PruneScan(w) \/ Prune(w) \/ PruneDone(w)

ReaderStep(r) == ReadHead(r) \/ ListNames(r) \/ ReadItems(r)

Next ==
  \/ \E w \in Writer : CallReorder(w) \/ WriterStep(w) \/ LinkFails(w)
  \/ \E r \in Reader : CallList(r) \/ ReaderStep(r)
  \/ \E p \in Proc : CallFails(p) \/ Crash(p)
  \/ \E i \in Id : AddItem(i) \/ RemoveItem(i)

Spec == Init /\ [][Next]_vars

(* A process that has been started is scheduled until its call ends.        *)
Fairness ==
  /\ \A w \in Writer : WF_vars(WriterStep(w))
  /\ \A r \in Reader : WF_vars(ReaderStep(r))

FairSpec == Spec /\ Fairness

-----------------------------------------------------------------------------
TypeOK ==
  /\ DOMAIN order \subseteq Nat \ {0}
  /\ \A v \in DOMAIN order : order[v] \in File
  /\ items \subseteq Id /\ fresh \subseteq Id
  /\ tmp \subseteq Writer \X Nat
  /\ pc \in [Proc -> {"idle"} \cup Pending \cup Ended]
  /\ loc \in [Proc -> Locals]
  /\ ruled \subseteq Writer \X Nat
  /\ faults \in Nat

AllEnded == \A w \in Writer : pc[w] \in Ended

(* The current version never goes back, although versions are removed all  *)
(* the time: overtaken ones by their publisher, old ones by every winner,   *)
(* and always by name, however long ago the name was decided on.            *)
HeadNeverBack == [][HeadVersion' >= HeadVersion]_vars

(* The current document is never exchanged for another under its name:      *)
(* "if that name is taken" is what the whole protocol stands on, and a      *)
(* freed name can be linked again.                                          *)
HeadNeverReplaced ==
  [][HeadVersion' = HeadVersion /\ HeadVersion # 0
       => order'[HeadVersion] = order[HeadVersion]]_vars

(* Both together: what is current is only ever superseded, by a higher      *)
(* version and as a whole.                                                  *)
HeadOnlySuperseded == HeadNeverBack /\ HeadNeverReplaced

(* A Reorder that returned success did publish the highest version, and not *)
(* merely a file in a hole pruning left below it.                           *)
WonMeansApplied ==
  \A w \in Writer : pc[w] = "ok" => <<w, loc[w].attempt>> \in ruled

(* Whoever published the current version succeeds: it is still in           *)
(* tryPublish for that very attempt, or it returned success.  So when all   *)
(* calls ended and the order changed at all, somebody won: two writers      *)
(* cannot beat each other forever.  Failed system calls are excepted.       *)
HeadOwnerWins ==
  faults = 0 /\ HeadVersion # 0 /\ order[HeadVersion].by # Past =>
    LET w == order[HeadVersion].by IN
      /\ loc[w].attempt = order[HeadVersion].attempt
      /\ pc[w] \in {"linked", "check", "prunescan", "prune", "ok"}

(* A loss costs somebody else a publish: a writer that lost k races was     *)
(* overtaken by k publishes of others, and a call that gave up reading the  *)
(* head saw as many publishes as it made tries.                             *)
LossesPaidFor ==
  /\ \A w \in Writer :
       loc[w].attempt + (IF pc[w] = "contended" THEN 1 ELSE 0)
         <= Cardinality({u \in ruled : u[1] # w})
  /\ \A r \in Reader :
       pc[r] = "contended" => Cardinality(ruled) >= MaxHeadReads

(* Nobody loses for nothing: there is a winner, and the losers lost to it.  *)
SomebodyWins == HeadOwnerWins /\ LossesPaidFor

(* When every reorder ended without a fault, at most Keep versions remain   *)
(* and no staging file does.                                                *)
QuiescentStoreIsClean ==
  AllEnded /\ faults = 0 /\ InitHead <= Keep =>
    Cardinality(DOMAIN order) <= Keep /\ tmp = {}

(* Every call ends, whatever the others do, even if they die half-way: no   *)
(* process ever waits for another.                                          *)
CallsEnd == \A p \in Proc : pc[p] \in Pending ~> pc[p] \in Ended

-----------------------------------------------------------------------------
(* The files implement one atomically updated register.                     *)
Status(step) ==
  IF step = "idle" THEN "idle" ELSE IF step = "ok" THEN "ok"
  ELSE IF step \in Ended THEN "failed" ELSE "busy"

Register == INSTANCE OrderRegister WITH
  InitDoc <- IF InitHead = 0 THEN Empty ELSE InitDoc,
  current <- CurrentDoc,
  asked   <- [w \in Writer |-> loc[w].req],
  applied <- {u[1] : u \in ruled},
  status  <- [w \in Writer |-> Status(pc[w])]

(* Every change of the current order is one reorder applied to the order it *)
(* replaces: no reorder is lost, and none that returned success had no      *)
(* effect.                                                                  *)
ImplementsRegister == Register!RegSpec

-----------------------------------------------------------------------------
(* Why it works.  HighestOf is well defined: order/ is finite.              *)
HeadExists ==
  \E h \in {0} \cup DOMAIN order : \A v \in DOMAIN order : v <= h

(* What p read as the head is still at or below it, and if it is still the  *)
(* head then its content is what p read: a current document never changes.  *)
ReadIsCurrent(p) ==
  /\ loc[p].base <= HeadVersion
  /\ p \in Writer /\ pc[p] \in {"names", "items", "stage", "link"} =>
       (loc[p].base = HeadVersion => loc[p].file.doc = CurrentDoc)

(* Only a request whose ids were all found is staged.                       *)
RequestFound(w) ==
  /\ pc[w] # "idle" => loc[w].req \in Request
  /\ pc[w] \in {"stage", "link"} => Named(loc[w].req) \subseteq loc[w].snap

(* A version w linked is at or below the head.  It is collected only below  *)
(* the head, it counts as won only if it has been the head, and what is     *)
(* pruned is below the head.                                                *)
PublishIsSettled(w) ==
  LET published == <<w, loc[w].attempt>> IN
    /\ pc[w] \in {"linked", "check"} =>
         /\ Version(w) <= HeadVersion
         /\ Version(w) = HeadVersion => published \in ruled
    /\ pc[w] = "collect" => Version(w) < HeadVersion
    /\ pc[w] \in {"prunescan", "prune"} =>
         Version(w) <= HeadVersion /\ published \in ruled
    /\ pc[w] = "prune" => \A v \in loc[w].todo : v < HeadVersion
    /\ pc[w] = "ok" => published \in ruled

(* The inductive invariant of the protocol: what each process believes of   *)
(* the head, however long ago it looked, errs only on the safe side.        *)
BeliefsAreSafe ==
  /\ HeadExists
  /\ \A p \in Proc : ReadIsCurrent(p)
  /\ \A w \in Writer : RequestFound(w) /\ PublishIsSettled(w)

-----------------------------------------------------------------------------
(* Why somebody wins.  The steps of an attempt after its link.              *)
Settling == {"linked", "check", "collect", "prunescan", "prune"}

(* What an attempt leaves in the directories is its own: a file under its   *)
(* version and a mark of having ruled once it has linked, and a staging     *)
(* file only until it is removed.                                           *)
FilesAreOwn ==
  \A v \in DOMAIN order :
    LET w == order[v].by IN
      IF w = Past THEN v <= InitHead
      ELSE /\ w \in Writer /\ order[v].attempt <= loc[w].attempt
           /\ order[v].attempt = loc[w].attempt =>
                /\ pc[w] \in Settling \cup Ended
                /\ pc[w] \in Settling => v = Version(w)

RuledAreOwn ==
  \A u \in ruled :
    /\ u[2] <= loc[u[1]].attempt
    /\ u[2] = loc[u[1]].attempt => pc[u[1]] \in Settling \cup Ended

StagedAreOwn ==
  faults = 0 =>
    \A u \in tmp : u[2] = loc[u[1]].attempt /\ pc[u[1]] \in {"link", "linked", "lost", "refused"}

AttemptsAreOwn == FilesAreOwn /\ RuledAreOwn /\ StagedAreOwn

(* The publishes of others that ruled.                                      *)
RuledByOthers(w) == {u \in ruled : u[1] # w}

(* The highest version w knows to have been the head in this attempt.       *)
Stand(w) == IF <<w, loc[w].attempt>> \in ruled THEN Version(w) ELSE loc[w].base

(* The head has left the attempt of w behind, so that it is lost, or will   *)
(* be unless it fails.                                                      *)
Overtaken(w) ==
  \/ pc[w] \in {"lost", "collect", "contended"}
  \/ /\ pc[w] \in {"open", "verify", "names", "items", "stage", "link", "linked", "check"}
     /\ HeadVersion > Stand(w)

(* Every attempt that was lost or overtaken was so by a publish of somebody *)
(* else, one for each.                                                      *)
LossesAreCounted(w) ==
  /\ loc[w].attempt <= Cardinality(RuledByOthers(w))
  /\ Overtaken(w) => loc[w].attempt + 1 <= Cardinality(RuledByOthers(w))

(* So was every head that was gone when a reader came to it.                *)
OvertakenReading(r) == pc[r] \in {"open", "verify"} /\ HeadVersion > loc[r].base

ReadsAreCounted(r) ==
  /\ loc[r].reads <= Cardinality(ruled)
  /\ OvertakenReading(r) => loc[r].reads + 1 <= Cardinality(ruled)
  /\ pc[r] = "contended" => MaxHeadReads <= Cardinality(ruled)

(* Only a version is opened, never the 0 of a store without one.            *)
BasesAreHeads == \A p \in Proc : pc[p] \in {"open", "verify"} => loc[p].base # 0

LossesSoFar ==
  /\ IsFiniteSet(ruled)
  /\ BasesAreHeads
  /\ \A w \in Writer : LossesAreCounted(w)
  /\ \A r \in Reader : ReadsAreCounted(r)

(* A version that is Keep or more below the head is still to be removed: by *)
(* its publisher, which was overtaken, or by the owner of the head, which   *)
(* has not pruned it yet.                                                   *)
OldOnesGo ==
  faults = 0 /\ InitHead <= Keep =>
    \A v \in DOMAIN order : v + Keep <= HeadVersion =>
      \/ LET w == order[v].by IN
           /\ w # Past /\ order[v].attempt = loc[w].attempt
           /\ pc[w] \in {"linked", "check", "collect"}
      \/ LET h == order[HeadVersion].by IN
           \/ pc[h] \in {"linked", "check", "prunescan"}
           \/ pc[h] = "prune" /\ v \in loc[h].todo

(* The race for the next version, and what it leaves behind.                *)
RaceIsSettled == AttemptsAreOwn /\ HeadOwnerWins /\ LossesSoFar /\ OldOnesGo

(* The inductive invariant of the whole, with the types it stands on.       *)
StoreInvariant == TypeOK /\ BeliefsAreSafe /\ RaceIsSettled

-----------------------------------------------------------------------------
(* tryPublish: "reads only ever take the maximum".  A document a List       *)
(* returned was the current one at some time.  The code does not keep this: *)
(* the name orderHead opens can be linked again below the head in between.  *)
ReadsTakeTheMaximum ==
  \A r \in Reader :
    pc[r] = "ok" /\ loc[r].file.by # Past
      => <<loc[r].file.by, loc[r].file.attempt>> \in ruled
=============================================================================
