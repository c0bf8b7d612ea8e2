----------------------------- MODULE StoreMove -----------------------------
(***************************************************************************)
(* How a command gets at its store: the move of a store that still has the *)
(* name the tool had before (ReconcileLegacyStore in internal/cli/app.go)  *)
(* and the open that follows (internal/store/store.go), command against    *)
(* command.  A sandbox is handed the new root and never moves anything; a  *)
(* binary with the old name still works in the old root.  What happens     *)
(* inside a store is the matter of OrderStore and ItemStore; here a        *)
(* reminder is the process that adds it.                                   *)
(***************************************************************************)
EXTENDS Naturals, FiniteSets

CONSTANTS
  Host,     \* commands on the host
  Sandbox,  \* commands in a sandbox, where CANGA_REMINDERS_DIR is set
  Old,      \* commands of the binary with the old name
  Past,     \* reminders that are there to begin with
  Dir,      \* directories: numbers, enough for every command to make one
  MaxFaults \* bound on failed calls

Process == Host \cup Sandbox \cup Old

NoDir == 0

ASSUME DirAssumption == {1, 2} \subseteq Dir /\ Dir \subseteq Nat \ {NoDir}
ASSUME FaultAssumption == MaxFaults \in Nat
ASSUME ProcessAssumption ==
  Host \cap Sandbox = {} /\ (Host \cup Sandbox) \cap Old = {} /\ Process \cap Past = {}

VARIABLES
  at,      \* at["legacy"], at["current"]: the directories with these names
  made,    \* the directories ever made
  bare,    \* those in which nothing has been made yet
  items,   \* items[d]: the reminders under d
  pc,      \* pc[p]: the call of p that is next, or how p ended
  adds,    \* the commands that turned out to be an add; the others list
  handle,  \* handle[p]: the root p has open
  listing, \* listing[p]: what p lists
  warned,  \* the commands that told of reminders left in the old root
  blind,   \* history: those one of whose questions failed and counted as a no
  before,  \* history: before[p], what there was to list when p started
  faults   \* history: failures so far

tree == <<at, made, bare, items>>

vars == <<tree, pc, adds, handle, listing, warned, blind, before, faults>>

-----------------------------------------------------------------------------
Reminder == Process \cup Past

Name == {"legacy", "current"}

Root(p) == IF p \in Old THEN "legacy" ELSE "current"

Ended == {"done", "failed"}

Goto(p, step) == pc' = [pc EXCEPT ![p] = step]

Fault == faults < MaxFaults /\ faults' = faults + 1

(* A question asked: answered, or it fails and p takes that for a no.       *)
Answered == UNCHANGED <<blind, faults>>

TakenForNo(p) == Fault /\ blind' = blind \cup {p}

Files(name) == IF at[name] = NoDir THEN {} ELSE items[at[name]]

MakeRoot(name) ==
  \E d \in Dir \ made :
    /\ \A other \in Dir \ made : d <= other
    /\ at' = [at EXCEPT ![name] = d]
    /\ made' = made \cup {d}
    /\ bare' = bare \cup {d}

-----------------------------------------------------------------------------
Init ==
  /\ at \in [Name -> {NoDir, 1, 2}]
  /\ at["legacy"] \in {NoDir, 1} /\ at["current"] \in {NoDir, 2}
  /\ made = {1, 2}
  /\ items \in [Dir -> SUBSET Past]
  /\ bare \in SUBSET {1, 2}
  /\ \A d \in Dir : d \in bare \/ d \notin {at["legacy"], at["current"]} => items[d] = {}
  /\ items[1] \cap items[2] = {}
  /\ pc = [p \in Process |-> "idle"]
  /\ adds = {}
  /\ handle = [p \in Process |-> NoDir]
  /\ listing = [p \in Process |-> {}]
  /\ warned = {} /\ blind = {}
  /\ before = [p \in Process |-> {}]
  /\ faults = 0

(* WithStore, WithNewStore: the host's commands reconcile first.            *)
CallCommand(p) ==
  /\ pc[p] = "idle"
  /\ before' = [before EXCEPT ![p] = Files("legacy") \cup Files("current")]
  /\ adds' \in {adds, adds \cup {p}}
  /\ Goto(p, IF p \in Host THEN "legacy" ELSE "base")
  /\ UNCHANGED <<tree, handle, listing, warned, blind, faults>>

(* legacyState, one question at a time.  isDir: is there an old store?      *)
AskLegacy(p) ==
  /\ pc[p] = "legacy"
  /\ \/ /\ Goto(p, IF at["legacy"] = NoDir THEN "base" ELSE "current")
        /\ Answered
     \/ /\ at["legacy"] # NoDir
        /\ Goto(p, "base")
        /\ TakenForNo(p)
  /\ UNCHANGED <<tree, adds, handle, listing, warned, before>>

(* Slip: an old store beside a new one is passed over.                      *)
AskCurrentOnly(p) ==
  /\ pc[p] = "current"
  /\ Goto(p, IF at["current"] = NoDir THEN "mkdir" ELSE "base")
  /\ UNCHANGED <<tree, adds, handle, listing, warned, blind, before, faults>>

(* exists: is there a new one?  A wrong no is put right by the rename.      *)
AskCurrent(p) ==
  /\ pc[p] = "current"
  /\ \/ /\ Goto(p, IF at["current"] = NoDir THEN "mkdir" ELSE "files")
        /\ UNCHANGED faults
     \/ /\ at["current"] # NoDir
        /\ Goto(p, "mkdir")
        /\ Fault
  /\ UNCHANGED <<tree, adds, handle, listing, warned, blind, before>>

(* holdsFiles: the old one is stranded, which is said, and nothing is       *)
(* moved.  What cannot be read is passed over.                              *)
AskFiles(p) ==
  /\ pc[p] = "files"
  /\ \/ /\ warned' = IF Files("legacy") # {} THEN warned \cup {p} ELSE warned
        /\ Answered
     \/ /\ Files("legacy") # {}
        /\ TakenForNo(p)
        /\ UNCHANGED warned
  /\ Goto(p, "base")
  /\ UNCHANGED <<tree, adds, handle, listing, before>>

(* The parent of the new root; then os.Rename looks whether the new root is *)
(* a directory, which it would not replace, and if so whether there is      *)
(* still an old one.                                                        *)
AskTarget(p) ==
  /\ pc[p] = "mkdir"
  /\ \/ /\ Goto(p, IF at["current"] = NoDir THEN "rename"
                   ELSE IF at["legacy"] = NoDir THEN "lost" ELSE "failed")
        /\ UNCHANGED faults
     \/ /\ at["current"] # NoDir
        /\ Goto(p, "rename")
        /\ Fault
  /\ UNCHANGED <<tree, adds, handle, listing, warned, blind, before>>

Moved == /\ at' = [at EXCEPT !["legacy"] = NoDir, !["current"] = at["legacy"]]
         /\ UNCHANGED <<made, bare, items>>

(* Slips: what has the new name is replaced whatever is in it; after a      *)
(* failure the command carries on.                                          *)
RenameOver(p) ==
  /\ pc[p] = "rename"
  /\ IF at["legacy"] = NoDir THEN UNCHANGED tree ELSE Moved
  /\ Goto(p, "base")
  /\ UNCHANGED <<adds, handle, listing, warned, blind, before, faults>>

(* rename(2) replaces an empty directory.                                   *)
Rename(p) ==
  /\ pc[p] = "rename"
  /\ \/ /\ at["legacy"] # NoDir
        /\ at["current"] \in bare \cup {NoDir}
        /\ Moved
        /\ Goto(p, "base")
     \/ /\ at["legacy"] # NoDir
        /\ at["current"] \notin bare \cup {NoDir}
        /\ Goto(p, "failed")
        /\ UNCHANGED tree
     \/ /\ at["legacy"] = NoDir
        /\ Goto(p, "lost")
        /\ UNCHANGED tree
  /\ UNCHANGED <<adds, handle, listing, warned, blind, before, faults>>

(* Losing the race to another move of the same store is fine, if the store  *)
(* is now where it should be.                                               *)
AskAgain(p) ==
  /\ pc[p] = "lost"
  /\ Goto(p, IF at["current"] = NoDir THEN "failed" ELSE "base")
  /\ UNCHANGED <<tree, adds, handle, listing, warned, blind, before, faults>>

(* open: only an add makes the root.                                        *)
MakeBase(p) ==
  /\ pc[p] = "base"
  /\ IF p \in adds /\ at[Root(p)] = NoDir
     THEN MakeRoot(Root(p)) /\ UNCHANGED items ELSE UNCHANGED tree
  /\ Goto(p, "root")
  /\ UNCHANGED <<adds, handle, listing, warned, blind, before, faults>>

(* Slip: a root that is not there is taken for one that is.                 *)
OpenRootMissing(p) ==
  /\ pc[p] = "root"
  /\ handle' = [handle EXCEPT ![p] = at[Root(p)]]
  /\ Goto(p, "enter")
  /\ UNCHANGED <<tree, adds, listing, warned, blind, before, faults>>

(* OpenRoot: no root, no store, and nothing to list.                        *)
OpenRoot(p) ==
  /\ pc[p] = "root"
  /\ handle' = [handle EXCEPT ![p] = at[Root(p)]]
  /\ Goto(p, IF at[Root(p)] # NoDir THEN "enter"
             ELSE IF p \in adds THEN "failed" ELSE "done")
  /\ UNCHANGED <<tree, adds, listing, warned, blind, before, faults>>

(* descend below the open root: an add makes what is missing, but not in a  *)
(* directory that was replaced.                                             *)
Enter(p) ==
  LET d == handle[p] IN
    /\ pc[p] = "enter"
    /\ \/ /\ p \in adds /\ d \in {at["legacy"], at["current"]}
          /\ bare' = bare \ {d}
          /\ Goto(p, "work")
       \/ /\ p \in adds /\ d \notin {at["legacy"], at["current"]}
          /\ Goto(p, "failed")
          /\ UNCHANGED bare
       \/ /\ p \notin adds
          /\ Goto(p, IF d \in bare THEN "done" ELSE "work")
          /\ UNCHANGED bare
    /\ UNCHANGED <<at, made, items, adds, handle, listing, warned, blind, before, faults>>

(* The command itself, in the root it holds, whatever its name is by now.   *)
Work(p) ==
  LET d == handle[p] IN
    /\ pc[p] = "work"
    /\ IF p \in adds
       THEN items' = [items EXCEPT ![d] = @ \cup {p}] /\ UNCHANGED listing
       ELSE listing' = [listing EXCEPT ![p] = items[d]] /\ UNCHANGED items
    /\ Goto(p, "done")
    /\ UNCHANGED <<at, made, bare, adds, handle, warned, blind, before, faults>>

(* Any other call that fails stops the command, in the move and in the      *)
(* open.                                                                    *)
CallFails(p) ==
  /\ pc[p] \in {"mkdir", "rename", "lost", "base", "root", "enter", "work"}
  /\ Fault
  /\ Goto(p, "failed")
  /\ UNCHANGED <<tree, adds, handle, listing, warned, blind, before>>

Next ==
  \E p \in Process :
    \/ CallCommand(p) \/ AskLegacy(p) \/ AskCurrent(p) \/ AskFiles(p)
    \/ AskTarget(p) \/ Rename(p) \/ AskAgain(p) \/ MakeBase(p) \/ OpenRoot(p)
    \/ Enter(p) \/ Work(p) \/ CallFails(p)

Spec == Init /\ [][Next]_vars

-----------------------------------------------------------------------------
(* Every variable stays in its domain; a command has a root open while it   *)
(* works.                                                                   *)
TypeOK ==
  /\ at \in [Name -> made \cup {NoDir}]
  /\ made \in SUBSET Dir /\ bare \in SUBSET made
  /\ items \in [Dir -> SUBSET Reminder]
  /\ pc \in [Process -> Ended \cup {"idle", "legacy", "current", "files",
               "mkdir", "rename", "lost", "base", "root", "enter", "work"}]
  /\ adds \in SUBSET Process /\ warned \in SUBSET Host /\ blind \in SUBSET Host
  /\ handle \in [Process -> made \cup {NoDir}]
  /\ \A p \in Process : pc[p] \in {"enter", "work"} => handle[p] # NoDir
  /\ listing \in [Process -> SUBSET Reminder]
  /\ before \in [Process -> SUBSET Reminder] /\ faults \in 0 .. MaxFaults

(* What was there and what an add has added stays under one of the two      *)
(* roots, whoever moves the store under whoever has it open.                *)
NothingLost ==
  \A p \in Process :
    /\ before[p] \subseteq Files("legacy") \cup Files("current")
    /\ pc[p] = "done" /\ p \in adds => p \in Files("legacy") \cup Files("current")

(* A listing on the host is complete, or says that it is not (app.go:229-232, *)
(* 319-322): reminders never vanish from it in silence, unless a question   *)
(* about the old store failed, which nothing tells from a no.               *)
MissingIsTold ==
  \A p \in Host \ (adds \cup blind) :
    pc[p] = "done" => before[p] \subseteq listing[p] \/ p \in warned

(* As long as only hosts act and none of them was told a wrong no.          *)
HostsAlone ==
  (\A p \in Old \cup Sandbox : pc[p] = "idle") /\ blind \cap adds = {}

(* An old store with reminders in it is moved or reported, never passed     *)
(* over: a host's add does not bring a new root into being beside it        *)
(* (app.go:225-227).  Only what the old binary or a sandbox did meanwhile   *)
(* can lead there, or an add that asked for the old store in vain.          *)
HostsStrandNothing ==
  HostsAlone /\ at["current"] \notin {NoDir, 2} => Files("legacy") = {}

(* Both: no reminder drops out of sight unannounced.                        *)
NothingVanishes == MissingIsTold /\ HostsStrandNothing

-----------------------------------------------------------------------------
(* A directory in which nothing was made has nothing in it, nor has one     *)
(* that is still to be made; an add works in one that is not replaced.      *)
WorkIsInReach ==
  /\ \A d \in bare \cup (Dir \ made) : items[d] = {}
  /\ \A p \in adds :
       pc[p] = "work" => handle[p] \in {at["legacy"], at["current"]} \ bare

(* What a listing on the host has to hold is where it looks next, the user  *)
(* has been told, or a question failed.                                     *)
StillInSight ==
  \A p \in Host \ (adds \cup warned \cup blind) :
    /\ pc[p] \in {"lost", "base", "root"} => before[p] \subseteq Files("current")
    /\ pc[p] \in {"enter", "work"} => before[p] \subseteq items[handle[p]]
    /\ pc[p] = "done" => before[p] \subseteq listing[p]

(* Only hosts move a store, and as long as nobody else acts there is no old *)
(* root any more where a host makes a new one.                              *)
HostsGoInOrder ==
  /\ \A p \in Process :
       /\ pc[p] \in {"legacy", "current", "files", "mkdir", "rename", "lost"} => p \in Host
       /\ pc[p] = "files" => at["current"] # NoDir
  /\ HostsAlone =>
       /\ \A p \in Host \cap adds :
            pc[p] = "base" => at["legacy"] = NoDir \/ at["current"] # NoDir
       /\ at["current"] \in {NoDir, 2} \/ at["legacy"] = NoDir

(* The type invariant and what makes it and the properties above inductive. *)
MoveInvariant ==
  TypeOK /\ WorkIsInReach /\ StillInSight /\ HostsGoInOrder /\ NothingLost
=============================================================================
