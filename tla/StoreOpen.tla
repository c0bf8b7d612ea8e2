----------------------------- MODULE StoreOpen -----------------------------
(***************************************************************************)
(* How a store is opened (open, descend, enter and checkRoot in            *)
(* internal/store/store.go): from the base down, one directory at a time,  *)
(* each relative to the open one above it, created on the way by an add    *)
(* and never reached through a link.  Every system call is one action.     *)
(* Meanwhile other commands open and create stores, and whoever shares the *)
(* directories rearranges them: a directory keeps its identity (a number,  *)
(* its inode) wherever it is moved, and its name may come to lead          *)
(* elsewhere.                                                              *)
(***************************************************************************)
EXTENDS Naturals, Sequences, FiniteSets

CONSTANTS
  Process,   \* commands that open a store
  Name,      \* names of directories
  Key,       \* the stores they may open, as paths of two names below the base
  Dir,       \* directories: numbers, enough for every command to make two
  Start,     \* the trees to begin with, as records of entry, made and holds
  MaxSwaps,  \* bound on the changes others make to the directories
  MaxFaults  \* bound on failed calls

Base == 0

ASSUME DirAssumption == Dir \subseteq Nat /\ Base \in Dir
ASSUME KeyAssumption == Key \subseteq Name \X Name
ASSUME BoundAssumption == MaxSwaps \in Nat /\ MaxFaults \in Nat

VARIABLES
  entry,   \* entry[<<d, n>>]: what has the name n in the directory d
  made,    \* the directories there are; the base may be missing at first
  holds,   \* holds[d]: which of items/, tmp/ and order/ are in d
  pc,      \* pc[p]: the call of p that is next, or how p ended
  create,  \* the commands that may create: adds
  key,     \* key[p]: the store p opens
  chain,   \* chain[p]: the directories p went through, the last one open
  child,   \* child[p]: the one it has opened below it, before the check
  was,     \* history: was[p], the directories that had the name p is at,
           \* since p has its parent open
  stood,   \* history: the commands for which it was a link all that time
  done,    \* history: done[p], the commands that were done when p began
  swaps,   \* history: changes by others
  faults   \* history: failures

tree == <<entry, made, holds>>
history == <<was, stood, done, swaps, faults>>
vars == <<tree, pc, create, key, chain, child, history>>

-----------------------------------------------------------------------------
Absent == <<"absent", 0>>

Directory(d) == <<"dir", d>>

(* A link inside a directory to another name in it.  os.Root refuses to     *)
(* follow one that leads out of the open directory.                         *)
LinkTo(n) == <<"link", n>>

Place == Dir \X Name

Entry == {Absent} \cup {Directory(d) : d \in Dir} \cup {LinkTo(n) : n \in Name}

IsLink(at) == entry[at][1] = "link"

Directories == {at \in Place : entry[at][1] = "dir"}

(* Where the links that start at the name n in d end: the one name that is  *)
(* no link among those they go through, or none if they go in a circle.     *)
LinksEnd(d, n) ==
  {m \in Name :
     /\ ~ IsLink(<<d, m>>)
     /\ \A through \in SUBSET Name :
          /\ n \in through
          /\ \A x \in through : IsLink(<<d, x>>) => entry[<<d, x>>][2] \in through
          => m \in through}

(* What the name n in d leads to, with links followed.                      *)
Leads(d, n) ==
  IF LinksEnd(d, n) = {} THEN Absent
  ELSE entry[<<d, CHOOSE m \in LinksEnd(d, n) : TRUE>>]

Sub == <<"items", "tmp", "order">>

Parts == {Sub[i] : i \in DOMAIN Sub}

ASSUME StartAssumption ==
  \A t \in Start :
    /\ t.entry \in [Place -> Entry] /\ t.made \in SUBSET Dir
    /\ t.holds \in [Dir -> SUBSET Parts]
    /\ \A a, b \in Place :
         t.entry[a][1] = "dir" =>
           t.entry[a][2] \in t.made \ {Base} /\ (t.entry[a] = t.entry[b] => a = b)

Ended == {"done", "nostore", "symlinked", "replaced", "failed"}

Active == {p \in Process : pc[p] \notin Ended \cup {"idle"}}

Goto(p, step) == pc' = [pc EXCEPT ![p] = step]

Fault == faults < MaxFaults /\ faults' = faults + 1

(* Where p is: the open directory, and the name it enters next.             *)
At(p) == <<chain[p][Len(chain[p])], key[p][Len(chain[p])]>>

(* The commands on their way through the tree.                              *)
Searching == {p \in Process : pc[p] \in {"lstat", "mkdir", "again", "open", "check"}}

DirectoryAt(entries, at) ==
  IF entries[at][1] = "dir" THEN {entries[at][2]} ELSE {}

(* p has the parent of a name open, and what has the name now is recorded.  *)
Arrive(p, at) ==
  /\ was' = [was EXCEPT ![p] = DirectoryAt(entry, at)]
  /\ stood' = IF IsLink(at) THEN stood \cup {p} ELSE stood \ {p}

(* Names changed under the commands on their way.                           *)
Observed ==
  /\ was' = [p \in Process |-> IF p \in Searching
                               THEN was[p] \cup DirectoryAt(entry', At(p)) ELSE was[p]]
  /\ stood' = {p \in stood : p \in Searching => entry'[At(p)][1] = "link"}

(* Slip: the directory that did not pass the check stays open.              *)
RefuseOpen(p, outcome) ==
  /\ Goto(p, outcome)
  /\ chain' = [chain EXCEPT ![p] = <<Base>>]
  /\ was' = [was EXCEPT ![p] = {}]
  /\ UNCHANGED <<child, stood>>

(* The open ends there, with every directory closed.                        *)
Refuse(p, outcome) ==
  /\ Goto(p, outcome)
  /\ chain' = [chain EXCEPT ![p] = <<Base>>]
  /\ child' = [child EXCEPT ![p] = Base]
  /\ was' = [was EXCEPT ![p] = {}]
  /\ UNCHANGED stood

(* The open goes on where it is.                                            *)
Proceed(p, step) == Goto(p, step) /\ UNCHANGED <<chain, child, was, stood>>

NewDirectory(at) ==
  \E d \in Dir \ made :
    /\ \A other \in Dir \ made : d <= other
    /\ entry' = [entry EXCEPT ![at] = Directory(d)]
    /\ made' = made \cup {d}

-----------------------------------------------------------------------------
Init ==
  /\ \E t \in Start : entry = t.entry /\ made = t.made /\ holds = t.holds
  /\ pc = [p \in Process |-> "idle"]
  /\ create = {}
  /\ key \in [Process -> Key]
  /\ chain = [p \in Process |-> <<Base>>]
  /\ child = [p \in Process |-> Base]
  /\ was = [p \in Process |-> {}]
  /\ stood = {}
  /\ done = [p \in Process |-> {}]
  /\ swaps = 0 /\ faults = 0

(* Open (an add) or OpenExisting (every other command).                     *)
CallOpen(p) ==
  /\ pc[p] = "idle"
  /\ \/ Goto(p, "mkbase") /\ create' = create \cup {p}
     \/ Goto(p, "base") /\ UNCHANGED create
  /\ done' = [done EXCEPT ![p] = {q \in Process : pc[q] = "done"}]
  /\ UNCHANGED <<tree, key, chain, child, was, stood, swaps, faults>>

(* os.MkdirAll, which is content with a base that is there.                 *)
MakeBase(p) ==
  /\ pc[p] = "mkbase"
  /\ made' = made \cup {Base}
  /\ Goto(p, "base")
  /\ UNCHANGED <<entry, holds, create, key, chain, child, history>>

OpenBase(p) ==
  /\ pc[p] = "base"
  /\ IF Base \in made
       THEN Goto(p, "lstat") /\ Arrive(p, At(p)) /\ UNCHANGED <<chain, child>>
       ELSE Refuse(p, "nostore")
  /\ UNCHANGED <<tree, create, key, done, swaps, faults>>

-----------------------------------------------------------------------------
(* Slip: a link is followed before it is looked at (Stat for Lstat).        *)
StatEntry(p) ==
  /\ pc[p] = "lstat"
  /\ IF Leads(At(p)[1], At(p)[2]) # Absent THEN Proceed(p, "open")
     ELSE IF p \in create THEN Proceed(p, "mkdir") ELSE Refuse(p, "nostore")
  /\ UNCHANGED <<tree, create, key, done, swaps, faults>>

(* enter: what is there before the open.                                    *)
LstatEntry(p) ==
  /\ pc[p] = "lstat"
  /\ IF IsLink(At(p)) THEN Refuse(p, "symlinked")
     ELSE IF entry[At(p)] # Absent THEN Proceed(p, "open")
     ELSE IF p \in create THEN Proceed(p, "mkdir") ELSE Refuse(p, "nostore")
  /\ UNCHANGED <<tree, create, key, done, swaps, faults>>

(* Slip: EEXIST is an error like any other.                                 *)
MakeEntryAlone(p) ==
  /\ pc[p] = "mkdir"
  /\ IF entry[At(p)] = Absent
       THEN /\ NewDirectory(At(p))
            /\ Goto(p, "again")
            /\ Observed
            /\ UNCHANGED <<chain, child>>
       ELSE Refuse(p, "failed") /\ UNCHANGED <<entry, made>>
  /\ UNCHANGED <<holds, create, key, done, swaps, faults>>

(* Mkdir: somebody may have made it by now, which is as good.               *)
MakeEntry(p) ==
  /\ pc[p] = "mkdir"
  /\ IF entry[At(p)] = Absent THEN NewDirectory(At(p)) ELSE UNCHANGED <<entry, made>>
  /\ Goto(p, "again")
  /\ Observed
  /\ UNCHANGED <<holds, create, key, chain, child, done, swaps, faults>>

(* The second look, at what was made, by whomever.                          *)
LstatMade(p) ==
  /\ pc[p] = "again"
  /\ IF entry[At(p)] = Absent THEN Refuse(p, "failed")
     ELSE IF IsLink(At(p)) THEN Refuse(p, "symlinked") ELSE Proceed(p, "open")
  /\ UNCHANGED <<tree, create, key, done, swaps, faults>>

(* OpenRoot follows a link that stays inside.                               *)
OpenEntry(p) ==
  /\ pc[p] = "open"
  /\ LET found == Leads(At(p)[1], At(p)[2]) IN
       IF found = Absent THEN Refuse(p, "failed")
       ELSE /\ Goto(p, "check")
            /\ child' = [child EXCEPT ![p] = found[2]]
            /\ UNCHANGED <<chain, was, stood>>
  /\ UNCHANGED <<tree, create, key, done, swaps, faults>>

(* The level below, or the parts of the store directory.                    *)
Enter(p) ==
  /\ chain' = [chain EXCEPT ![p] = Append(@, child[p])]
  /\ child' = [child EXCEPT ![p] = Base]
  /\ IF Len(chain[p]) < Len(key[p])
       THEN /\ Goto(p, "lstat")
            /\ Arrive(p, <<child[p], key[p][Len(chain[p]) + 1]>>)
       ELSE /\ Goto(p, Sub[1])
            /\ was' = [was EXCEPT ![p] = {}] /\ UNCHANGED stood

(* Slip: a name that is no link is enough.                                  *)
CheckNoLink(p) ==
  /\ pc[p] = "check"
  /\ IF entry[At(p)] = Absent THEN Refuse(p, "failed")
     ELSE IF IsLink(At(p)) THEN Refuse(p, "symlinked") ELSE Enter(p)
  /\ UNCHANGED <<tree, create, key, done, swaps, faults>>

(* checkRoot: the open directory is the one that has the name now.          *)
CheckRoot(p) ==
  /\ pc[p] = "check"
  /\ IF entry[At(p)] = Absent THEN Refuse(p, "failed")
     ELSE IF IsLink(At(p)) THEN Refuse(p, "symlinked")
     ELSE IF entry[At(p)] # Directory(child[p]) THEN Refuse(p, "replaced")
     ELSE Enter(p)
  /\ UNCHANGED <<tree, create, key, done, swaps, faults>>

(* items/, tmp/ and order/, also for a command that may not create a store: *)
(* an incomplete one is repaired.                                           *)
MakePart(p) ==
  \E i \in DOMAIN Sub :
    /\ pc[p] = Sub[i]
    /\ holds' = [holds EXCEPT ![chain[p][Len(chain[p])]] = @ \cup {Sub[i]}]
    /\ Goto(p, IF i = Len(Sub) THEN "done" ELSE Sub[i + 1])
    /\ UNCHANGED <<entry, made, create, key, chain, child, history>>

(* Any call may fail, which ends the open.  (A command that is killed takes *)
(* no further step.)                                                        *)
CallFails(p) ==
  /\ p \in Active
  /\ Fault
  /\ Refuse(p, "failed")
  /\ UNCHANGED <<tree, create, key, done, swaps>>

-----------------------------------------------------------------------------
(* Others move a directory or a link aside or back, put a link where        *)
(* nothing is, and take one away: in a directory a command has just open,   *)
(* for what they do elsewhere shows only when a command gets there.         *)
Rearrange ==
  /\ swaps < MaxSwaps
  /\ swaps' = swaps + 1
  /\ \E d \in {At(p)[1] : p \in Searching}, n \in Name :
       \/ \E m \in Name :
            /\ entry[<<d, n>>] # Absent /\ entry[<<d, m>>] = Absent
            /\ entry' = [entry EXCEPT ![<<d, m>>] = entry[<<d, n>>],
                                      ![<<d, n>>] = Absent]
       \/ \E m \in Name \ {n} :
            entry[<<d, n>>] = Absent /\ entry' = [entry EXCEPT ![<<d, n>>] = LinkTo(m)]
       \/ IsLink(<<d, n>>) /\ entry' = [entry EXCEPT ![<<d, n>>] = Absent]
  /\ Observed
  /\ UNCHANGED <<made, holds, pc, create, key, chain, child, done, faults>>

Next ==
  \/ \E p \in Process :
       \/ CallOpen(p) \/ MakeBase(p) \/ OpenBase(p)
       \/ LstatEntry(p) \/ MakeEntry(p) \/ LstatMade(p) \/ OpenEntry(p)
       \/ CheckRoot(p) \/ MakePart(p) \/ CallFails(p)
  \/ Rearrange

Spec == Init /\ [][Next]_vars

-----------------------------------------------------------------------------
(* Every variable stays in its domain; a directory has one name at most,    *)
(* and an open that failed has nothing open.                                *)
TypeOK ==
  /\ entry \in [Place -> Entry] /\ made \in SUBSET Dir
  /\ \A a, b \in Directories :
       entry[a][2] \in made \ {Base} /\ (entry[a] = entry[b] => a = b)
  /\ holds \in [Dir -> SUBSET Parts]
  /\ pc \in [Process -> Ended \cup {"idle", "mkbase", "base", "lstat", "mkdir",
               "again", "open", "check"} \cup Parts]
  /\ create \in SUBSET Process /\ key \in [Process -> Key]
  /\ chain \in [Process -> Seq(Dir)] /\ child \in [Process -> Dir]
  /\ \A p \in Process :
       /\ Len(chain[p]) \in 1 .. Len(key[p]) + 1
       /\ p \in Searching => At(p)[1] \in made
       /\ pc[p] \in Ended \ {"done"} => chain[p] = <<Base>> /\ child[p] = Base
  /\ was \in [Process -> SUBSET Dir] /\ stood \in SUBSET Process
  /\ done \in [Process -> SUBSET Process]
  /\ swaps \in 0 .. MaxSwaps /\ faults \in 0 .. MaxFaults

(* Whatever is exchanged between two of its calls, a command never enters a *)
(* directory that did not itself, without a link, have the name at some     *)
(* time since the command had its parent open (store.go:228-231, 283-286).  *)
OpensOwnDirectory ==
  [][\A p \in Process :
       Len(chain'[p]) > Len(chain[p]) => child[p] \in was[p]]_vars

(* A link that was in the way all along is named for what it is, dangling   *)
(* or not: "instead of surfacing as Mkdir's "file exists" or an empty       *)
(* store" (store.go:282-283).                                               *)
LinkIsNamed ==
  faults = 0 =>
    \A p \in stood : pc[p] \in Ended => pc[p] = "symlinked"

(* Commands that start together create one store, not one each, and neither *)
(* fails over the other; and who looks after an add was done finds its      *)
(* store.  Nobody else is at work on the directories.  A store that was     *)
(* opened is complete in any case, whatever it was before.                  *)
OneStoreEach ==
  /\ \A p \in Process :
       pc[p] = "done" =>
         holds[chain[p][Len(chain[p])]] = Parts
  /\ swaps = 0 /\ faults = 0 =>
       \A p, q \in Process :
         /\ pc[p] \notin {"failed", "replaced"}
         /\ pc[p] = "done" /\ pc[q] = "done" /\ key[p] = key[q]
              => chain[p] = chain[q]
         /\ pc[p] = "nostore" => \A r \in done[p] : key[r] # key[p]

-----------------------------------------------------------------------------
(* What was seen since a command has a parent open includes what is there   *)
(* now, and its way through the tree has not reached the end of its key.    *)
SearchIsObserved ==
  \A p \in Process :
    /\ p \in Searching => Len(chain[p]) <= Len(key[p])
                          /\ DirectoryAt(entry, At(p)) \subseteq was[p]
    /\ pc[p] = "check" => child[p] \in made
    /\ pc[p] \in {"idle", "mkbase", "base"} => chain[p] = <<Base>>

(* A command gets no further than a link that stays.                        *)
LinksStopIt ==
  \A p \in stood :
    \/ pc[p] = "lstat" /\ IsLink(At(p))
    \/ pc[p] = "symlinked"
    \/ pc[p] = "failed" /\ faults > 0

(* The parts of a store are made in their order, below the directory the    *)
(* key leads to; a command that is done has them all.                       *)
PartsInOrder ==
  \A p \in Process :
    /\ pc[p] \in Parts \cup {"done"} => Len(chain[p]) = Len(key[p]) + 1
    /\ pc[p] \in {"tmp", "order", "done"} => "items" \in holds[chain[p][Len(chain[p])]]
    /\ pc[p] \in {"order", "done"} => "tmp" \in holds[chain[p][Len(chain[p])]]
    /\ pc[p] = "done" => "order" \in holds[chain[p][Len(chain[p])]]
    /\ p \in Searching \/ pc[p] \in Parts \cup {"done"} => Base \in made
    /\ \A r \in done[p] : pc[r] = "done"

(* As long as nobody else is at work, names keep what they have: what was   *)
(* seen is still there, and every command went where its key leads.         *)
UndisturbedPaths ==
  swaps = 0 /\ faults = 0 =>
    \A p \in Process :
      /\ pc[p] \notin {"failed", "replaced"}
      /\ chain[p][1] = Base
      /\ \A i \in 1 .. Len(chain[p]) - 1 :
           entry[<<chain[p][i], key[p][i]>>] = Directory(chain[p][i + 1])
      /\ pc[p] = "again" => entry[At(p)] # Absent
      /\ pc[p] = "open" => entry[At(p)][1] = "dir"
      /\ pc[p] = "check" => entry[At(p)] = Directory(child[p])
      /\ pc[p] = "nostore" => \A r \in done[p] : key[r] # key[p]

(* The type invariant and what makes it and the properties above inductive. *)
OpenInvariant ==
  TypeOK /\ SearchIsObserved /\ LinksStopIt /\ PartsInOrder /\ UndisturbedPaths
=============================================================================
