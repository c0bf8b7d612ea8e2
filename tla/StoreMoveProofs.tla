--------------------------- MODULE StoreMoveProofs ---------------------------
(***************************************************************************)
(* Proofs about StoreMove for any number of commands on the host, in       *)
(* sandboxes and of the binary with the old name.                          *)
(***************************************************************************)
EXTENDS StoreMove, TLAPS

-----------------------------------------------------------------------------
(* The two names.                                                           *)
LEMMA Roots ==
  /\ "legacy" \in Name /\ "current" \in Name
  /\ \A p \in Process : Root(p) \in Name
  /\ \A p \in Host : Root(p) = "current"
  /\ NoDir \notin Dir
BY ProcessAssumption, DirAssumption DEF Name, Root, Process

LEMMA MovedAt ==
  ASSUME TypeOK, Moved
  PROVE  /\ at'["legacy"] = NoDir /\ at'["current"] = at["legacy"]
         /\ at' \in [Name -> made \cup {NoDir}]
         /\ UNCHANGED <<made, bare, items>>
BY Roots DEF TypeOK, Moved

LEMMA MadeRoot ==
  ASSUME TypeOK, NEW name \in Name, MakeRoot(name)
  PROVE  \E d \in Dir \ made :
           /\ at' = [at EXCEPT ![name] = d]
           /\ made' = made \cup {d} /\ bare' = bare \cup {d}
BY DEF MakeRoot

-----------------------------------------------------------------------------
(* A question adds to who was told a wrong no, and stays within the bound.  *)
LEMMA Asked ==
  ASSUME TypeOK, NEW p \in Process
  PROVE  /\ Fault => faults' \in 0 .. MaxFaults
         /\ TakenForNo(p) => faults' \in 0 .. MaxFaults /\ blind' = blind \cup {p}
         /\ Answered => faults' \in 0 .. MaxFaults /\ blind' = blind
BY FaultAssumption DEF TakenForNo, Answered, Fault, TypeOK

(* Type correctness, action by action.                                      *)
LEMMA AskTyped ==
  ASSUME TypeOK, HostsGoInOrder, NEW p \in Process,
         CallCommand(p) \/ AskLegacy(p) \/ AskCurrent(p) \/ AskFiles(p) \/ AskTarget(p)
  PROVE  TypeOK'
<1> USE DEF Goto, Ended, tree
<1>1. CASE CallCommand(p)
  <2>1. Files("legacy") \cup Files("current") \subseteq Reminder
    <3>1. at["legacy"] \in Dir \cup {NoDir} /\ at["current"] \in Dir \cup {NoDir}
      BY Roots DEF TypeOK
    <3> QED BY <3>1 DEF Files, TypeOK
  <2> QED BY <1>1, <2>1 DEF CallCommand, TypeOK
<1>2. CASE AskLegacy(p) \/ AskCurrent(p) \/ AskTarget(p)
  <2>1. p \in Host
    BY <1>2 DEF AskLegacy, AskCurrent, AskTarget, HostsGoInOrder
  <2>2. faults' \in 0 .. MaxFaults /\ blind' \in SUBSET Host
    BY <1>2, <2>1, Asked DEF AskLegacy, AskCurrent, AskTarget, TypeOK
  <2> QED BY <1>2, <2>2 DEF AskLegacy, AskCurrent, AskTarget, TypeOK
<1>3. CASE AskFiles(p)
  <2>1. p \in Host
    BY <1>3 DEF AskFiles, HostsGoInOrder
  <2>2. faults' \in 0 .. MaxFaults /\ blind' \in SUBSET Host
    BY <1>3, <2>1, Asked DEF AskFiles, TypeOK
  <2> QED BY <1>3, <2>1, <2>2 DEF AskFiles, TypeOK
<1> QED BY <1>1, <1>2, <1>3

LEMMA MoveTyped ==
  ASSUME TypeOK, NEW p \in Process, Rename(p) \/ AskAgain(p) \/ MakeBase(p) \/ CallFails(p)
  PROVE  TypeOK'
<1> USE DEF Goto, Ended, tree
<1>1. CASE Rename(p)
  <2>1. at' \in [Name -> made \cup {NoDir}] /\ UNCHANGED <<made, bare, items>>
    BY <1>1, MovedAt DEF Rename, TypeOK
  <2> QED BY <1>1, <2>1 DEF Rename, TypeOK
<1>2. CASE MakeBase(p)
  <2>1. /\ at' \in [Name -> made' \cup {NoDir}] /\ made \subseteq made'
        /\ made' \in SUBSET Dir /\ bare' \in SUBSET made' /\ items' = items
    <3>1. CASE UNCHANGED tree
      BY <3>1 DEF TypeOK
    <3>2. CASE MakeRoot(Root(p)) /\ UNCHANGED items
      BY <3>2, MadeRoot, Roots DEF TypeOK
    <3> QED BY <1>2, <3>1, <3>2 DEF MakeBase
  <2> QED BY <1>2, <2>1 DEF MakeBase, TypeOK
<1>3. CASE CallFails(p)
  <2>1. faults' \in 0 .. MaxFaults
    BY <1>3, FaultAssumption DEF CallFails, Fault, TypeOK
  <2> QED BY <1>3, <2>1 DEF CallFails, TypeOK
<1>4. CASE AskAgain(p)
  BY <1>4 DEF AskAgain, TypeOK
<1> QED BY <1>1, <1>2, <1>3, <1>4

LEMMA UseTyped ==
  ASSUME TypeOK, NEW p \in Process, OpenRoot(p) \/ Enter(p) \/ Work(p)
  PROVE  TypeOK'
<1> USE DEF Goto, Ended, tree
<1>1. CASE OpenRoot(p)
  BY <1>1, Roots DEF OpenRoot, TypeOK
<1>2. CASE Enter(p)
  BY <1>2 DEF Enter, TypeOK
<1>3. CASE Work(p)
  <2>1. handle[p] \in Dir /\ p \in Reminder
    BY <1>3 DEF Work, TypeOK, Reminder
  <2>2. items' \in [Dir -> SUBSET Reminder] /\ listing' \in [Process -> SUBSET Reminder]
    BY <1>3, <2>1 DEF Work, TypeOK
  <2> QED BY <1>3, <2>2 DEF Work, TypeOK
<1> QED BY <1>1, <1>2, <1>3

-----------------------------------------------------------------------------
(* What every step does to the two roots: nothing that was in reach gets    *)
(* out of it.                                                               *)
NewIsEmpty == \A d \in bare \cup (Dir \ made) : items[d] = {}

TreeGrows ==
  /\ \A d \in Dir : items[d] \subseteq items'[d]
  /\ Files("current") \subseteq Files("current")'
  /\ Files("legacy") \cup Files("current") \subseteq Files("legacy")' \cup Files("current")'
  /\ at["current"] # NoDir => at'["current"] # NoDir
  /\ \A d \in {at["legacy"], at["current"]} \ (bare \cup {NoDir}) :
       d \in {at'["legacy"], at'["current"]} \ bare'
  /\ NewIsEmpty'

LEMMA SameTreeGrows ==
  ASSUME NewIsEmpty, UNCHANGED tree
  PROVE  TreeGrows
BY DEF TreeGrows, NewIsEmpty, Files, tree

LEMMA MovedGrows ==
  ASSUME TypeOK, NewIsEmpty, Moved,
         at["legacy"] # NoDir, at["current"] \in bare \cup {NoDir}
  PROVE  TreeGrows
<1>1. /\ at'["legacy"] = NoDir /\ at'["current"] = at["legacy"]
      /\ UNCHANGED <<made, bare, items>>
  BY MovedAt
<1>2. Files("current") = {} /\ Files("current")' = Files("legacy")
  BY <1>1 DEF Files, NewIsEmpty
<1> QED BY <1>1, <1>2 DEF TreeGrows, NewIsEmpty

LEMMA MadeRootGrows ==
  ASSUME TypeOK, NewIsEmpty, NEW name \in Name, at[name] = NoDir,
         MakeRoot(name), UNCHANGED items
  PROVE  TreeGrows
<1>1. PICK d \in Dir \ made :
        /\ at' = [at EXCEPT ![name] = d]
        /\ made' = made \cup {d} /\ bare' = bare \cup {d}
  BY MadeRoot
<1>2. d # NoDir /\ d \notin {at["legacy"], at["current"]}
  BY <1>1, Roots DEF TypeOK
<1>3. \A other \in Name : at[other] # NoDir => at'[other] = at[other]
  BY <1>1 DEF TypeOK
<1>4. \A other \in Name : Files(other) \subseteq Files(other)'
  BY <1>3, Roots DEF Files
<1>5. at["current"] # NoDir => at'["current"] # NoDir
  BY <1>3, Roots
<1>6. NewIsEmpty'
  BY <1>1 DEF NewIsEmpty
<1>7. \A e \in {at["legacy"], at["current"]} \ (bare \cup {NoDir}) :
        e \in {at'["legacy"], at'["current"]} \ bare'
  BY <1>1, <1>2, <1>3, Roots
<1> QED BY <1>4, <1>5, <1>6, <1>7, Roots DEF TreeGrows

LEMMA EnteredGrows ==
  ASSUME TypeOK, NewIsEmpty, NEW p \in Process, Enter(p)
  PROVE  TreeGrows
<1>1. UNCHANGED <<at, made, items>> /\ bare' \subseteq bare
  BY DEF Enter
<1> QED BY <1>1 DEF TreeGrows, NewIsEmpty, Files

LEMMA WorkedGrows ==
  ASSUME TypeOK, WorkIsInReach, NEW p \in Process, Work(p)
  PROVE  TreeGrows
<1>1. UNCHANGED <<at, made, bare>> /\ handle[p] \in made /\ handle[p] \in Dir
  BY DEF Work, TypeOK
<1>2. \/ UNCHANGED items
      \/ /\ p \in adds /\ handle[p] \notin bare
         /\ items' = [items EXCEPT ![handle[p]] = @ \cup {p}]
  BY DEF Work, WorkIsInReach
<1>3. \A d \in Dir : items[d] \subseteq items'[d]
  BY <1>1, <1>2 DEF TypeOK
<1>4. NewIsEmpty'
  BY <1>1, <1>2 DEF NewIsEmpty, WorkIsInReach, TypeOK
<1>5. \A name \in Name : Files(name) \subseteq Files(name)'
  BY <1>1, <1>3 DEF Files, TypeOK
<1> QED BY <1>1, <1>3, <1>4, <1>5, Roots DEF TreeGrows

LEMMA StepsGrow ==
  ASSUME TypeOK, WorkIsInReach, Next
  PROVE  TreeGrows
<1>1. NewIsEmpty
  BY DEF WorkIsInReach, NewIsEmpty
<1>2. ASSUME NEW p \in Process,
             \/ CallCommand(p) \/ AskLegacy(p) \/ AskCurrent(p) \/ AskFiles(p)
             \/ AskTarget(p) \/ AskAgain(p) \/ OpenRoot(p) \/ CallFails(p)
      PROVE  TreeGrows
  BY <1>1, <1>2, SameTreeGrows DEF CallCommand, AskLegacy, AskCurrent, AskFiles,
     AskTarget, AskAgain, OpenRoot, CallFails, tree
<1>3. ASSUME NEW p \in Process, Rename(p)
      PROVE  TreeGrows
  BY <1>1, <1>3, SameTreeGrows, MovedGrows DEF Rename
<1>4. ASSUME NEW p \in Process, MakeBase(p)
      PROVE  TreeGrows
  BY <1>1, <1>4, SameTreeGrows, MadeRootGrows, Roots DEF MakeBase
<1> QED BY <1>1, <1>2, <1>3, <1>4, EnteredGrows, WorkedGrows DEF Next

-----------------------------------------------------------------------------
(* What the invariant says of one command.                                  *)
InReach(p) ==
  pc[p] = "work" /\ p \in adds => handle[p] \in {at["legacy"], at["current"]} \ bare

InSight(p) ==
  p \in Host \ (adds \cup warned \cup blind) =>
    /\ pc[p] \in {"lost", "base", "root"} => before[p] \subseteq Files("current")
    /\ pc[p] \in {"enter", "work"} => before[p] \subseteq items[handle[p]]
    /\ pc[p] = "done" => before[p] \subseteq listing[p]

InOrder(p) ==
  /\ pc[p] \in {"legacy", "current", "files", "mkdir", "rename", "lost"} => p \in Host
  /\ pc[p] = "files" => at["current"] # NoDir

Kept(p) ==
  /\ before[p] \subseteq Files("legacy") \cup Files("current")
  /\ pc[p] = "done" /\ p \in adds => p \in Files("legacy") \cup Files("current")

CommandOK(p) == InReach(p) /\ InSight(p) /\ InOrder(p) /\ Kept(p)

OnlyHosts ==
  HostsAlone =>
    /\ \A p \in Host \cap adds : pc[p] = "base" => at["legacy"] = NoDir \/ at["current"] # NoDir
    /\ at["current"] \in {NoDir, 2} \/ at["legacy"] = NoDir

LEMMA InvariantByCommand ==
  MoveInvariant <=> TypeOK /\ NewIsEmpty /\ OnlyHosts /\ \A p \in Process : CommandOK(p)
<1>1. TypeOK => adds \subseteq Process /\ Host \subseteq Process
  BY DEF TypeOK, Process
<1>2. TypeOK => (WorkIsInReach <=> NewIsEmpty /\ \A p \in Process : InReach(p))
  BY <1>1 DEF WorkIsInReach, NewIsEmpty, InReach
<1>3. TypeOK => (StillInSight <=> \A p \in Process : InSight(p))
  BY <1>1 DEF StillInSight, InSight
<1>4. HostsGoInOrder <=> OnlyHosts /\ \A p \in Process : InOrder(p)
  BY DEF HostsGoInOrder, OnlyHosts, InOrder
<1>5. NothingLost <=> \A p \in Process : Kept(p)
  BY DEF NothingLost, Kept
<1> QED BY <1>2, <1>3, <1>4, <1>5 DEF MoveInvariant, CommandOK

(* A command that takes no step.                                            *)
LEMMA CommandFrame ==
  ASSUME TypeOK, TypeOK', TreeGrows, NEW p \in Process, CommandOK(p),
         pc'[p] = pc[p], handle'[p] = handle[p], listing'[p] = listing[p],
         before'[p] = before[p], p \in adds' <=> p \in adds, warned \subseteq warned',
         blind \subseteq blind'
  PROVE  CommandOK(p)'
<1>1. InReach(p)'
  <2>1. pc[p] = "work" => handle[p] # NoDir
    BY DEF TypeOK
  <2> QED BY <2>1 DEF CommandOK, InReach, TreeGrows
<1>2. InSight(p)'
  <2>1. pc[p] \in {"enter", "work"} => handle[p] \in Dir
    BY DEF TypeOK
  <2> QED BY <2>1 DEF CommandOK, InSight, TreeGrows
<1>3. InOrder(p)'
  BY DEF CommandOK, InOrder, TreeGrows
<1>4. Kept(p)'
  BY DEF CommandOK, Kept, TreeGrows
<1> QED BY <1>1, <1>2, <1>3, <1>4 DEF CommandOK

-----------------------------------------------------------------------------
(* The steps of command p keep what the invariant says of it.               *)
LEMMA CallKeeps ==
  ASSUME TypeOK, NEW p \in Process, CommandOK(p), CallCommand(p)
  PROVE  CommandOK(p)'
<1>1. /\ pc'[p] = IF p \in Host THEN "legacy" ELSE "base"
      /\ before'[p] = Files("legacy") \cup Files("current")
      /\ UNCHANGED <<at, made, bare, items>>
  BY DEF CallCommand, Goto, TypeOK, tree
<1>2. InReach(p)' /\ InSight(p)' /\ InOrder(p)'
  BY <1>1 DEF InReach, InSight, InOrder
<1>3. Kept(p)'
  BY <1>1 DEF Kept, Files
<1> QED BY <1>2, <1>3 DEF CommandOK

LEMMA AskKeeps ==
  ASSUME TypeOK, NEW p \in Process, CommandOK(p),
         \/ AskLegacy(p) \/ AskCurrent(p) \/ AskFiles(p) \/ AskTarget(p)
         \/ AskAgain(p) \/ CallFails(p)
  PROVE  CommandOK(p)'
<1>1. /\ UNCHANGED <<at, made, bare, items, adds, handle, listing, before>>
      /\ Files("legacy")' = Files("legacy") /\ Files("current")' = Files("current")
      /\ warned \subseteq warned' /\ blind \subseteq blind'
  BY DEF AskLegacy, AskCurrent, AskFiles, AskTarget, AskAgain, CallFails, tree, Files,
     Answered, TakenForNo
<1>2. /\ pc'[p] \in {"base", "current", "mkdir", "files", "failed", "rename", "lost"}
      /\ pc'[p] = "files" => at["current"] # NoDir
      /\ pc'[p] \in {"lost", "base"} =>
           Files("legacy") = {} \/ p \in warned' \/ p \in blind' \/ pc[p] = "lost"
  BY DEF AskLegacy, AskCurrent, AskFiles, AskTarget, AskAgain, CallFails, Goto, Files,
     TypeOK, Answered, TakenForNo
<1>3. pc'[p] # "failed" => p \in Host
  BY DEF AskLegacy, AskCurrent, AskFiles, AskTarget, AskAgain, CallFails, Goto, TypeOK,
     CommandOK, InOrder
<1>4. InReach(p)' /\ InOrder(p)'
  BY <1>1, <1>2, <1>3 DEF InReach, InOrder
<1>5. InSight(p)' /\ Kept(p)'
  BY <1>1, <1>2 DEF CommandOK, InSight, Kept
<1> QED BY <1>4, <1>5 DEF CommandOK

LEMMA RenameKeeps ==
  ASSUME TypeOK, TreeGrows, NEW p \in Process, CommandOK(p), Rename(p)
  PROVE  CommandOK(p)'
<1>1. /\ UNCHANGED <<adds, handle, listing, warned, blind, before>>
      /\ pc'[p] \in {"base", "failed", "lost"} /\ p \in Host
  BY DEF Rename, Goto, TypeOK, CommandOK, InOrder
<1>2. InReach(p)' /\ InOrder(p)' /\ Kept(p)'
  BY <1>1 DEF CommandOK, InReach, InOrder, Kept, TreeGrows
<1>3. pc'[p] \in {"base", "lost"} => at'["legacy"] = NoDir
  BY MovedAt DEF Rename, Goto, TypeOK, tree
<1>4. pc'[p] \in {"base", "lost"} => Files("legacy")' = {}
  BY <1>3 DEF Files
<1>5. InSight(p)'
  BY <1>1, <1>2, <1>4 DEF InSight, Kept
<1> QED BY <1>2, <1>5 DEF CommandOK

LEMMA OpenKeeps ==
  ASSUME TypeOK, TypeOK', TreeGrows, NEW p \in Process, CommandOK(p),
         MakeBase(p) \/ OpenRoot(p)
  PROVE  CommandOK(p)'
<1>1. CASE MakeBase(p)
  <2>1. /\ UNCHANGED <<adds, handle, listing, warned, blind, before>>
        /\ pc[p] = "base" /\ pc'[p] = "root"
    BY <1>1 DEF MakeBase, Goto, TypeOK
  <2> QED BY <2>1 DEF CommandOK, InReach, InSight, InOrder, Kept, TreeGrows
<1>2. CASE OpenRoot(p)
  <2>1. /\ UNCHANGED <<at, made, bare, items, adds, listing, warned, blind, before>>
        /\ Files("legacy")' = Files("legacy") /\ Files("current")' = Files("current")
        /\ pc[p] = "root" /\ handle'[p] = at[Root(p)]
        /\ pc'[p] = IF at[Root(p)] # NoDir THEN "enter"
                    ELSE IF p \in adds THEN "failed" ELSE "done"
    BY <1>2 DEF OpenRoot, Goto, TypeOK, tree, Files
  <2>2. InReach(p)' /\ InOrder(p)' /\ Kept(p)'
    BY <2>1 DEF CommandOK, InReach, InOrder, Kept
  <2>3. InSight(p)'
    <3>1. ASSUME p \in Host \ (adds \cup warned \cup blind)
          PROVE  /\ before[p] \subseteq Files("current") /\ Root(p) = "current"
                 /\ pc'[p] = "enter" => Files("current") = items[handle'[p]]
                 /\ pc'[p] = "done" => Files("current") = {}
      BY <2>1, <3>1, Roots DEF CommandOK, InSight, Files
    <3> QED BY <2>1, <3>1 DEF InSight
  <2> QED BY <2>2, <2>3 DEF CommandOK
<1> QED BY <1>1, <1>2

LEMMA UseKeeps ==
  ASSUME TypeOK, WorkIsInReach, TreeGrows, NEW p \in Process, CommandOK(p),
         Enter(p) \/ Work(p)
  PROVE  CommandOK(p)'
<1>0. handle[p] # NoDir /\ handle[p] \in Dir
  BY DEF Enter, Work, TypeOK
<1>1. CASE Enter(p)
  <2>1. /\ UNCHANGED <<at, made, items, adds, handle, listing, warned, blind, before>>
        /\ pc[p] = "enter" /\ pc'[p] \in {"work", "failed", "done"}
        /\ pc'[p] = "done" => p \notin adds /\ handle[p] \in bare
        /\ pc'[p] = "work" /\ p \in adds =>
             handle[p] \in {at["legacy"], at["current"]} \ bare'
    BY <1>1 DEF Enter, Goto, TypeOK
  <2>2. InReach(p)' /\ InOrder(p)' /\ Kept(p)'
    BY <2>1 DEF CommandOK, InReach, InOrder, Kept, Files
  <2>3. InSight(p)'
    BY <2>1 DEF CommandOK, InSight, WorkIsInReach
  <2> QED BY <2>2, <2>3 DEF CommandOK
<1>2. CASE Work(p)
  <2>1. /\ UNCHANGED <<at, made, bare, adds, handle, warned, blind, before>>
        /\ pc[p] = "work" /\ pc'[p] = "done"
        /\ p \notin adds => listing'[p] = items[handle[p]]
        /\ p \in adds => p \in items'[handle[p]]
    BY <1>0, <1>2 DEF Work, Goto, TypeOK
  <2>2. p \in adds => p \in Files("legacy")' \cup Files("current")'
    <3>1. p \in adds => handle[p] \in {at["legacy"], at["current"]}
      BY <2>1 DEF CommandOK, InReach
    <3> QED BY <1>0, <2>1, <3>1 DEF Files
  <2>3. InReach(p)' /\ InOrder(p)' /\ Kept(p)'
    BY <2>1, <2>2 DEF CommandOK, InReach, InOrder, Kept, TreeGrows
  <2>4. InSight(p)'
    BY <2>1 DEF CommandOK, InSight
  <2> QED BY <2>3, <2>4 DEF CommandOK
<1> QED BY <1>1, <1>2

LEMMA OthersKept ==
  ASSUME TypeOK, TypeOK', TreeGrows, NEW p \in Process,
         \/ CallCommand(p) \/ AskLegacy(p) \/ AskCurrent(p) \/ AskFiles(p)
         \/ AskTarget(p) \/ Rename(p) \/ AskAgain(p) \/ MakeBase(p) \/ OpenRoot(p)
         \/ Enter(p) \/ Work(p) \/ CallFails(p),
         NEW q \in Process \ {p}, CommandOK(q)
  PROVE  CommandOK(q)'
<1>1. pc'[q] = pc[q]
  BY DEF CallCommand, AskLegacy, AskCurrent, AskFiles, AskTarget, Rename, AskAgain, MakeBase,
     OpenRoot, Enter, Work, CallFails, Goto, TypeOK
<1>2. handle'[q] = handle[q] /\ listing'[q] = listing[q] /\ before'[q] = before[q]
  BY DEF CallCommand, AskLegacy, AskCurrent, AskFiles, AskTarget, Rename, AskAgain, MakeBase,
     OpenRoot, Enter, Work, CallFails, TypeOK
<1>3. (q \in adds' <=> q \in adds) /\ warned \subseteq warned' /\ blind \subseteq blind'
  BY DEF CallCommand, AskLegacy, AskCurrent, AskFiles, AskTarget, Rename, AskAgain, MakeBase,
     OpenRoot, Enter, Work, CallFails, Answered, TakenForNo
<1> QED BY <1>1, <1>2, <1>3, CommandFrame

LEMMA CommandsKept ==
  ASSUME TypeOK, TypeOK', WorkIsInReach, TreeGrows, \A p \in Process : CommandOK(p), Next
  PROVE  \A p \in Process : CommandOK(p)'
<1>1. PICK p \in Process :
        \/ CallCommand(p) \/ AskLegacy(p) \/ AskCurrent(p) \/ AskFiles(p)
        \/ AskTarget(p) \/ Rename(p) \/ AskAgain(p) \/ MakeBase(p) \/ OpenRoot(p)
        \/ Enter(p) \/ Work(p) \/ CallFails(p)
  BY DEF Next
<1>2. CommandOK(p)'
  BY <1>1, CallKeeps, AskKeeps, RenameKeeps, OpenKeeps, UseKeeps
<1>3. \A q \in Process \ {p} : CommandOK(q)'
  BY <1>1, OthersKept
<1> QED BY <1>2, <1>3

-----------------------------------------------------------------------------
(* As long as only hosts act, a new root is the old one under its new name, *)
(* or was made when there was no old one.                                   *)
LEMMA OnlyHostsKept ==
  ASSUME TypeOK, OnlyHosts, \A p \in Process : CommandOK(p), Next
  PROVE  OnlyHosts'
<1> SUFFICES ASSUME HostsAlone'
             PROVE  /\ \A p \in Host \cap adds' :
                         pc'[p] = "base" => at'["legacy"] = NoDir \/ at'["current"] # NoDir
                    /\ at'["current"] \in {NoDir, 2} \/ at'["legacy"] = NoDir
  BY DEF OnlyHosts
<1>1. PICK p \in Process :
        \/ CallCommand(p) \/ AskLegacy(p) \/ AskCurrent(p) \/ AskFiles(p)
        \/ AskTarget(p) \/ Rename(p) \/ AskAgain(p) \/ MakeBase(p) \/ OpenRoot(p)
        \/ Enter(p) \/ Work(p) \/ CallFails(p)
  BY DEF Next
<1> USE DEF Goto, tree
<1>2. pc'[p] # "idle" /\ \A q \in Process \ {p} : pc'[q] = pc[q]
  BY <1>1 DEF CallCommand, AskLegacy, AskCurrent, AskFiles, AskTarget, Rename, AskAgain,
     MakeBase, OpenRoot, Enter, Work, CallFails, TypeOK
<1>3. /\ p \in Host /\ \A q \in Old \cup Sandbox : pc[q] = "idle"
  BY <1>2 DEF Process, HostsAlone
<1>9. /\ adds \subseteq adds' /\ blind \subseteq blind'
      /\ \A q \in Process \ {p} : q \in adds' <=> q \in adds
      /\ CallCommand(p) \/ adds' = adds
  BY <1>1 DEF CallCommand, AskLegacy, AskCurrent, AskFiles, AskTarget, Rename, AskAgain,
     MakeBase, OpenRoot, Enter, Work, CallFails, Answered, TakenForNo
<1>10. HostsAlone
  BY <1>3, <1>9 DEF HostsAlone
<1>4. /\ \A q \in Host \cap adds :
           pc[q] = "base" => at["legacy"] = NoDir \/ at["current"] # NoDir
      /\ at["current"] \in {NoDir, 2} \/ at["legacy"] = NoDir
  BY <1>10 DEF OnlyHosts
<1>5. CASE UNCHANGED at /\ ~ MakeBase(p) /\ ~ Rename(p)
  <2>1. pc'[p] = "base" /\ p \in adds' => at["legacy"] = NoDir \/ at["current"] # NoDir
    <3>1. CASE CallCommand(p)
      BY <1>3, <3>1 DEF CallCommand, TypeOK
    <3>2. CASE AskLegacy(p)
      BY <3>2 DEF AskLegacy, TypeOK, TakenForNo, HostsAlone
    <3>3. CASE AskFiles(p)
      BY <3>3 DEF AskFiles, CommandOK, InOrder
    <3>4. CASE AskAgain(p)
      BY <3>4 DEF AskAgain, TypeOK
    <3>5. CASE AskCurrent(p) \/ AskTarget(p) \/ OpenRoot(p) \/ Enter(p) \/ Work(p)
               \/ CallFails(p)
      <4>1. pc'[p] # "base"
        BY <3>5 DEF AskCurrent, AskTarget, OpenRoot, Enter, Work, CallFails, TypeOK
      <4> QED BY <4>1
    <3> QED BY <1>1, <1>5, <3>1, <3>2, <3>3, <3>4, <3>5
  <2>2. ASSUME NEW q \in Host \cap adds', q # p, pc'[q] = "base"
        PROVE  at["legacy"] = NoDir \/ at["current"] # NoDir
    BY <1>2, <1>4, <1>9, <2>2 DEF Process
  <2> QED BY <1>4, <1>5, <2>1, <2>2
<1>6. CASE Rename(p)
  <2>1. CASE Moved
    BY <2>1, MovedAt
  <2>2. CASE UNCHANGED at
    <3>1. pc'[p] = "base" => at["legacy"] = NoDir
      BY <1>6, <2>2, MovedAt DEF Rename, TypeOK
    <3> QED BY <1>2, <1>4, <1>9, <2>2, <3>1 DEF Process
  <2> QED BY <1>6, <2>1, <2>2 DEF Rename
<1>7. CASE MakeBase(p)
  <2>1. pc[p] = "base" /\ pc'[p] = "root" /\ Root(p) = "current" /\ adds' = adds
    BY <1>3, <1>7, Roots DEF MakeBase, TypeOK
  <2>2. CASE UNCHANGED at
    BY <1>2, <1>4, <2>1, <2>2 DEF Process
  <2>3. CASE MakeRoot("current") /\ at["current"] = NoDir /\ p \in adds
    <3>1. at["legacy"] = NoDir
      BY <1>3, <1>4, <2>1, <2>3
    <3>2. at'["legacy"] = NoDir
      BY <2>3, <3>1, MadeRoot, Roots DEF TypeOK
    <3> QED BY <3>2
  <2> QED BY <1>7, <2>1, <2>2, <2>3 DEF MakeBase
<1>8. UNCHANGED at \/ Rename(p) \/ MakeBase(p)
  BY <1>1 DEF CallCommand, AskLegacy, AskCurrent, AskFiles, AskTarget, AskAgain, OpenRoot,
     Enter, Work, CallFails
<1> QED BY <1>5, <1>6, <1>7, <1>8

-----------------------------------------------------------------------------
LEMMA InitialState ==
  ASSUME Init
  PROVE  MoveInvariant
<1>1. TypeOK
  <2>1. /\ at \in [Name -> made \cup {NoDir}]
        /\ made \in SUBSET Dir /\ bare \in SUBSET made
    BY DirAssumption DEF Init
  <2>2. items \in [Dir -> SUBSET Reminder]
    BY DEF Init, Reminder
  <2>3. /\ pc \in [Process -> Ended \cup {"idle", "legacy", "current", "files",
               "mkdir", "rename", "lost", "base", "root", "enter", "work"}]
        /\ \A p \in Process : pc[p] \notin {"enter", "work"}
        /\ handle \in [Process -> made \cup {NoDir}]
    BY DEF Init
  <2>4. /\ listing \in [Process -> SUBSET Reminder] /\ before \in [Process -> SUBSET Reminder]
        /\ adds \in SUBSET Process /\ warned \in SUBSET Host /\ blind \in SUBSET Host
        /\ faults \in 0 .. MaxFaults
    BY FaultAssumption DEF Init
  <2> QED BY <2>1, <2>2, <2>3, <2>4 DEF TypeOK
<1>2. NewIsEmpty
  <2>1. \A d \in Dir : d \in bare \/ d \notin {at["legacy"], at["current"]} => items[d] = {}
    BY DEF Init
  <2>2. \A d \in Dir \ made : d \notin {at["legacy"], at["current"]}
    BY <1>1, Roots DEF TypeOK
  <2>3. bare \subseteq Dir
    BY <1>1 DEF TypeOK
  <2> QED BY <2>1, <2>2, <2>3 DEF NewIsEmpty
<1>3. OnlyHosts
  BY DEF Init, OnlyHosts, HostsAlone, Process
<1>4. ASSUME NEW p \in Process
      PROVE  CommandOK(p)
  BY DEF Init, CommandOK, InReach, InSight, InOrder, Kept
<1> QED BY <1>1, <1>2, <1>3, <1>4, InvariantByCommand

LEMMA InvariantKept ==
  ASSUME MoveInvariant, [Next]_vars
  PROVE  MoveInvariant'
<1>1. TypeOK /\ NewIsEmpty /\ OnlyHosts /\ \A p \in Process : CommandOK(p)
  BY InvariantByCommand
<1>2. CASE Next
  <2>1. WorkIsInReach /\ HostsGoInOrder
    BY DEF MoveInvariant
  <2>2. TypeOK'
    BY <1>1, <1>2, <2>1, AskTyped, MoveTyped, UseTyped DEF Next
  <2>3. TreeGrows
    BY <1>1, <1>2, <2>1, StepsGrow
  <2>4. \A p \in Process : CommandOK(p)'
    BY <1>1, <1>2, <2>1, <2>2, <2>3, CommandsKept
  <2>5. OnlyHosts'
    BY <1>1, <1>2, OnlyHostsKept
  <2>6. NewIsEmpty'
    BY <2>3 DEF TreeGrows
  <2>7. (MoveInvariant <=>
           TypeOK /\ NewIsEmpty /\ OnlyHosts /\ \A p \in Process : CommandOK(p))'
    BY InvariantByCommand, PTL
  <2> QED BY <2>2, <2>4, <2>5, <2>6, <2>7
<1>3. CASE UNCHANGED vars
  <2> USE <1>3 DEF vars, tree, MoveInvariant
  <2>1. TypeOK' /\ WorkIsInReach'
    BY DEF TypeOK, WorkIsInReach
  <2>2. StillInSight' /\ NothingLost'
    BY DEF StillInSight, NothingLost, Files
  <2>3. HostsGoInOrder'
    BY DEF HostsGoInOrder, HostsAlone
  <2> QED BY <2>1, <2>2, <2>3
<1> QED BY <1>2, <1>3

(* The invariant of the move, whoever uses the store meanwhile.             *)
THEOREM MovesInvariant == Spec => []MoveInvariant
BY InitialState, InvariantKept, PTL DEF Spec

(* No reminder is lost, whoever moves the store under whoever has it open.  *)
THEOREM MovesLoseNothing == Spec => []NothingLost
<1>1. MoveInvariant => NothingLost
  BY DEF MoveInvariant
<1> QED BY <1>1, MovesInvariant, PTL

(* A listing on the host is complete or says that it is not, and hosts      *)
(* alone never make a new root beside an old store (app.go:225-232), unless *)
(* a question about the old store failed and counted as a no.               *)
THEOREM NothingVanishesEver == Spec => []NothingVanishes
<1>1. MoveInvariant => MissingIsTold
  BY DEF MoveInvariant, StillInSight, MissingIsTold
<1>2. MoveInvariant => HostsStrandNothing
  BY DEF MoveInvariant, HostsGoInOrder, HostsStrandNothing, Files
<1> QED BY <1>1, <1>2, MovesInvariant, PTL DEF NothingVanishes
=============================================================================
