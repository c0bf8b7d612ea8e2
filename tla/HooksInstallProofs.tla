------------------------- MODULE HooksInstallProofs -------------------------
(***************************************************************************)
(* Proofs about HooksInstall for any number of runs, hooks and files of    *)
(* users; those about what is never lost are for runs that do not overlap. *)
(***************************************************************************)
EXTENDS HooksInstall, WellFoundedInduction, TLAPS

-----------------------------------------------------------------------------
(* The hook of an iteration is one that is still to be dealt with.          *)
LEMMA SmallestExists ==
  ASSUME NEW T, T \subseteq Nat, T # {}
  PROVE  \E x \in T : \A y \in T : x <= y
<1>1. PICK x \in T : \A y \in T : ~ (<<y, x>> \in OpToRel(<, Nat))
  BY NatLessThanWellFounded, WFMin
<1>2. \A y \in T : ~ (y < x)
  BY <1>1 DEF OpToRel
<1> QED BY <1>2

LEMMA CurrentListed ==
  ASSUME TypeOK, NEW p \in Install, todo[p] # {}
  PROVE  Current(p) \in todo[p] /\ Current(p) \in source /\ Current(p) \in Name
<1>1. todo[p] \subseteq source /\ source \subseteq Name /\ todo[p] \subseteq Nat
  BY NameAssumption DEF TypeOK
<1>2. \E n \in todo[p] : \A m \in todo[p] : n <= m
  BY <1>1, SmallestExists
<1>3. Current(p) \in todo[p]
  BY <1>2, Zenon DEF Current
<1> QED BY <1>1, <1>3

LEMMA Paths ==
  ASSUME NEW n \in Name
  PROVE  /\ Hook(n) \in Path /\ Backup(n) \in Path
         /\ \A m \in Name : Hook(m) # Backup(n) /\ (Hook(m) = Hook(n) <=> m = n)
                            /\ (Backup(m) = Backup(n) <=> m = n)
BY DEF Hook, Backup, Path

LEMMA Contents ==
  /\ Mine \subseteq Content
  /\ "absent" \in Content /\ "ours" \in Content /\ "legacy" \in Content
  /\ \A c \in Mine : c # "absent" /\ c # "ours" /\ c # "legacy"
BY MineAssumption DEF Content

-----------------------------------------------------------------------------
(* What the invariant says of one run.                                      *)
Reported(p) ==
  /\ pc[p] = "idle" => report[p] = Nothing /\ moved[p] = {} /\ unseen[p] = {}
  /\ pc[p] \in {"config", "existing", "set"} =>
       ~ opts[p].symlink /\ todo[p] = Found(p)
  /\ pc[p] = "elsewhere" =>
       opts[p].symlink /\ todo[p] = Found(p) /\ report[p].installed = {}
  /\ pc[p] \in Linking =>
       /\ opts[p].symlink /\ todo[p] \subseteq Found(p)
       /\ report[p].installed = Found(p) \ todo[p]
  /\ pc[p] \in {"unlink", "backup", "rename", "link"} => todo[p] # {}
  /\ pc[p] \in {"backup", "rename"} => opts[p].force
  /\ pc[p] = "ok" => report[p].installed = Found(p) /\ (opts[p].symlink => todo[p] = {})
  /\ moved[p] = report[p].backedUp

Inspected(p) ==
  quiet[p] \/ ~ Overlap =>
    /\ pc[p] = "unlink" => Target(p) = "legacy"
    /\ pc[p] \in {"backup", "rename"} =>
         Target(p) \in Mine \/ Hook(Current(p)) \in unseen[p]
    /\ pc[p] = "rename" =>
         files[Backup(Current(p))] = "absent" \/ Backup(Current(p)) \in unseen[p]

Effected(p) ==
  quiet[p] =>
    /\ pc[p] \in {"config", "existing", "set"} =>
         files = before[p].files /\ setting = before[p].setting
    /\ pc[p] \in {"existing", "set"} =>
         opts[p].force \/ setting \notin {"default", "other"}
    /\ pc[p] = "ok" /\ ~ opts[p].symlink =>
         setting = "source" /\ files = before[p].files
    /\ pc[p] \in {"set", "ok"} /\ ~ opts[p].symlink =>
         \A a \in Path \ unseen[p] : files[a] \in Mine => report[p].warned
    /\ pc[p] = "link" => Target(p) \in {"absent", "ours"}
    /\ pc[p] \in Linking \cup {"ok"} /\ opts[p].symlink =>
         /\ \A n \in Found(p) \ todo[p] : files[Hook(n)] = "ours"
         /\ setting \in {"unset", "default"} \/ report[p].warned

Unforced(p) ==
  pc[p] # "idle" /\ quiet[p] /\ ~ opts[p].force =>
    /\ \A a \in Path : before[p].files[a] \in Mine => files[a] = before[p].files[a]
    /\ before[p].setting \in {"default", "other"} => setting = before[p].setting

RunOK(p) == Reported(p) /\ Inspected(p) /\ Effected(p) /\ Unforced(p)

(* Whatever users made is still where they put it or beside it, unless a    *)
(* run was not told of the backup there.                                    *)
OwnedStays ==
  \A o \in owned : \/ o[2] \in {files[Hook(o[1])], files[Backup(o[1])]}
                  \/ Blind(Backup(o[1]))

NothingLost == OwnedStays /\ BackupIsTheUsers

LEMMA InvariantByRun ==
  HooksInvariant <=> /\ TypeOK /\ OneAtATime /\ \A p \in Install : RunOK(p)
                     /\ ~ Overlap => NothingLost
<1>1. (\A p \in Install : RunOK(p)) <=>
        ReportSoFar /\ AsInspected /\ EffectSoFar /\ ForceIsAsked
  BY DEF RunOK, Reported, ReportSoFar, Inspected, AsInspected, Effected, EffectSoFar,
     Unforced, ForceIsAsked
<1>2. ReportSoFar =>
        (NothingDeleted <=> OwnedStays)
  BY DEF ReportSoFar, NothingDeleted, OwnedStays
<1> QED BY <1>1, <1>2 DEF HooksInvariant, NothingLost

(* Moments of a run between two of its calls.                               *)
LEMMA PcValues ==
  ASSUME TypeOK, NEW p \in Install
  PROVE  p \in Active <=> pc[p] \in Linking \cup {"config", "existing", "set", "elsewhere"}
BY DEF TypeOK, Active, Ended, Linking

(* A question without an answer is remembered; what was found in            *)
(* .canga/hooks is settled when a run begins.                               *)
LEMMA AskTyped ==
  ASSUME TypeOK, NEW p \in Install, NEW lost, lost \subseteq File, Ask(p, lost)
  PROVE  /\ unseen' \in [Install -> SUBSET File] /\ faults' \in 0 .. MaxFaults
         /\ unseen'[p] = unseen[p] \cup lost
         /\ \A q \in Install \ {p} : unseen'[q] = unseen[q]
<1>1. unseen' = [unseen EXCEPT ![p] = @ \cup lost]
  BY DEF Ask
<1>2. faults' \in 0 .. MaxFaults
  BY FaultAssumption DEF Ask, Fault, TypeOK
<1>3. unseen[p] \cup lost \in SUBSET File
  BY DEF TypeOK
<1> QED BY <1>1, <1>2, <1>3 DEF TypeOK

LEMMA FoundKept ==
  ASSUME TypeOK, NEW p \in Install, UNCHANGED source,
         NEW lost, lost \subseteq Path, unseen'[p] = unseen[p] \cup lost
  PROVE  Found(p)' = Found(p)
<1>1. \A n : Source(n) \notin lost
  BY DEF Source, Path
<1> QED BY <1>1 DEF Found

LEMMA PathsAreFiles == Path \subseteq File
BY DEF Path, File

-----------------------------------------------------------------------------
(* Type correctness, action by action.                                      *)
LEMMA BeginTyped ==
  ASSUME TypeOK, NEW p \in Install, CallInstall(p)
  PROVE  TypeOK'
<1>0. PICK lost \in SUBSET source : Begin(p, source \ lost, lost)
  BY DEF CallInstall
<1> USE DEF Begin
<1>1. opts' \in [Install -> [symlink : BOOLEAN, force : BOOLEAN]]
  <2>1. PICK s \in BOOLEAN, f \in BOOLEAN :
          opts' = [opts EXCEPT ![p] = [symlink |-> s, force |-> f]]
    BY <1>0
  <2> QED BY <2>1 DEF TypeOK
<1>2. before' \in [Install -> [files : [Path -> Content], setting : Setting]]
  BY <1>0 DEF TypeOK
<1>3. pc' \in [Install -> Ended \cup {"idle", "config", "existing", "set",
               "elsewhere", "inspect", "unlink", "backup", "rename", "link"}]
  BY <1>0 DEF Goto, Ended, TypeOK
<1>4. todo' \in [Install -> SUBSET source']
  BY <1>0 DEF TypeOK
<1>5. unseen' \in [Install -> SUBSET File] /\ faults' \in 0 .. MaxFaults
  <2>1. {Source(n) : n \in lost} \subseteq File
    BY DEF Source, File, TypeOK
  <2> QED BY <1>0, <2>1, AskTyped
<1> QED BY <1>0, <1>1, <1>2, <1>3, <1>4, <1>5 DEF TypeOK

LEMMA ReportTyped ==
  ASSUME TypeOK, NEW p \in Install, NEW names, names \subseteq Name, NEW b \in BOOLEAN
  PROVE  /\ [report EXCEPT ![p].warned = b] \in [Install -> Report]
         /\ [report EXCEPT ![p].installed = names] \in [Install -> Report]
         /\ [report EXCEPT ![p].installed = @ \cup names] \in [Install -> Report]
         /\ [report EXCEPT ![p].backedUp = @ \cup names] \in [Install -> Report]
<1>1. report \in [Install -> Report]
  BY DEF TypeOK
<1>2. ASSUME NEW r \in Report
      PROVE  /\ [r EXCEPT !.warned = b] \in Report
             /\ [r EXCEPT !.installed = names] \in Report
             /\ [r EXCEPT !.installed = @ \cup names] \in Report
             /\ [r EXCEPT !.backedUp = @ \cup names] \in Report
  BY DEF Report
<1>3. report[p] \in Report
  BY <1>1
<1> QED BY <1>1, <1>2, <1>3

LEMMA ConfigTyped ==
  ASSUME TypeOK, NEW p \in Install,
         ReadConfig(p) \/ ExistingHooks(p) \/ SetConfig(p) \/ Elsewhere(p)
  PROVE  TypeOK'
<1> USE DEF Goto, Ended, History
<1>1. CASE ReadConfig(p)
  BY <1>1 DEF ReadConfig, TypeOK
<1>2. CASE ExistingHooks(p)
  <2>1. PICK lost \in SUBSET {a \in Path : files[a] # "absent"} :
          /\ Ask(p, lost)
          /\ report' = [report EXCEPT ![p].warned =
                          \E a \in Path \ lost : files[a] \in Mine]
    BY <1>2 DEF ExistingHooks
  <2>2. report' \in [Install -> Report]
    BY <2>1, ReportTyped
  <2>3. unseen' \in [Install -> SUBSET File] /\ faults' \in 0 .. MaxFaults
    BY <2>1, AskTyped, PathsAreFiles
  <2> QED BY <1>2, <2>2, <2>3 DEF ExistingHooks, TypeOK
<1>3. CASE SetConfig(p)
  <2>1. report' \in [Install -> Report]
    BY <1>3, ReportTyped DEF SetConfig, TypeOK
  <2> QED BY <1>3, <2>1 DEF SetConfig, TypeOK, Setting
<1>4. CASE Elsewhere(p)
  <2>1. PICK elsewhere \in BOOLEAN :
          report' = [report EXCEPT ![p].warned = elsewhere /\ opts[p].force]
    BY <1>4 DEF Elsewhere
  <2>2. report' \in [Install -> Report]
    BY <2>1, ReportTyped
  <2> QED BY <1>4, <2>2 DEF Elsewhere, TypeOK
<1> QED BY <1>1, <1>2, <1>3, <1>4

LEMMA LinkTyped ==
  ASSUME TypeOK, NEW p \in Install, Reported(p),
         \/ Inspect(p) \/ LinkUnread(p) \/ RemoveLegacy(p) \/ InspectBackup(p)
         \/ BackupUnseen(p) \/ MoveAside(p) \/ Symlink(p) \/ Done(p)
  PROVE  TypeOK'
<1> USE DEF Goto, Ended, History
<1>1. CASE Inspect(p) \/ InspectBackup(p) \/ Done(p)
  BY <1>1 DEF Inspect, InspectBackup, Done, TypeOK
<1>2. CASE RemoveLegacy(p)
  <2>1. Current(p) \in Name
    BY <1>2, CurrentListed DEF RemoveLegacy, Reported
  <2>2. files' \in [Path -> Content]
    BY <1>2, Contents DEF RemoveLegacy, Put, TypeOK
  <2> QED BY <1>2, <2>2 DEF RemoveLegacy, TypeOK
<1>3. CASE MoveAside(p)
  <2> DEFINE n == Current(p)
  <2>0. pc[p] = "rename"
    BY <1>3 DEF MoveAside
  <2>1. n \in source /\ n \in Name
    BY <2>0, CurrentListed DEF Reported
  <2> HIDE DEF n
  <2>2. Hook(n) \in Path
    BY <2>1, Paths
  <2>3. files' \in [Path -> Content]
    BY <1>3, <2>2, Contents DEF n, MoveAside, Target, TypeOK
  <2>4. report' \in [Install -> Report] /\ moved' \in [Install -> SUBSET source]
    <3>1. CASE UNCHANGED <<report, moved>>
      BY <3>1 DEF TypeOK
    <3>2. CASE /\ report' = [report EXCEPT ![p].backedUp = @ \cup {n}]
               /\ moved' = [moved EXCEPT ![p] = @ \cup {n}]
      <4>1. {n} \subseteq Name /\ TRUE \in BOOLEAN
        BY <2>1
      <4>2. report' \in [Install -> Report]
        BY <3>2, <4>1, ReportTyped
      <4>3. moved[p] \cup {n} \in SUBSET source
        BY <2>1 DEF TypeOK
      <4> QED BY <3>2, <4>2, <4>3 DEF TypeOK
    <3> QED BY <1>3, <3>1, <3>2 DEF n, MoveAside
  <2> QED BY <1>3, <2>3, <2>4 DEF MoveAside, TypeOK
<1>4. CASE Symlink(p)
  <2> DEFINE n == Current(p)
  <2>1. n \in Name
    BY <1>4, CurrentListed DEF Symlink, Reported
  <2>2. files' \in [Path -> Content]
    BY <1>4, Contents DEF Symlink, Put, TypeOK
  <2>3. report' \in [Install -> Report]
    <3>1. {n} \subseteq Name /\ TRUE \in BOOLEAN
      BY <2>1
    <3>2. report' = [report EXCEPT ![p].installed = @ \cup {n}]
      BY <1>4 DEF Symlink
    <3> HIDE DEF n
    <3> QED BY <3>1, <3>2, ReportTyped
  <2>4. todo' \in [Install -> SUBSET source]
    BY <1>4 DEF Symlink, TypeOK
  <2> QED BY <1>4, <2>2, <2>3, <2>4 DEF Symlink, TypeOK
<1>5. CASE LinkUnread(p) \/ BackupUnseen(p)
  <2>1. Current(p) \in Name
    BY <1>5, CurrentListed DEF LinkUnread, BackupUnseen, Reported
  <2>2. PICK lost \in SUBSET File : Ask(p, lost)
    BY <1>5, <2>1, Paths, PathsAreFiles DEF LinkUnread, BackupUnseen
  <2>3. unseen' \in [Install -> SUBSET File] /\ faults' \in 0 .. MaxFaults
    BY <2>2, AskTyped
  <2> QED BY <1>5, <2>3 DEF LinkUnread, BackupUnseen, TypeOK
<1> QED BY <1>1, <1>2, <1>3, <1>4, <1>5

LEMMA StopTyped ==
  ASSUME TypeOK, NEW p \in Install, CallFails(p) \/ Killed(p)
  PROVE  TypeOK'
<1>1. faults' \in 0 .. MaxFaults
  BY FaultAssumption DEF CallFails, Killed, Fault, TypeOK
<1> QED BY <1>1 DEF CallFails, Killed, Goto, Ended, TypeOK

LEMMA UserTyped ==
  ASSUME TypeOK, UserActs
  PROVE  TypeOK'
<1>1. files' \in [Path -> Content]
  BY Contents DEF UserActs, Put, TypeOK
<1>3. owned' \in SUBSET (Name \X Mine)
  <2>1. owned \in SUBSET (Name \X Mine)
    BY DEF TypeOK
  <2>2. \/ UNCHANGED owned
        \/ \E n \in Name, mine \in Mine : owned' = owned \cup {<<n, mine>>}
        \/ \E o : owned' = owned \ {o}
    BY DEF UserActs
  <2> QED BY <2>1, <2>2
<1>2. setting' \in Setting
  BY DEF UserActs, Setting, TypeOK
<1> QED BY <1>1, <1>2, <1>3 DEF UserActs, TypeOK

-----------------------------------------------------------------------------
(* The steps of run p keep what the invariant says of it.                   *)
LEMMA BeginKeeps ==
  ASSUME TypeOK, NEW p \in Install, RunOK(p), CallInstall(p)
  PROVE  RunOK(p)'
<1>0. PICK lost \in SUBSET source : Begin(p, source \ lost, lost)
  BY DEF CallInstall
<1>1. /\ UNCHANGED <<files, setting, source, report, moved>>
      /\ pc[p] = "idle" /\ todo'[p] = source \ lost
      /\ before'[p] = [files |-> files, setting |-> setting]
      /\ pc'[p] = IF source \ lost = {} THEN "nohooks"
                  ELSE IF opts'[p].symlink THEN "elsewhere" ELSE "config"
  BY <1>0 DEF Begin, Goto, TypeOK
<1>2. report[p] = Nothing /\ moved[p] = {} /\ unseen[p] = {}
  BY <1>1 DEF RunOK, Reported
<1>3. report[p].installed = {} /\ report[p].backedUp = {}
  BY <1>2 DEF Nothing
<1>4. opts'[p].symlink \in BOOLEAN
  <2>1. PICK s \in BOOLEAN, f \in BOOLEAN :
          opts' = [opts EXCEPT ![p] = [symlink |-> s, force |-> f]]
    BY <1>0 DEF Begin
  <2> QED BY <2>1 DEF TypeOK
<1>5. pc'[p] \in {"nohooks", "elsewhere", "config"}
  BY <1>1
<1>10. Found(p)' = source \ lost
  <2>1. {Source(n) : n \in lost} \subseteq File
    BY DEF Source, File, TypeOK
  <2>2. unseen'[p] = {Source(n) : n \in lost}
    BY <1>0, <1>2, <2>1, AskTyped DEF Begin
  <2>3. \A n : Source(n) \in unseen'[p] <=> n \in lost
    BY <2>2 DEF Source
  <2> QED BY <1>1, <2>3 DEF Found
<1>6. Reported(p)'
  BY <1>1, <1>2, <1>3, <1>4, <1>5, <1>10 DEF Reported, Linking
<1>7. Inspected(p)'
  BY <1>5 DEF Inspected
<1>8. Effected(p)'
  BY <1>1, <1>5 DEF Effected, Linking
<1>9. Unforced(p)'
  BY <1>1 DEF Unforced
<1> QED BY <1>6, <1>7, <1>8, <1>9 DEF RunOK

LEMMA ConfigKeeps ==
  ASSUME TypeOK, NEW p \in Install, RunOK(p),
         ReadConfig(p) \/ ExistingHooks(p) \/ SetConfig(p) \/ Elsewhere(p)
  PROVE  RunOK(p)'
<1> USE DEF History
<1>1. CASE ReadConfig(p)
  <2>1. /\ UNCHANGED <<files, setting, source, opts, todo, report, History>>
        /\ pc[p] = "config" /\ Found(p)' = Found(p)
        /\ \/ pc'[p] = "conflict"
           \/ pc'[p] = "existing" /\ (opts[p].force \/ setting \notin {"default", "other"})
    BY <1>1 DEF ReadConfig, Goto, TypeOK, Found
  <2>2. Reported(p)' /\ Inspected(p)'
    BY <2>1 DEF RunOK, Reported, Inspected, Linking
  <2>3. Effected(p)'
    BY <2>1 DEF RunOK, Effected, Linking
  <2>4. Unforced(p)'
    BY <2>1 DEF RunOK, Unforced
  <2> QED BY <2>2, <2>3, <2>4 DEF RunOK
<1>2. CASE ExistingHooks(p)
  <2>1. PICK lost \in SUBSET {a \in Path : files[a] # "absent"} :
          /\ Ask(p, lost)
          /\ report' = [report EXCEPT ![p].warned =
                          \E a \in Path \ lost : files[a] \in Mine]
    BY <1>2 DEF ExistingHooks
  <2>2. /\ UNCHANGED <<files, setting, source, opts, todo, owned, moved, before, quiet>>
        /\ pc[p] = "existing" /\ pc'[p] = "set"
        /\ report'[p].backedUp = report[p].backedUp
        /\ report'[p].warned = \E a \in Path \ lost : files[a] \in Mine
    BY <1>2, <2>1 DEF ExistingHooks, Goto, TypeOK, Report
  <2>3. unseen'[p] = unseen[p] \cup lost
    BY <2>1, AskTyped, PathsAreFiles
  <2>4. Found(p)' = Found(p)
    BY <2>2, <2>3, FoundKept
  <2>5. Reported(p)' /\ Inspected(p)'
    BY <2>2, <2>4 DEF RunOK, Reported, Inspected, Linking
  <2>6. \A a \in Path \ unseen'[p] : files[a] \in Mine => report'[p].warned
    BY <2>2, <2>3
  <2>7. Effected(p)'
    BY <2>2, <2>6 DEF RunOK, Effected, Linking
  <2>8. Unforced(p)'
    BY <2>2 DEF RunOK, Unforced
  <2> QED BY <2>5, <2>7, <2>8 DEF RunOK
<1>3. CASE SetConfig(p)
  <2>1. /\ UNCHANGED <<files, source, opts, todo, History>>
        /\ pc[p] = "set" /\ pc'[p] = "ok" /\ setting' = "source"
        /\ report'[p].backedUp = report[p].backedUp
        /\ report'[p].installed = todo[p] /\ report'[p].warned = report[p].warned
        /\ Found(p)' = Found(p)
    BY <1>3 DEF SetConfig, Goto, TypeOK, Report, Found
  <2>2. ~ opts[p].symlink /\ todo[p] = Found(p)
    BY <2>1 DEF RunOK, Reported
  <2>3. Reported(p)' /\ Inspected(p)'
    BY <2>1, <2>2 DEF RunOK, Reported, Inspected, Linking
  <2>4. Effected(p)'
    BY <2>1, <2>2 DEF RunOK, Effected
  <2>5. Unforced(p)'
    BY <2>1 DEF RunOK, Unforced, Effected
  <2> QED BY <2>3, <2>4, <2>5 DEF RunOK
<1>4. CASE Elsewhere(p)
  <2>0. PICK elsewhere \in BOOLEAN :
          /\ setting \notin {"unset", "default"} => elsewhere
          /\ Goto(p, IF elsewhere /\ ~ opts[p].force THEN "conflict" ELSE "inspect")
          /\ report' = [report EXCEPT ![p].warned = elsewhere /\ opts[p].force]
    BY <1>4 DEF Elsewhere
  <2>1. /\ UNCHANGED <<files, setting, source, opts, todo, History>>
        /\ pc[p] = "elsewhere"
        /\ pc'[p] = IF elsewhere /\ ~ opts[p].force THEN "conflict" ELSE "inspect"
        /\ report'[p].backedUp = report[p].backedUp
        /\ report'[p].installed = report[p].installed
        /\ elsewhere /\ opts[p].force => report'[p].warned
        /\ Found(p)' = Found(p)
    BY <1>4, <2>0 DEF Elsewhere, Goto, TypeOK, Report, Found
  <2>2. opts[p].symlink /\ todo[p] = Found(p) /\ report[p].installed = {}
    BY <2>1 DEF RunOK, Reported
  <2>3. Reported(p)' /\ Inspected(p)'
    BY <2>1, <2>2 DEF RunOK, Reported, Inspected, Linking
  <2>4. Effected(p)'
    BY <2>0, <2>1, <2>2 DEF RunOK, Effected, Linking
  <2>5. Unforced(p)'
    BY <2>1 DEF RunOK, Unforced
  <2> QED BY <2>3, <2>4, <2>5 DEF RunOK
<1> QED BY <1>1, <1>2, <1>3, <1>4

LEMMA StopKeeps ==
  ASSUME TypeOK, NEW p \in Install, RunOK(p), CallFails(p) \/ Killed(p)
  PROVE  RunOK(p)'
<1>1. /\ UNCHANGED <<files, setting, source, opts, todo, report, moved, before, quiet>>
      /\ pc'[p] \in {"error", "killed"} /\ pc[p] # "idle"
  BY DEF CallFails, Killed, Goto, Active, TypeOK
<1>2. Reported(p)' /\ Inspected(p)' /\ Effected(p)'
  BY <1>1 DEF RunOK, Reported, Inspected, Effected, Linking
<1>3. Unforced(p)'
  BY <1>1 DEF RunOK, Unforced
<1> QED BY <1>2, <1>3 DEF RunOK

LEMMA InspectKeeps ==
  ASSUME TypeOK, NEW p \in Install, RunOK(p), Inspect(p) \/ InspectBackup(p) \/ Done(p)
  PROVE  RunOK(p)'
<1>1. /\ UNCHANGED <<files, setting, source, opts, todo, report, moved, before, quiet>>
      /\ Current(p)' = Current(p) /\ Target(p)' = Target(p)
      /\ UNCHANGED unseen /\ Found(p)' = Found(p)
  BY DEF Inspect, InspectBackup, Done, History, Current, Target, Found
<1>2. Unforced(p)'
  BY <1>1 DEF RunOK, Unforced, Inspect, InspectBackup, Done
<1>3. CASE Inspect(p)
  <2>1. Target(p) \in Content
    <3>1. Hook(Current(p)) \in Path
      BY <1>3, CurrentListed, Paths DEF Inspect
    <3> QED BY <3>1 DEF Target, TypeOK
  <2>2. /\ pc[p] = "inspect" /\ todo[p] # {}
        /\ \/ pc'[p] = "link" /\ Target(p) \in {"absent", "ours"}
           \/ pc'[p] = "unlink" /\ Target(p) = "legacy"
           \/ pc'[p] = "backup" /\ Target(p) \in Mine /\ opts[p].force
           \/ pc'[p] = "conflict"
    BY <1>3, <2>1, Contents DEF Inspect, Goto, TypeOK, Content
  <2>3. Reported(p)'
    BY <1>1, <2>2 DEF RunOK, Reported, Linking
  <2>4. Inspected(p)'
    BY <1>1, <2>2 DEF Inspected
  <2>5. Effected(p)'
    BY <1>1, <2>2 DEF RunOK, Effected, Linking
  <2> QED BY <1>2, <2>3, <2>4, <2>5 DEF RunOK
<1>4. CASE InspectBackup(p)
  <2>1. /\ pc[p] = "backup"
        /\ \/ pc'[p] = "rename" /\ files[Backup(Current(p))] = "absent"
           \/ pc'[p] = "conflict"
    BY <1>4 DEF InspectBackup, Goto, TypeOK
  <2>2. Reported(p)'
    BY <1>1, <2>1 DEF RunOK, Reported, Linking
  <2>3. Inspected(p)'
    BY <1>1, <2>1 DEF RunOK, Inspected
  <2>4. Effected(p)'
    BY <1>1, <2>1 DEF RunOK, Effected, Linking
  <2> QED BY <1>2, <2>2, <2>3, <2>4 DEF RunOK
<1>5. CASE Done(p)
  <2>1. pc[p] = "inspect" /\ todo[p] = {} /\ pc'[p] = "ok"
    BY <1>5 DEF Done, Goto, TypeOK
  <2>2. Reported(p)'
    BY <1>1, <2>1 DEF RunOK, Reported, Linking
  <2>3. Inspected(p)'
    BY <2>1 DEF Inspected
  <2>4. Effected(p)'
    BY <1>1, <2>1, <2>2 DEF RunOK, Effected, Reported, Linking
  <2> QED BY <1>2, <2>2, <2>3, <2>4 DEF RunOK
<1> QED BY <1>3, <1>4, <1>5

LEMMA UnseenKeeps ==
  ASSUME TypeOK, NEW p \in Install, RunOK(p), LinkUnread(p) \/ BackupUnseen(p)
  PROVE  RunOK(p)'
<1> DEFINE n == Current(p)
<1>1. /\ UNCHANGED <<files, setting, source, opts, todo, report, moved, before, quiet>>
      /\ n' = n /\ Target(p)' = Target(p)
  BY DEF LinkUnread, BackupUnseen, Current, Target
<1>2. todo[p] # {} /\ opts[p].symlink /\ pc[p] \in Linking
  BY DEF LinkUnread, BackupUnseen, RunOK, Reported, Linking
<1>3. n \in Name /\ Hook(n) \in Path /\ Backup(n) \in Path
  BY <1>2, CurrentListed, Paths
<1> HIDE DEF n
<1>4. PICK lost \in SUBSET Path :
        /\ Ask(p, lost)
        /\ \/ /\ pc[p] = "inspect" /\ lost = {Hook(n)}
              /\ (pc'[p] = "backup" /\ opts[p].force) \/ pc'[p] = "conflict"
           \/ pc[p] = "backup" /\ lost = {Backup(n)} /\ pc'[p] = "rename"
  BY <1>3 DEF n, LinkUnread, BackupUnseen, Goto, TypeOK
<1>5. unseen'[p] = unseen[p] \cup lost
  BY <1>4, AskTyped, PathsAreFiles
<1>6. Found(p)' = Found(p)
  BY <1>1, <1>5, FoundKept
<1>7. Reported(p)'
  BY <1>1, <1>2, <1>4, <1>6 DEF RunOK, Reported, Linking
<1>8. Inspected(p)'
  BY <1>1, <1>4, <1>5 DEF n, RunOK, Inspected
<1>9. Effected(p)'
  BY <1>1, <1>2, <1>4, <1>6 DEF RunOK, Effected, Linking
<1>10. Unforced(p)'
  BY <1>1, <1>2 DEF RunOK, Unforced, Linking
<1> QED BY <1>7, <1>8, <1>9, <1>10 DEF RunOK

LEMMA RemoveLegacyKeeps ==
  ASSUME TypeOK, NEW p \in Install, RunOK(p), RemoveLegacy(p)
  PROVE  RunOK(p)'
<1> DEFINE n == Current(p)
<1>1. /\ UNCHANGED <<setting, source, opts, todo, report, moved, before, quiet>>
      /\ pc[p] = "unlink" /\ pc'[p] \in {"error", "link"}
      /\ todo[p] # {} /\ todo[p] \subseteq Found(p)
      /\ opts[p].symlink /\ Found(p)' = Found(p)
  BY DEF RemoveLegacy, History, Goto, TypeOK, RunOK, Reported, Linking, Found
<1>2. n \in todo[p] /\ n \in Name /\ n' = n
  BY <1>1, CurrentListed DEF Current
<1>3. Hook(n) \in Path /\ files[Hook(n)] = Target(p)
  BY <1>2, Paths DEF Target
<1> HIDE DEF n
<1>4. files' = [files EXCEPT ![Hook(n)] = "absent"]
  BY DEF n, RemoveLegacy, Put
<1>5. Target(p)' = "absent"
  BY <1>2, <1>3, <1>4 DEF n, Target, TypeOK
<1>6. Reported(p)'
  BY <1>1 DEF RunOK, Reported, Linking
<1>7. Inspected(p)'
  BY <1>1 DEF Inspected
<1>8. quiet[p] => Target(p) = "legacy"
  BY <1>1 DEF RunOK, Inspected
<1>9. Effected(p)'
  <2>1. ASSUME quiet[p], NEW m \in Found(p) \ todo[p]
        PROVE  files'[Hook(m)] = "ours"
    <3>1. files[Hook(m)] = "ours"
      BY <1>1, <2>1 DEF RunOK, Effected, Linking
    <3>2. m \in Name /\ m # n
      BY <1>2 DEF TypeOK, Found
    <3>3. Hook(m) \in Path /\ Hook(m) # Hook(n)
      BY <1>2, <3>2, Paths
    <3> QED BY <1>4, <3>1, <3>3 DEF TypeOK
  <2>2. quiet[p] => setting \in {"unset", "default"} \/ report[p].warned
    BY <1>1 DEF RunOK, Effected, Linking
  <2> QED BY <1>1, <1>5, <2>1, <2>2 DEF Effected, Linking
<1>10. Unforced(p)'
  BY <1>1, <1>3, <1>4, <1>8, Contents DEF RunOK, Unforced, TypeOK
<1> QED BY <1>6, <1>7, <1>9, <1>10 DEF RunOK

LEMMA MoveAsideKeeps ==
  ASSUME TypeOK, NEW p \in Install, RunOK(p), MoveAside(p)
  PROVE  RunOK(p)'
<1> DEFINE n == Current(p)
<1>1. /\ UNCHANGED <<setting, source, opts, todo, before, quiet>>
      /\ pc[p] = "rename" /\ pc'[p] \in {"error", "link"}
      /\ todo[p] # {} /\ todo[p] \subseteq Found(p)
      /\ opts[p].symlink /\ opts[p].force /\ Found(p)' = Found(p)
      /\ report[p].installed = Found(p) \ todo[p] /\ moved[p] = report[p].backedUp
  BY DEF MoveAside, Goto, TypeOK, RunOK, Reported, Linking, Found
<1>2. n \in todo[p] /\ n \in Name /\ n' = n
  BY <1>1, CurrentListed DEF Current
<1>3. Hook(n) \in Path /\ Backup(n) \in Path /\ Hook(n) # Backup(n)
  BY <1>2, Paths
<1> HIDE DEF n
<1>4. CASE pc'[p] = "error" /\ UNCHANGED <<files, report, moved>>
  <2>1. Reported(p)' /\ Inspected(p)'
    BY <1>1, <1>4 DEF Reported, Inspected, Linking
  <2>2. Effected(p)' /\ Unforced(p)'
    BY <1>1, <1>4 DEF RunOK, Effected, Unforced, Linking
  <2> QED BY <2>1, <2>2 DEF RunOK
<1>5. CASE /\ files' = [files EXCEPT ![Backup(n)] = Target(p), ![Hook(n)] = "absent"]
           /\ report' = [report EXCEPT ![p].backedUp = @ \cup {n}]
           /\ moved' = [moved EXCEPT ![p] = @ \cup {n}]
           /\ pc'[p] = "link"
  <2>1. /\ report'[p].installed = report[p].installed
        /\ report'[p].warned = report[p].warned
        /\ report'[p].backedUp = moved'[p]
    BY <1>1, <1>5 DEF TypeOK, Report
  <2>2. Target(p)' = "absent"
    BY <1>2, <1>3, <1>5 DEF n, Target, TypeOK
  <2>3. Reported(p)' /\ Inspected(p)'
    BY <1>1, <1>5, <2>1 DEF Reported, Inspected, Linking
  <2>4. Effected(p)'
    <3>1. ASSUME quiet[p], NEW m \in Found(p) \ todo[p]
          PROVE  files'[Hook(m)] = "ours"
      <4>1. files[Hook(m)] = "ours"
        BY <1>1, <3>1 DEF RunOK, Effected, Linking
      <4>2. m \in Name /\ m # n
        BY <1>2 DEF TypeOK, Found
      <4>3. Hook(m) \in Path /\ Hook(m) # Hook(n) /\ Hook(m) # Backup(n)
        BY <1>2, <4>2, Paths
      <4> QED BY <1>5, <4>1, <4>3 DEF TypeOK
    <3>2. quiet[p] => setting \in {"unset", "default"} \/ report[p].warned
      BY <1>1 DEF RunOK, Effected, Linking
    <3> QED BY <1>1, <1>5, <2>1, <2>2, <3>1, <3>2 DEF Effected, Linking
  <2>5. Unforced(p)'
    BY <1>1 DEF Unforced
  <2> QED BY <2>3, <2>4, <2>5 DEF RunOK
<1> QED BY <1>1, <1>4, <1>5 DEF n, MoveAside, Goto, TypeOK

LEMMA SymlinkKeeps ==
  ASSUME TypeOK, NEW p \in Install, RunOK(p), Symlink(p)
  PROVE  RunOK(p)'
<1> DEFINE n == Current(p)
<1>1. /\ UNCHANGED <<setting, source, opts, moved, before, quiet>>
      /\ pc[p] = "link" /\ pc'[p] = "inspect"
      /\ todo[p] # {} /\ todo[p] \subseteq Found(p)
      /\ opts[p].symlink /\ Found(p)' = Found(p)
      /\ report[p].installed = Found(p) \ todo[p] /\ moved[p] = report[p].backedUp
  BY DEF Symlink, History, Goto, TypeOK, RunOK, Reported, Linking, Found
<1>2. n \in todo[p] /\ n \in Found(p) /\ n \in Name
  BY <1>1, CurrentListed
<1>3. Hook(n) \in Path /\ files[Hook(n)] = Target(p)
  BY <1>2, Paths DEF Target
<1> HIDE DEF n
<1>4. /\ files' = IF files[Hook(n)] = "absent" THEN [files EXCEPT ![Hook(n)] = "ours"]
                  ELSE files
      /\ report' = [report EXCEPT ![p].installed = @ \cup {n}]
      /\ todo' = [todo EXCEPT ![p] = @ \ {n}]
  BY <1>3 DEF n, Symlink, Put
<1>5. /\ report'[p].installed = report[p].installed \cup {n}
      /\ report'[p].backedUp = report[p].backedUp
      /\ report'[p].warned = report[p].warned
      /\ todo'[p] = todo[p] \ {n}
  BY <1>4 DEF TypeOK, Report
<1>6. report'[p].installed = Found(p) \ todo'[p]
  BY <1>1, <1>2, <1>5
<1>7. Reported(p)' /\ Inspected(p)'
  BY <1>1, <1>5, <1>6 DEF Reported, Inspected, Linking
<1>8. Effected(p)'
  <2>1. ASSUME quiet[p], NEW m \in Found(p) \ todo'[p]
        PROVE  files'[Hook(m)] = "ours"
    <3>1. CASE m = n
      <4>1. files[Hook(n)] \in {"absent", "ours"}
        BY <1>1, <1>3, <2>1 DEF RunOK, Effected
      <4> QED BY <1>3, <1>4, <3>1, <4>1 DEF TypeOK
    <3>2. CASE m # n
      <4>1. m \in Found(p) \ todo[p] /\ m \in Name
        BY <1>5, <3>2 DEF TypeOK, Found
      <4>2. files[Hook(m)] = "ours"
        BY <1>1, <2>1, <4>1 DEF RunOK, Effected, Linking
      <4>3. Hook(m) \in Path /\ Hook(m) # Hook(n)
        BY <1>2, <3>2, <4>1, Paths
      <4> QED BY <1>4, <4>2, <4>3 DEF TypeOK
    <3> QED BY <3>1, <3>2
  <2>2. quiet[p] => setting \in {"unset", "default"} \/ report[p].warned
    BY <1>1 DEF RunOK, Effected, Linking
  <2> QED BY <1>1, <1>5, <2>1, <2>2 DEF Effected, Linking
<1>9. Unforced(p)'
  BY <1>1, <1>3, <1>4, Contents DEF RunOK, Unforced, TypeOK
<1> QED BY <1>7, <1>8, <1>9 DEF RunOK

-----------------------------------------------------------------------------
(* The steps of a run that is under way, and what they leave alone.         *)
Working(p) ==
  \/ ReadConfig(p) \/ ExistingHooks(p) \/ SetConfig(p)
  \/ Elsewhere(p) \/ Inspect(p) \/ LinkUnread(p) \/ RemoveLegacy(p)
  \/ InspectBackup(p) \/ BackupUnseen(p) \/ MoveAside(p) \/ Symlink(p)
  \/ Done(p) \/ CallFails(p) \/ Killed(p)

LEMMA WorkingFrame ==
  ASSUME TypeOK, NEW p \in Install, Working(p)
  PROVE  /\ p \in Active
         /\ UNCHANGED <<source, opts, owned, before, quiet>>
         /\ \A q \in Install \ {p} :
              /\ pc'[q] = pc[q] /\ todo'[q] = todo[q]
              /\ report'[q] = report[q] /\ moved'[q] = moved[q]
              /\ unseen'[q] = unseen[q]
<1>1. p \in Active
  BY DEF Working, ReadConfig, ExistingHooks, SetConfig, Elsewhere, Inspect, LinkUnread,
     RemoveLegacy, InspectBackup, BackupUnseen, MoveAside, Symlink, Done, CallFails, Killed, Active, Ended
<1>2. UNCHANGED <<source, opts, owned, before, quiet>>
  BY DEF Working, ReadConfig, ExistingHooks, SetConfig, Elsewhere, Inspect, LinkUnread,
     RemoveLegacy, InspectBackup, BackupUnseen, MoveAside, Symlink, Done, CallFails, Killed, History
<1>3. ASSUME NEW q \in Install \ {p}
      PROVE  /\ pc'[q] = pc[q] /\ todo'[q] = todo[q]
             /\ report'[q] = report[q] /\ moved'[q] = moved[q]
             /\ unseen'[q] = unseen[q]
  <2>1. pc'[q] = pc[q]
    BY <1>3 DEF Working, ReadConfig, ExistingHooks, SetConfig, Elsewhere, Inspect,
       LinkUnread, RemoveLegacy, InspectBackup, BackupUnseen, MoveAside, Symlink, Done, CallFails, Killed, Goto, TypeOK
  <2>2. todo'[q] = todo[q] /\ report'[q] = report[q] /\ moved'[q] = moved[q]
    BY <1>3 DEF Working, ReadConfig, ExistingHooks, SetConfig, Elsewhere, Inspect,
       LinkUnread, RemoveLegacy, InspectBackup, BackupUnseen, MoveAside, Symlink, Done, CallFails, Killed, History, TypeOK
  <2>3. unseen'[q] = unseen[q]
    <3>1. ASSUME NEW lost, Ask(p, lost)
          PROVE  unseen'[q] = unseen[q]
      BY <1>3, <3>1 DEF Ask, TypeOK
    <3>2. CASE ExistingHooks(p)
      BY <3>1, <3>2 DEF ExistingHooks
    <3>3. CASE LinkUnread(p) \/ BackupUnseen(p)
      BY <3>1, <3>3 DEF LinkUnread, BackupUnseen
    <3>4. CASE UNCHANGED unseen
      BY <3>4
    <3> QED BY <3>2, <3>3, <3>4 DEF Working, ReadConfig, SetConfig, Elsewhere, Inspect,
            RemoveLegacy, InspectBackup, MoveAside, Symlink, Done, CallFails, Killed, History
  <2> QED BY <2>1, <2>2, <2>3
<1> QED BY <1>1, <1>2, <1>3

LEMMA OthersKept ==
  ASSUME TypeOK, OneAtATime, NEW p \in Install, CallInstall(p) \/ Working(p),
         NEW q \in Install \ {p}, RunOK(q)
  PROVE  RunOK(q)'
<1>1. CASE CallInstall(p)
  <2>1. /\ UNCHANGED <<files, setting, source, report, moved>> /\ ~ quiet'[q]
        /\ pc'[q] = pc[q] /\ todo'[q] = todo[q] /\ opts'[q] = opts[q]
        /\ unseen'[q] = unseen[q]
    <3>0. PICK lost \in SUBSET source : Begin(p, source \ lost, lost)
      BY <1>1 DEF CallInstall
    <3>1. PICK s \in BOOLEAN, f \in BOOLEAN :
            opts' = [opts EXCEPT ![p] = [symlink |-> s, force |-> f]]
      BY <3>0 DEF Begin
    <3>2. unseen'[q] = unseen[q]
      BY <3>0 DEF Begin, Ask, TypeOK
    <3> QED BY <3>0, <3>1, <3>2 DEF Begin, Goto, TypeOK
  <2>2. Reported(q)'
    BY <2>1 DEF RunOK, Reported, Linking, Found
  <2>3. Inspected(q)'
    BY <2>1 DEF RunOK, Inspected, Target, Current
  <2>4. Effected(q)' /\ Unforced(q)'
    BY <2>1 DEF Effected, Unforced
  <2> QED BY <2>2, <2>3, <2>4 DEF RunOK
<1>2. CASE Working(p)
  <2>1. /\ p \in Active /\ UNCHANGED <<source, opts, owned, before, quiet>>
        /\ pc'[q] = pc[q] /\ todo'[q] = todo[q]
        /\ report'[q] = report[q] /\ moved'[q] = moved[q]
        /\ unseen'[q] = unseen[q]
    BY <1>2, WorkingFrame
  <2>2. ~ quiet'[q]
    BY <2>1 DEF OneAtATime
  <2>3. Reported(q)'
    BY <2>1 DEF RunOK, Reported, Linking, Found
  <2>4. Inspected(q)'
    BY <2>1, <2>2 DEF OneAtATime, Inspected, Active, Ended
  <2>5. Effected(q)' /\ Unforced(q)'
    BY <2>2 DEF Effected, Unforced
  <2> QED BY <2>3, <2>4, <2>5 DEF RunOK
<1> QED BY <1>1, <1>2

(* Users do not replace what is there.                                      *)
LEMMA UserFrame ==
  ASSUME TypeOK, UserActs
  PROVE  /\ \A n \in Name : files[Hook(n)] # "absent" => files'[Hook(n)] = files[Hook(n)]
         /\ \A n \in Name : files[Backup(n)] = "absent" => files'[Backup(n)] = "absent"
         /\ \A n \in Name : files'[Backup(n)] \in {files[Backup(n)], "absent"}
<1>1. CASE UNCHANGED files
  BY <1>1
<1>2. CASE \E n \in Name : \E mine \in Mine :
             files[Hook(n)] = "absent" /\ Put(Hook(n), mine)
  BY <1>2, Paths DEF Put, TypeOK
<1>3. CASE \E n \in Name : files[Backup(n)] \in Mine /\ Put(Backup(n), "absent")
  BY <1>3, Paths, Contents DEF Put, TypeOK
<1> QED BY <1>1, <1>2, <1>3 DEF UserActs

LEMMA UserKeeps ==
  ASSUME TypeOK, NEW p \in Install, RunOK(p), UserActs
  PROVE  RunOK(p)'
<1>1. UNCHANGED <<source, pc, opts, todo, report, unseen, moved, before>> /\ ~ quiet'[p]
  BY DEF UserActs
<1>2. Reported(p)'
  BY <1>1 DEF RunOK, Reported, Linking, Found
<1>3. Inspected(p)'
  <2>1. CASE pc[p] \in {"unlink", "backup", "rename"} /\ ~ Overlap
    <3> DEFINE n == Current(p)
    <3>1. n \in Name /\ n' = n
      BY <1>1, <2>1, CurrentListed DEF RunOK, Reported, Current
    <3> HIDE DEF n
    <3>2. /\ pc[p] = "unlink" => files[Hook(n)] = "legacy"
          /\ pc[p] \in {"backup", "rename"} =>
               files[Hook(n)] \in Mine \/ Hook(n) \in unseen[p]
          /\ pc[p] = "rename" =>
               files[Backup(n)] = "absent" \/ Backup(n) \in unseen[p]
      BY <2>1 DEF RunOK, Inspected, Target, n
    <3>3. files[Hook(n)] # "absent" => files'[Hook(n)] = files[Hook(n)]
      BY <2>1, <3>1, <3>2, UserFrame, Contents
    <3>4. files[Backup(n)] = "absent" => files'[Backup(n)] = "absent"
      BY <3>1, UserFrame
    <3> QED BY <1>1, <3>1, <3>2, <3>3, <3>4, Contents DEF Inspected, Target, n
  <2>2. CASE ~ (pc[p] \in {"unlink", "backup", "rename"} /\ ~ Overlap)
    BY <1>1, <2>2 DEF Inspected
  <2> QED BY <2>1, <2>2
<1>4. Effected(p)' /\ Unforced(p)'
  BY <1>1 DEF Effected, Unforced
<1> QED BY <1>2, <1>3, <1>4 DEF RunOK

LEMMA StepsOneAtATime ==
  ASSUME TypeOK, OneAtATime, Next
  PROVE  OneAtATime'
<1>1. CASE UserActs
  <2>1. Active' = Active /\ \A p \in Install : ~ quiet'[p]
    BY <1>1 DEF UserActs, Active
  <2> QED BY <2>1 DEF OneAtATime
<1>2. ASSUME NEW p \in Install, CallInstall(p)
      PROVE  OneAtATime'
  <2>1. /\ \A q \in Install : quiet'[q] => q = p /\ Active = {}
        /\ Overlap \/ Active = {}
        /\ Active' \subseteq Active \cup {p}
    <3>1. quiet' = [q \in Install |-> q = p /\ Active = {}] /\ (Overlap \/ Active = {})
      BY <1>2 DEF CallInstall, Begin
    <3>2. \A q \in Install : quiet'[q] => q = p /\ Active = {}
      BY <3>1, Zenon
    <3>3. \A q \in Install \ {p} : pc'[q] = pc[q]
      BY <1>2 DEF CallInstall, Begin, Goto, TypeOK
    <3>4. Active' \subseteq Active \cup {p}
      BY <3>3 DEF Active
    <3> QED BY <3>1, <3>2, <3>4
  <2>2. Active = {} => Active' \subseteq {p}
    BY <2>1
  <2>3. \A q \in Install : quiet'[q] => Active' \subseteq {q}
    BY <2>1, <2>2, Zenon
  <2>4. ~ Overlap => \A q, r \in Active' : q = r
    BY <2>1, <2>2
  <2> QED BY <2>3, <2>4 DEF OneAtATime
<1>3. ASSUME NEW p \in Install, Working(p)
      PROVE  OneAtATime'
  <2>1. quiet' = quiet /\ Active' \subseteq Active
    BY <1>3, WorkingFrame DEF Active
  <2> QED BY <2>1 DEF OneAtATime
<1> QED BY <1>1, <1>2, <1>3 DEF Next, Step, Working

-----------------------------------------------------------------------------
(* What a run was not told of stays so.                                     *)
LEMMA BlindKept ==
  ASSUME TypeOK, \A p \in Install : RunOK(p), Next, NEW path, Blind(path)
  PROVE  Blind(path)'
<1>1. PICK q \in Install : opts[q].symlink /\ path \in unseen[q]
  BY DEF Blind
<1>2. CASE UserActs
  BY <1>1, <1>2 DEF UserActs, Blind
<1>3. ASSUME NEW p \in Install, CallInstall(p)
      PROVE  Blind(path)'
  <2>1. PICK lost \in SUBSET source : Begin(p, source \ lost, lost)
    BY <1>3 DEF CallInstall
  <2>2. pc[p] = "idle" /\ unseen[p] = {}
    BY <2>1 DEF Begin, RunOK, Reported
  <2>3. q # p
    BY <1>1, <2>2
  <2>4. unseen'[q] = unseen[q]
    BY <2>1, <2>3 DEF Begin, Ask, TypeOK
  <2>5. opts'[q] = opts[q]
    <3>1. PICK s \in BOOLEAN, f \in BOOLEAN :
            opts' = [opts EXCEPT ![p] = [symlink |-> s, force |-> f]]
      BY <2>1 DEF Begin
    <3> QED BY <2>3, <3>1 DEF TypeOK
  <2> QED BY <1>1, <2>4, <2>5 DEF Blind
<1>4. ASSUME NEW p \in Install, Working(p)
      PROVE  Blind(path)'
  <2>1. opts' = opts
    BY <1>4, WorkingFrame
  <2>2. unseen'[q] = unseen[q] \/ q = p
    BY <1>4, WorkingFrame
  <2>3. path \in unseen'[q]
    <3>1. ASSUME NEW lost, Ask(p, lost)
          PROVE  path \in unseen'[q]
      BY <1>1, <2>2, <3>1 DEF Ask, TypeOK
    <3>2. CASE ExistingHooks(p)
      BY <3>1, <3>2 DEF ExistingHooks
    <3>3. CASE LinkUnread(p) \/ BackupUnseen(p)
      BY <3>1, <3>3 DEF LinkUnread, BackupUnseen
    <3>4. CASE UNCHANGED unseen
      BY <1>1, <3>4
    <3> QED BY <1>4, <3>2, <3>3, <3>4 DEF Working, ReadConfig, SetConfig, Elsewhere,
            Inspect, RemoveLegacy, InspectBackup, MoveAside, Symlink, Done, CallFails,
            Killed, History
  <2> QED BY <1>1, <2>1, <2>3 DEF Blind
<1> QED BY <1>2, <1>3, <1>4 DEF Next, Step, Working

(* What users made stays where it is, moves to its .bak, or is taken away   *)
(* by a user, unless the Lstat of the .bak failed.                          *)
LEMMA MoveAsideLosesNothing ==
  ASSUME TypeOK, NothingLost, ~ Overlap, \A p \in Install : RunOK(p), Next,
         NEW p \in Install, MoveAside(p)
  PROVE  NothingLost'
<1> DEFINE n == Current(p)
<1>1. pc[p] = "rename" /\ todo[p] # {} /\ owned' = owned /\ opts[p].symlink
  BY DEF MoveAside, RunOK, Reported, Linking
<1>2. n \in Name
  BY <1>1, CurrentListed
<1>3. Hook(n) \in Path /\ Backup(n) \in Path /\ Hook(n) # Backup(n)
  BY <1>2, Paths
<1> HIDE DEF n
<1>4. /\ files[Hook(n)] \in Mine \/ Blind(Hook(n))
      /\ files[Backup(n)] = "absent" \/ Blind(Backup(n))
  BY <1>1 DEF n, RunOK, Inspected, Target, Blind
<1>5. CASE UNCHANGED files
  BY <1>1, <1>5, BlindKept DEF NothingLost, OwnedStays, BackupIsTheUsers
<1>6. CASE files' = [files EXCEPT ![Backup(n)] = files[Hook(n)], ![Hook(n)] = "absent"]
  <2>1. ASSUME NEW o \in owned, ~ Blind(Backup(o[1]))'
        PROVE  o[2] \in {files'[Hook(o[1])], files'[Backup(o[1])]}
    <3>1. o[1] \in Name /\ o[2] \in Mine
      BY DEF TypeOK
    <3>2. ~ Blind(Backup(o[1]))
      BY <2>1, BlindKept
    <3>3. o[2] \in {files[Hook(o[1])], files[Backup(o[1])]}
      BY <3>2 DEF NothingLost, OwnedStays
    <3>4. CASE o[1] = n
      <4>1. o[2] = files[Hook(n)]
        BY <1>4, <3>1, <3>2, <3>3, <3>4, Contents
      <4> QED BY <1>3, <1>6, <3>4, <4>1 DEF TypeOK
    <3>5. CASE o[1] # n
      <4>1. /\ Hook(o[1]) \in Path /\ Hook(o[1]) # Hook(n) /\ Hook(o[1]) # Backup(n)
            /\ Backup(o[1]) \in Path /\ Backup(o[1]) # Hook(n)
            /\ Backup(o[1]) # Backup(n)
        BY <1>2, <3>1, <3>5, Paths
      <4> QED BY <1>6, <3>3, <4>1 DEF TypeOK
    <3> QED BY <3>4, <3>5
  <2>2. ASSUME NEW m \in Name, ~ Blind(Hook(m))'
        PROVE  files'[Backup(m)] \in {"absent"} \cup Mine
    <3>1. Backup(m) \in Path /\ Backup(m) # Hook(n)
      BY <1>2, Paths
    <3>2. ~ Blind(Hook(m))
      BY <2>2, BlindKept
    <3>3. files[Backup(m)] \in {"absent"} \cup Mine
      BY <3>2 DEF NothingLost, BackupIsTheUsers
    <3>4. CASE m = n
      BY <1>3, <1>4, <1>6, <3>2, <3>4 DEF TypeOK
    <3>5. CASE m # n
      <4>1. Backup(m) # Backup(n)
        BY <1>2, <3>5, Paths
      <4> QED BY <1>6, <3>1, <3>3, <4>1 DEF TypeOK
    <3> QED BY <3>4, <3>5
  <2> QED BY <1>1, <2>1, <2>2 DEF NothingLost, OwnedStays, BackupIsTheUsers
<1> QED BY <1>5, <1>6 DEF n, MoveAside, Target

(* Links are only removed, and only made where there is nothing.            *)
LEMMA LinksCoverNothing ==
  ASSUME TypeOK, NothingLost, ~ Overlap, \A p \in Install : RunOK(p), Next,
         NEW p \in Install, RemoveLegacy(p) \/ Symlink(p)
  PROVE  NothingLost'
<1> DEFINE n == Current(p)
<1>1. pc[p] \in {"unlink", "link"} /\ todo[p] # {} /\ owned' = owned
  BY DEF RemoveLegacy, Symlink, History, RunOK, Reported
<1>2. n \in Name
  BY <1>1, CurrentListed
<1>3. Hook(n) \in Path
  BY <1>2, Paths
<1> HIDE DEF n
<1>4. \/ UNCHANGED files
      \/ /\ files[Hook(n)] \in {"legacy", "absent"}
         /\ \E c \in Content : files' = [files EXCEPT ![Hook(n)] = c]
  BY <1>1, Contents DEF n, RemoveLegacy, Symlink, RunOK, Inspected, Target, Put
<1>5. CASE UNCHANGED files
  BY <1>1, <1>5, BlindKept DEF NothingLost, OwnedStays, BackupIsTheUsers
<1>6. ASSUME NEW c \in Content, files' = [files EXCEPT ![Hook(n)] = c],
             files[Hook(n)] \in {"legacy", "absent"}
      PROVE  NothingLost'
  <2>1. ASSUME NEW o \in owned, ~ Blind(Backup(o[1]))'
        PROVE  o[2] \in {files'[Hook(o[1])], files'[Backup(o[1])]}
    <3>1. o[1] \in Name /\ o[2] \in Mine
      BY DEF TypeOK
    <3>2. o[2] \in {files[Hook(o[1])], files[Backup(o[1])]}
      BY <2>1, BlindKept DEF NothingLost, OwnedStays
    <3>3. /\ Hook(o[1]) \in Path /\ (o[1] = n \/ Hook(o[1]) # Hook(n))
          /\ Backup(o[1]) \in Path /\ Backup(o[1]) # Hook(n)
      BY <1>2, <3>1, Paths
    <3>4. files'[Backup(o[1])] = files[Backup(o[1])]
      BY <1>6, <3>3 DEF TypeOK
    <3>5. o[2] = files[Hook(o[1])] => o[1] # n
      BY <1>6, <3>1, Contents
    <3> QED BY <1>6, <3>2, <3>3, <3>4, <3>5 DEF TypeOK
  <2>2. ASSUME NEW m \in Name, ~ Blind(Hook(m))'
        PROVE  files'[Backup(m)] \in {"absent"} \cup Mine
    <3>1. Backup(m) \in Path /\ Backup(m) # Hook(n)
      BY <1>2, Paths
    <3>2. ~ Blind(Hook(m))
      BY <2>2, BlindKept
    <3> QED BY <1>6, <3>1, <3>2 DEF NothingLost, BackupIsTheUsers, TypeOK
  <2> QED BY <1>1, <2>1, <2>2 DEF NothingLost, OwnedStays, BackupIsTheUsers
<1> QED BY <1>4, <1>5, <1>6

LEMMA UserLosesNothing ==
  ASSUME TypeOK, NothingLost, UserActs
  PROVE  NothingLost'
<1>0. ASSUME NEW path PROVE Blind(path)' <=> Blind(path)
  BY DEF UserActs, Blind
<1>1. BackupIsTheUsers'
  BY <1>0, UserFrame DEF NothingLost, BackupIsTheUsers
<1>2. ASSUME NEW o \in owned', ~ Blind(Backup(o[1]))
      PROVE  o[2] \in {files'[Hook(o[1])], files'[Backup(o[1])]}
  <2>1. CASE UNCHANGED <<files, owned>>
    BY <1>2, <2>1 DEF NothingLost, OwnedStays
  <2>2. ASSUME NEW n \in Name, NEW mine \in Mine,
               files[Hook(n)] = "absent", files' = [files EXCEPT ![Hook(n)] = mine],
               owned' = owned \cup {<<n, mine>>}
        PROVE  o[2] \in {files'[Hook(o[1])], files'[Backup(o[1])]}
    <3>1. CASE o = <<n, mine>>
      BY <2>2, <3>1, Paths DEF TypeOK
    <3>2. CASE o \in owned
      <4>1. o[1] \in Name /\ o[2] \in Mine
        BY <3>2 DEF TypeOK
      <4>2. o[2] \in {files[Hook(o[1])], files[Backup(o[1])]}
        BY <1>2, <3>2 DEF NothingLost, OwnedStays
      <4>3. /\ Hook(o[1]) \in Path /\ (o[1] = n \/ Hook(o[1]) # Hook(n))
            /\ Backup(o[1]) \in Path /\ Backup(o[1]) # Hook(n)
        BY <4>1, Paths
      <4>4. o[2] = files[Hook(o[1])] => o[1] # n
        BY <2>2, <4>1, Contents
      <4>5. files'[Backup(o[1])] = files[Backup(o[1])]
        BY <2>2, <4>3 DEF TypeOK
      <4> QED BY <2>2, <4>2, <4>3, <4>4, <4>5 DEF TypeOK
    <3> QED BY <2>2, <3>1, <3>2
  <2>3. ASSUME NEW n \in Name, files' = [files EXCEPT ![Backup(n)] = "absent"],
               owned' = owned \ {<<n, files[Backup(n)]>>}
        PROVE  o[2] \in {files'[Hook(o[1])], files'[Backup(o[1])]}
    <3>1. o \in owned /\ o # <<n, files[Backup(n)]>>
      BY <2>3
    <3>2. o[1] \in Name /\ o = <<o[1], o[2]>>
      BY <3>1 DEF TypeOK
    <3>3. o[2] \in {files[Hook(o[1])], files[Backup(o[1])]}
      BY <1>2, <3>1 DEF NothingLost, OwnedStays
    <3>4. /\ Hook(o[1]) \in Path /\ Hook(o[1]) # Backup(n) /\ Backup(o[1]) \in Path
          /\ o[1] = n \/ Backup(o[1]) # Backup(n)
      BY <2>3, <3>2, Paths
    <3>5. files'[Hook(o[1])] = files[Hook(o[1])]
      BY <2>3, <3>4 DEF TypeOK
    <3>6. o[2] = files[Backup(o[1])] => o[1] # n
      BY <3>1, <3>2
    <3> QED BY <2>3, <3>3, <3>4, <3>5, <3>6 DEF TypeOK
  <2> QED BY <2>1, <2>2, <2>3 DEF UserActs, Put
<1> QED BY <1>0, <1>1, <1>2 DEF NothingLost, OwnedStays

LEMMA NothingLostKept ==
  ASSUME TypeOK, NothingLost, ~ Overlap, \A p \in Install : RunOK(p), Next
  PROVE  NothingLost'
<1>1. ASSUME NEW p \in Install, Step(p), ~ (RemoveLegacy(p) \/ MoveAside(p) \/ Symlink(p))
      PROVE  NothingLost'
  <2>1. UNCHANGED <<files, owned>>
    <3>1. CASE CallInstall(p)
      BY <3>1 DEF CallInstall, Begin
    <3>2. CASE ExistingHooks(p)
      BY <3>2 DEF ExistingHooks
    <3>3. CASE LinkUnread(p) \/ BackupUnseen(p)
      BY <3>3 DEF LinkUnread, BackupUnseen
    <3>4. CASE ReadConfig(p) \/ SetConfig(p) \/ Elsewhere(p) \/ Inspect(p)
               \/ InspectBackup(p) \/ Done(p) \/ CallFails(p) \/ Killed(p)
      BY <3>4 DEF ReadConfig, SetConfig, Elsewhere, Inspect, InspectBackup, Done,
         CallFails, Killed, History
    <3> QED BY <1>1, <3>1, <3>2, <3>3, <3>4 DEF Step
  <2>2. ASSUME NEW path, Blind(path)
        PROVE  Blind(path)'
    BY <2>2, BlindKept
  <2>3. OwnedStays'
    BY <2>1, <2>2 DEF NothingLost, OwnedStays
  <2>4. BackupIsTheUsers'
    BY <2>1, <2>2 DEF NothingLost, BackupIsTheUsers
  <2> QED BY <2>3, <2>4 DEF NothingLost
<1> QED BY <1>1, MoveAsideLosesNothing, LinksCoverNothing, UserLosesNothing DEF Next

-----------------------------------------------------------------------------
LEMMA InitialState ==
  ASSUME Init
  PROVE  HooksInvariant
<1>1. /\ files \in [Path -> Content] /\ BackupIsTheUsers
      /\ setting \in Setting /\ source \in SUBSET Name
  BY DEF Init, BackupIsTheUsers
<1>2. TypeOK
  <2>1. /\ pc \in [Install -> Ended \cup {"idle", "config", "existing", "set",
               "elsewhere", "inspect", "unlink", "backup", "rename", "link"}]
        /\ opts \in [Install -> [symlink : BOOLEAN, force : BOOLEAN]]
        /\ todo \in [Install -> SUBSET source]
    BY DEF Init
  <2>2. /\ report \in [Install -> Report] /\ moved \in [Install -> SUBSET source]
        /\ owned \in SUBSET (Name \X Mine) /\ unseen \in [Install -> SUBSET File]
    BY DEF Init, Nothing, Report
  <2>3. /\ before \in [Install -> [files : [Path -> Content], setting : Setting]]
        /\ quiet \in [Install -> BOOLEAN] /\ faults \in 0 .. MaxFaults
    BY <1>1, FaultAssumption DEF Init
  <2> QED BY <1>1, <2>1, <2>2, <2>3 DEF TypeOK
<1>3. OneAtATime
  BY DEF Init, OneAtATime, Active
<1>4. ASSUME NEW p \in Install
      PROVE  RunOK(p)
  <2>1. pc[p] = "idle" /\ report[p] = Nothing /\ moved[p] = {} /\ quiet[p] = FALSE
        /\ unseen[p] = {}
    BY DEF Init
  <2>2. Reported(p)
    BY <2>1 DEF Reported, Linking, Nothing
  <2> QED BY <2>1, <2>2 DEF RunOK, Inspected, Effected, Unforced
<1>5. OwnedStays
  BY DEF Init, OwnedStays
<1> QED BY <1>1, <1>2, <1>3, <1>4, <1>5, InvariantByRun DEF NothingLost

LEMMA InvariantKept ==
  ASSUME HooksInvariant, [Next]_vars
  PROVE  HooksInvariant'
<1>1. /\ TypeOK /\ OneAtATime /\ \A p \in Install : RunOK(p)
      /\ ~ Overlap => NothingLost
  BY InvariantByRun
<1>2. CASE Next
  <2>1. TypeOK'
    <3>1. \A p \in Install : Reported(p)
      BY <1>1 DEF RunOK
    <3> QED BY <1>1, <1>2, <3>1, BeginTyped, ConfigTyped, LinkTyped, StopTyped, UserTyped
            DEF Next, Step
  <2>2. OneAtATime'
    BY <1>1, <1>2, StepsOneAtATime
  <2>3. ASSUME NEW p \in Install, Step(p), NEW q \in Install
        PROVE  RunOK(q)'
    <3>1. CASE q = p
      BY <1>1, <2>3, <3>1, BeginKeeps, ConfigKeeps, StopKeeps, InspectKeeps, UnseenKeeps,
         RemoveLegacyKeeps, MoveAsideKeeps, SymlinkKeeps DEF Step
    <3>2. CASE q # p
      BY <1>1, <2>3, <3>2, OthersKept DEF Step, Working
    <3> QED BY <3>1, <3>2
  <2>4. \A q \in Install : RunOK(q)'
    BY <1>1, <1>2, <2>3, UserKeeps DEF Next
  <2>5. ~ Overlap => NothingLost'
    BY <1>1, <1>2, NothingLostKept
  <2>6. (HooksInvariant <=> /\ TypeOK /\ OneAtATime /\ \A p \in Install : RunOK(p)
                            /\ ~ Overlap => NothingLost)'
    BY InvariantByRun, PTL
  <2> QED BY <2>1, <2>2, <2>4, <2>5, <2>6
<1>3. CASE UNCHANGED vars
  <2> USE <1>3 DEF vars
  <2>1. TypeOK' /\ OneAtATime'
    BY <1>1 DEF TypeOK, OneAtATime, Active
  <2>2. ReportSoFar' /\ ForceIsAsked'
    BY DEF HooksInvariant, ReportSoFar, ForceIsAsked, Found
  <2>3. AsInspected'
    BY DEF HooksInvariant, AsInspected, Target, Current
  <2>4. EffectSoFar'
    BY DEF HooksInvariant, EffectSoFar, Target, Current, Found
  <2>5. ~ Overlap => NothingDeleted' /\ BackupIsTheUsers'
    BY DEF HooksInvariant, NothingDeleted, BackupIsTheUsers, Blind
  <2> QED BY <2>1, <2>2, <2>3, <2>4, <2>5 DEF HooksInvariant
<1> QED BY <1>2, <1>3

(* The invariant of setup-hooks, for any number of runs that may overlap.   *)
THEOREM HooksAlwaysInvariant == Spec => []HooksInvariant
BY InitialState, InvariantKept, PTL DEF Spec

(* What a run nobody disturbed reports as installed is every hook it found, *)
(* and that is what git runs, or the user has been warned; and the user has *)
(* been warned of each hook seen that stops running (hooks.go:75, 114-125,  *)
(* 146-148).                                                                *)
THEOREM InstalledIsInEffect == Spec => []InstalledInEffect
<1>1. HooksInvariant => InstalledInEffect
  <2> SUFFICES ASSUME HooksInvariant, NEW p \in Install, pc[p] = "ok", quiet[p]
               PROVE  /\ report[p].installed = Found(p)
                      /\ opts[p].symlink =>
                           /\ \A n \in Found(p) : files[Hook(n)] = "ours"
                           /\ setting \in {"unset", "default"} \/ report[p].warned
                      /\ ~ opts[p].symlink =>
                           /\ setting = "source" /\ files = before[p].files
                           /\ \A a \in Path \ unseen[p] :
                                files[a] \in Mine => report[p].warned
    BY DEF InstalledInEffect
  <2>1. /\ report[p].installed = Found(p)
        /\ opts[p].symlink => todo[p] = {}
    BY DEF HooksInvariant, ReportSoFar
  <2>2. opts[p].symlink =>
          /\ \A n \in Found(p) \ todo[p] : files[Hook(n)] = "ours"
          /\ setting \in {"unset", "default"} \/ report[p].warned
    BY DEF HooksInvariant, EffectSoFar, Linking
  <2>3. ~ opts[p].symlink =>
          /\ setting = "source" /\ files = before[p].files
          /\ \A a \in Path \ unseen[p] : files[a] \in Mine => report[p].warned
    BY DEF HooksInvariant, EffectSoFar
  <2> QED BY <2>1, <2>2, <2>3
<1> QED BY <1>1, HooksAlwaysInvariant, PTL

(* Without --force a run takes nothing of the user's away (hooks.go:62-64), *)
(* whatever earlier runs left behind, those that overlapped included.       *)
THEOREM OnlyForceTakesAway == Spec => []ForceIsAsked
<1>1. HooksInvariant => ForceIsAsked
  BY DEF HooksInvariant
<1> QED BY <1>1, HooksAlwaysInvariant, PTL

(* "Nothing the user made is ever deleted" (hooks.go:272) by runs that do   *)
(* not overlap, killed and failing ones included, and what one of them      *)
(* moved aside it reports; a failed Lstat of a .bak is the one exception.   *)
THEOREM UsersFilesAlwaysStay == ASSUME Overlap = FALSE PROVE Spec => []UsersFilesStay
<1>1. HooksInvariant => UsersFilesStay
  BY DEF HooksInvariant, UsersFilesStay
<1> QED BY <1>1, HooksAlwaysInvariant, PTL

(* "The first backup is the pristine one" (hooks.go:273-274) when runs do   *)
(* not overlap: nothing of canga's own ever has the name of a backup, but   *)
(* for a link that could not be read.                                       *)
THEOREM BackupsStayPristine == ASSUME Overlap = FALSE PROVE Spec => []BackupIsTheUsers
<1>1. HooksInvariant => BackupIsTheUsers
  BY DEF HooksInvariant
<1> QED BY <1>1, HooksAlwaysInvariant, PTL
=============================================================================
