---------------------------- MODULE HooksInstall ----------------------------
(***************************************************************************)
(* canga git setup-hooks (internal/hooks/hooks.go): point core.hooksPath   *)
(* at the hooks a repository keeps in .canga/hooks, or link each of them   *)
(* into git's hooks directory.  One action per system call or git command. *)
(* Lstat and the Readlink that follows it are one step: the only outcome   *)
(* that leaves out is a link that vanishes between the two.  A call may    *)
(* fail, and not every failure ends a run: some questions without an       *)
(* answer are passed over, and unseen remembers which.                     *)
(***************************************************************************)
EXTENDS Naturals, FiniteSets

CONSTANTS
  Install,  \* the runs of the command, each started at most once
  Name,     \* hook names: numbers, in sorted order
  Mine,     \* contents of the files users make
  Overlap,  \* whether two runs may be under way at once
  MaxFaults \* bound on failed system calls and killed runs

ASSUME NameAssumption == Name \subseteq Nat
ASSUME MineAssumption == Mine \cap {"absent", "ours", "legacy"} = {}
ASSUME OverlapAssumption == Overlap \in BOOLEAN
ASSUME FaultAssumption == MaxFaults \in Nat

VARIABLES
  files,   \* git's hooks directory
  setting, \* core.hooksPath
  source,  \* the executable files in .canga/hooks
  pc,      \* pc[p]: the call of p that is next, or how p ended
  opts,    \* opts[p]: --symlink and --force
  todo,    \* todo[p]: hooks p has yet to deal with
  report,  \* report[p]: what p will say it did
  owned,   \* history: what users made and did not take away themselves
  unseen,  \* history: the files p asked about in vain and went on
  moved,   \* history: the hooks p moved aside
  before,  \* history: files and setting when p started
  quiet,   \* history: nobody but p acted since p started
  faults   \* history: failures so far

vars == <<files, setting, source, pc, opts, todo, report,
          owned, unseen, moved, before, quiet, faults>>

-----------------------------------------------------------------------------
Path == Name \X {"hook", "bak"}

Hook(n) == <<n, "hook">>

Backup(n) == <<n, "bak">>

(* A file of .canga/hooks.                                                  *)
Source(n) == <<n, "source">>

File == Name \X {"source", "hook", "bak"}

(* "legacy" is the link made when the tool had its old name; "ours" its     *)
(* successor, relative to the hooks directory.                              *)
Content == {"absent", "ours", "legacy"} \cup Mine

(* What core.hooksPath may say: .canga/hooks, its predecessor, git's own    *)
(* hooks directory, anything else ("" included) or nothing.                 *)
Setting == {"unset", "source", "legacy", "default", "other"}

Report == [installed : SUBSET Name, backedUp : SUBSET Name, warned : BOOLEAN]

Nothing == [installed |-> {}, backedUp |-> {}, warned |-> FALSE]

Ended == {"ok", "nohooks", "conflict", "error", "killed"}

Active == {p \in Install : pc[p] \notin Ended \cup {"idle"}}

Goto(p, step) == pc' = [pc EXCEPT ![p] = step]

Fault == faults < MaxFaults /\ faults' = faults + 1

(* The hook of this iteration of the loop.                                  *)
Current(p) == CHOOSE n \in todo[p] : \A m \in todo[p] : n <= m

Target(p) == files[Hook(Current(p))]

Put(path, content) == files' = [files EXCEPT ![path] = content]

History == <<owned, unseen, moved, before, quiet, faults>>

(* Questions p asked in one call, without an answer to those about lost.    *)
Ask(p, lost) ==
  /\ unseen' = [unseen EXCEPT ![p] = @ \cup lost]
  /\ IF lost = {} THEN UNCHANGED faults ELSE Fault

-----------------------------------------------------------------------------
Init ==
  /\ files \in {f \in [Path -> Content] :
       /\ \A n \in Name : f[Backup(n)] \in {"absent"} \cup Mine
       /\ \A a, b \in Path : f[a] \in Mine /\ f[a] = f[b] => a = b}
  /\ setting \in Setting
  /\ source \in SUBSET Name
  /\ pc = [p \in Install |-> "idle"]
  /\ opts = [p \in Install |-> [symlink |-> FALSE, force |-> FALSE]]
  /\ todo = [p \in Install |-> {}]
  /\ report = [p \in Install |-> Nothing]
  /\ owned = {o \in Name \X Mine : o[2] \in {files[Hook(o[1])], files[Backup(o[1])]}}
  /\ unseen = [p \in Install |-> {}]
  /\ moved = [p \in Install |-> {}]
  /\ before = [p \in Install |-> [files |-> files, setting |-> setting]]
  /\ quiet = [p \in Install |-> FALSE]
  /\ faults = 0

Begin(p, names, lost) ==
  /\ pc[p] = "idle"
  /\ Overlap \/ Active = {}
  /\ opts' \in {[opts EXCEPT ![p] = [symlink |-> s, force |-> f]] :
                  s \in BOOLEAN, f \in BOOLEAN}
  /\ todo' = [todo EXCEPT ![p] = names]
  /\ Goto(p, IF names = {} THEN "nohooks"
             ELSE IF opts'[p].symlink THEN "elsewhere" ELSE "config")
  /\ before' = [before EXCEPT ![p] = [files |-> files, setting |-> setting]]
  /\ quiet' = [q \in Install |-> q = p /\ Active = {}]
  /\ Ask(p, {Source(n) : n \in lost})
  /\ UNCHANGED <<files, setting, source, report, owned, moved>>

(* Slip: what is not executable is installed as well.                       *)
CallInstallAll(p) == Begin(p, Name, {})

(* Install: hookNames reads the directory, and passes over what it cannot   *)
(* stat.                                                                    *)
CallInstall(p) == \E lost \in SUBSET source : Begin(p, source \ lost, lost)

(* installHooksPath: the setting of somebody else needs --force.            *)
ReadConfig(p) ==
  /\ pc[p] = "config"
  /\ Goto(p, IF setting \in {"default", "other"} /\ ~ opts[p].force
             THEN "conflict" ELSE "existing")
  /\ UNCHANGED <<files, setting, source, opts, todo, report, History>>

(* existingHooks: regular executable files, which will stop running, among  *)
(* those it can stat.                                                       *)
ExistingHooks(p) ==
  /\ pc[p] = "existing"
  /\ \E lost \in SUBSET {a \in Path : files[a] # "absent"} :
       /\ Ask(p, lost)
       /\ report' = [report EXCEPT ![p].warned =
                       \E a \in Path \ lost : files[a] \in Mine]
  /\ Goto(p, "set")
  /\ UNCHANGED <<files, setting, source, opts, todo, owned, moved, before, quiet>>

SetConfig(p) ==
  /\ pc[p] = "set"
  /\ setting' = "source"
  /\ report' = [report EXCEPT ![p].installed = todo[p]]
  /\ Goto(p, "ok")
  /\ UNCHANGED <<files, source, opts, todo, History>>

(* Slip: any core.hooksPath is taken for one that leads to the links.       *)
ElsewhereIgnored(p) ==
  /\ pc[p] = "elsewhere"
  /\ Goto(p, "inspect")
  /\ UNCHANGED <<files, setting, source, opts, todo, report, History>>

(* hooksPathElsewhere: would git look where the links go?  sameDir says no  *)
(* of a path that it cannot resolve.                                        *)
Elsewhere(p) ==
  \E elsewhere \in IF setting = "default" THEN BOOLEAN ELSE {setting # "unset"} :
    /\ pc[p] = "elsewhere"
    /\ Goto(p, IF elsewhere /\ ~ opts[p].force THEN "conflict" ELSE "inspect")
    /\ report' = [report EXCEPT ![p].warned = elsewhere /\ opts[p].force]
    /\ UNCHANGED <<files, setting, source, opts, todo, History>>

(* clearTarget, what Lstat and Readlink say of the target.                  *)
Inspect(p) ==
  /\ pc[p] = "inspect" /\ todo[p] # {}
  /\ Goto(p, IF Target(p) \in {"absent", "ours"} THEN "link"
             ELSE IF Target(p) = "legacy" THEN "unlink"
             ELSE IF opts[p].force THEN "backup" ELSE "conflict")
  /\ UNCHANGED <<files, setting, source, opts, todo, report, History>>

(* Readlink of a link of canga's fails: it is taken for somebody else's.    *)
LinkUnread(p) ==
  /\ pc[p] = "inspect" /\ todo[p] # {}
  /\ Target(p) \in {"ours", "legacy"}
  /\ Ask(p, {Hook(Current(p))})
  /\ Goto(p, IF opts[p].force THEN "backup" ELSE "conflict")
  /\ UNCHANGED <<files, setting, source, opts, todo, report, owned, moved, before, quiet>>

(* Remove takes whatever is there by now.                                   *)
RemoveLegacy(p) ==
  /\ pc[p] = "unlink"
  /\ Put(Hook(Current(p)), "absent")
  /\ Goto(p, IF Target(p) = "absent" THEN "error" ELSE "link")
  /\ UNCHANGED <<setting, source, opts, todo, report, History>>

(* Slip: an older backup is not looked for.                                 *)
InspectNoBackup(p) ==
  /\ pc[p] = "backup"
  /\ Goto(p, "rename")
  /\ UNCHANGED <<files, setting, source, opts, todo, report, History>>

(* An existing .bak is the pristine one.                                    *)
InspectBackup(p) ==
  /\ pc[p] = "backup"
  /\ Goto(p, IF files[Backup(Current(p))] # "absent" THEN "conflict" ELSE "rename")
  /\ UNCHANGED <<files, setting, source, opts, todo, report, History>>

(* Lstat of the .bak fails, for whatever reason: taken for no backup.       *)
BackupUnseen(p) ==
  /\ pc[p] = "backup"
  /\ Ask(p, {Backup(Current(p))})
  /\ Goto(p, "rename")
  /\ UNCHANGED <<files, setting, source, opts, todo, report, owned, moved, before, quiet>>

(* Rename replaces whatever has the new name.                               *)
MoveAside(p) ==
  LET n == Current(p) IN
    /\ pc[p] = "rename"
    /\ \/ /\ Target(p) = "absent"
          /\ Goto(p, "error")
          /\ UNCHANGED <<files, report, moved>>
       \/ /\ Target(p) # "absent"
          /\ files' = [files EXCEPT ![Backup(n)] = Target(p), ![Hook(n)] = "absent"]
          /\ report' = [report EXCEPT ![p].backedUp = @ \cup {n}]
          /\ moved' = [moved EXCEPT ![p] = @ \cup {n}]
          /\ Goto(p, "link")
    /\ UNCHANGED <<setting, source, opts, todo, owned, unseen, before, quiet, faults>>

(* Symlink does not replace: what is there already is taken for ours.       *)
Symlink(p) ==
  LET n == Current(p) IN
    /\ pc[p] = "link"
    /\ IF Target(p) = "absent" THEN Put(Hook(n), "ours") ELSE UNCHANGED files
    /\ report' = [report EXCEPT ![p].installed = @ \cup {n}]
    /\ todo' = [todo EXCEPT ![p] = @ \ {n}]
    /\ Goto(p, "inspect")
    /\ UNCHANGED <<setting, source, opts, History>>

Done(p) ==
  /\ pc[p] = "inspect" /\ todo[p] = {}
  /\ Goto(p, "ok")
  /\ UNCHANGED <<files, setting, source, opts, todo, report, History>>

(* Any other call fails: the report travels with the error.                 *)
CallFails(p) ==
  /\ p \in Active /\ pc[p] # "backup" /\ ~ (pc[p] = "inspect" /\ todo[p] = {})
  /\ Fault
  /\ Goto(p, "error")
  /\ UNCHANGED <<files, setting, source, opts, todo, report,
                 owned, unseen, moved, before, quiet>>

Killed(p) ==
  /\ p \in Active
  /\ Fault
  /\ Goto(p, "killed")
  /\ UNCHANGED <<files, setting, source, opts, todo, report,
                 owned, unseen, moved, before, quiet>>

-----------------------------------------------------------------------------
(* Users make a hook where there is none, take away a backup they were told *)
(* of, or set core.hooksPath, at any moment of a run.                       *)
UserActs ==
  /\ Active # {}
  /\ quiet' = [p \in Install |-> FALSE]
  /\ \/ /\ \E n \in Name : \E mine \in Mine \ {o[2] : o \in owned} :
             /\ files[Hook(n)] = "absent"
             /\ Put(Hook(n), mine)
             /\ owned' = owned \cup {<<n, mine>>}
        /\ UNCHANGED setting
     \/ /\ \E n \in Name :
             /\ files[Backup(n)] \in Mine
             /\ Put(Backup(n), "absent")
             /\ owned' = owned \ {<<n, files[Backup(n)]>>}
        /\ UNCHANGED setting
     \/ /\ setting' \in {"unset", "other"}
        /\ UNCHANGED <<files, owned>>
  /\ UNCHANGED <<source, pc, opts, todo, report, unseen, moved, before, faults>>

Step(p) ==
  \/ CallInstall(p)
  \/ ReadConfig(p) \/ ExistingHooks(p) \/ SetConfig(p)
  \/ Elsewhere(p) \/ Inspect(p) \/ LinkUnread(p) \/ RemoveLegacy(p)
  \/ InspectBackup(p) \/ BackupUnseen(p) \/ MoveAside(p) \/ Symlink(p)
  \/ Done(p) \/ CallFails(p) \/ Killed(p)

Next == (\E p \in Install : Step(p)) \/ UserActs

Spec == Init /\ [][Next]_vars

-----------------------------------------------------------------------------
(* Every variable stays in its domain; only executable files are installed. *)
TypeOK ==
  /\ files \in [Path -> Content] /\ setting \in Setting /\ source \in SUBSET Name
  /\ pc \in [Install -> Ended \cup {"idle", "config", "existing", "set",
               "elsewhere", "inspect", "unlink", "backup", "rename", "link"}]
  /\ opts \in [Install -> [symlink : BOOLEAN, force : BOOLEAN]]
  /\ todo \in [Install -> SUBSET source]
  /\ report \in [Install -> Report]
  /\ owned \in SUBSET (Name \X Mine) /\ unseen \in [Install -> SUBSET File]
  /\ moved \in [Install -> SUBSET source]
  /\ before \in [Install -> [files : [Path -> Content], setting : Setting]]
  /\ quiet \in [Install -> BOOLEAN] /\ faults \in 0 .. MaxFaults

(* The hooks p found in .canga/hooks.                                       *)
Found(p) == {n \in source : Source(n) \notin unseen[p]}

(* A run that links was not told what is at this path.                      *)
Blind(path) == \E p \in Install : opts[p].symlink /\ path \in unseen[p]

(* "Nothing the user made is ever deleted" (hooks.go:272): whatever a user  *)
(* put there is still there, under its name or under .bak; and a run that   *)
(* moved it there says so, however it ends (hooks.go:69-71).  The one way   *)
(* to lose a file is an Lstat of the .bak that fails (hooks.go:310).        *)
NothingDeleted ==
  /\ \A o \in owned : \/ o[2] \in {files[Hook(o[1])], files[Backup(o[1])]}
                      \/ Blind(Backup(o[1]))
  /\ \A p \in Install :
       pc[p] \in Ended \ {"killed"} => moved[p] = report[p].backedUp

(* "an existing .bak is left alone rather than overwritten: the first       *)
(* backup is the pristine one" (hooks.go:273-274), never a link of canga's, *)
(* unless the link could not be read (hooks.go:289).                        *)
BackupIsTheUsers ==
  \A n \in Name : files[Backup(n)] \in {"absent"} \cup Mine \/ Blind(Hook(n))

(* What is reported as installed is every hook that was found, and it is    *)
(* what git will run, or the user has been warned; and the user has been    *)
(* warned of every hook seen that stops running (hooks.go:75, 114-125,      *)
(* 146-148).                                                                *)
InstalledInEffect ==
  \A p \in Install :
    pc[p] = "ok" /\ quiet[p] =>
      /\ report[p].installed = Found(p)
      /\ IF opts[p].symlink
         THEN /\ \A n \in Found(p) : files[Hook(n)] = "ours"
              /\ setting \in {"unset", "default"} \/ report[p].warned
         ELSE /\ setting = "source" /\ files = before[p].files
              /\ \A a \in Path \ unseen[p] : files[a] \in Mine => report[p].warned

(* Without --force a run takes nothing of the user's away, however far it   *)
(* gets (hooks.go:62-64).                                                   *)
ForceIsAsked ==
  \A p \in Install :
    pc[p] # "idle" /\ quiet[p] /\ ~ opts[p].force =>
      /\ \A a \in Path : before[p].files[a] \in Mine => files[a] = before[p].files[a]
      /\ before[p].setting \in {"default", "other"} => setting = before[p].setting

(* Both: what is the user's is never lost, and not even moved unasked.      *)
UsersFilesStay == NothingDeleted /\ ForceIsAsked

-----------------------------------------------------------------------------
(* Unless runs may overlap, at most one is under way; and one that nobody   *)
(* disturbed is the only one.                                               *)
OneAtATime ==
  /\ \A p \in Install : quiet[p] => Active \subseteq {p}
  /\ ~ Overlap => \A p, q \in Active : p = q

(* What a run has dealt with, and how far its report has got.               *)
Linking == {"inspect", "unlink", "backup", "rename", "link"}

ReportSoFar ==
  \A p \in Install :
    /\ pc[p] = "idle" => report[p] = Nothing /\ moved[p] = {} /\ unseen[p] = {}
    /\ pc[p] \in {"config", "existing", "set"} =>
         ~ opts[p].symlink /\ todo[p] = Found(p)
    /\ pc[p] = "elsewhere" =>
         opts[p].symlink /\ todo[p] = Found(p) /\ report[p].installed = {}
    /\ pc[p] \in Linking =>
         /\ opts[p].symlink /\ todo[p] \subseteq Found(p)
         /\ report[p].installed = Found(p) \ todo[p]
    /\ pc[p] \in {"unlink", "backup", "rename", "link"} => todo[p] # {}
    /\ pc[p] \in {"backup", "rename"} => opts[p].force
    /\ pc[p] = "ok" => report[p].installed = Found(p) /\ (opts[p].symlink => todo[p] = {})
    /\ moved[p] = report[p].backedUp

(* What clearTarget saw is still so when it acts on it.                     *)
AsInspected ==
  \A p \in Install :
    quiet[p] \/ ~ Overlap =>
      /\ pc[p] = "unlink" => Target(p) = "legacy"
      /\ pc[p] \in {"backup", "rename"} =>
           Target(p) \in Mine \/ Hook(Current(p)) \in unseen[p]
      /\ pc[p] = "rename" =>
           files[Backup(Current(p))] = "absent" \/ Backup(Current(p)) \in unseen[p]

(* What an undisturbed run has brought into effect so far.                  *)
EffectSoFar ==
  \A p \in Install :
    quiet[p] =>
      /\ pc[p] \in {"config", "existing", "set"} =>
           files = before[p].files /\ setting = before[p].setting
      /\ pc[p] \in {"existing", "set"} =>
           opts[p].force \/ setting \notin {"default", "other"}
      /\ pc[p] = "ok" /\ ~ opts[p].symlink =>
           setting = "source" /\ files = before[p].files
      /\ pc[p] \in {"set", "ok"} /\ ~ opts[p].symlink =>
           \A a \in Path \ unseen[p] : files[a] \in Mine => report[p].warned
      /\ pc[p] = "link" => Target(p) \in {"absent", "ours"}
      /\ pc[p] \in Linking \cup {"ok"} /\ opts[p].symlink =>
           /\ \A n \in Found(p) \ todo[p] : files[Hook(n)] = "ours"
           /\ setting \in {"unset", "default"} \/ report[p].warned

(* The type invariant and what makes it and the properties above inductive. *)
HooksInvariant ==
  /\ TypeOK /\ OneAtATime /\ ReportSoFar /\ AsInspected /\ EffectSoFar /\ ForceIsAsked
  /\ ~ Overlap => NothingDeleted /\ BackupIsTheUsers
=============================================================================
