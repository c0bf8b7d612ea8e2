------------------------------- MODULE Upgrade -------------------------------
(***************************************************************************)
(* canga upgrade (internal/upgrade): resolve a release, download and check *)
(* its archive, and swap the binary in it for the running one.  Releases   *)
(* come and go, the token may be rejected, downloads arrive damaged, and   *)
(* the machine may lose power.                                             *)
(*                                                                         *)
(* GitHub's "latest" is whatever was published last, not the highest.  A   *)
(* build has an age, the place of its code in the project's history, which *)
(* nothing but its version tells.                                          *)
(***************************************************************************)
EXTENDS ReleaseTag, FiniteSets

CONSTANTS
  Run,          \* upgrades, each started at most once
  Tag,          \* the tags a release may have
  Release,      \* Release[t]: the version that its binary reports, its age,
                \* and whether it is this role's build
  Build,        \* what may run to begin with: versions with their ages
  Typed,        \* what the user may give as --tag
  Floor,        \* MinReleaseTag
  None,         \* no tag
  NoFile,       \* nothing is staged
  ExecAttempts, \* execAttempts
  MaxFaults     \* bound on failures, damaged downloads and power losses

ASSUME ReleaseAssumption ==
  /\ Floor \in Name /\ IsCanonical(Floor)
  /\ Tag \subseteq Name /\ Typed \subseteq Name /\ Build \subseteq Name \X Nat
  /\ \A t \in Tag : Release[t] \in [version : Name, age : Nat, mine : BOOLEAN]
ASSUME NoneAssumption == None \notin Name
ASSUME NumberAssumption == ExecAttempts \in Nat \ {0} /\ MaxFaults \in Nat

VARIABLES
  published, \* the releases GitHub serves
  latest,    \* the one it calls latest
  valid,     \* GitHub still accepts the token
  busy,      \* a forked process still holds a staged file open for writing
  installed, \* the file on PATH
  shadow,    \* what the directory may still say after a power loss
  pc,        \* pc[p]: the step of p that is next, or how p ended
  opts,      \* opts[p]: --tag, --check, whether there is a token, and what runs
  found,     \* found[p]: the release p resolved
  token,     \* token[p]: the client of p still sends the token
  archive,   \* archive[p]: the bytes p downloaded are the ones published
  staged,    \* staged[p]: the file p is staging
  tries,     \* tries[p]: times the staged file was executed
  rejected,  \* history: requests of p turned down with 401
  alone,     \* history: nobody else replaced the binary since p started
  faults     \* history: faults so far

server == <<published, latest, valid>>

request == <<opts, found, token, archive, rejected>>

vars == <<server, busy, installed, shadow, pc, request, staged, tries, alone, faults>>

-----------------------------------------------------------------------------
Versions == {b[1] : b \in Build} \cup {Release[t].version : t \in Tag}

File == [version : Versions, age : Nat, mine : BOOLEAN, whole : BOOLEAN, flushed : BOOLEAN]

ASSUME NoFileAssumption == NoFile \notin File

Options == [tag : Typed \cup {None}, check : BOOLEAN, token : BOOLEAN, current : Versions]

Ended == {"installed", "nothing", "refused", "missing", "failed", "killed"}

Active == {p \in Run : pc[p] \notin Ended \cup {"idle"}}

Goto(p, step) == pc' = [pc EXCEPT ![p] = step]

Fault == faults < MaxFaults /\ faults' = faults + 1

(* What an archive has to hold for verifyRuns.                              *)
Fits(t) == Release[t].mine /\ SameTag(Release[t].version, t)

(* What may come to be on PATH: builds and releases, each with its age.     *)
Code == Build \cup {<<Release[t].version, Release[t].age>> : t \in {u \in Tag : Fits(u)}}

(* Versions go up with the history: code that bears the number of a release *)
(* or of a candidate is older than any release that semver puts above it.   *)
(* Of builds past a tag, of changed trees and of hashes nothing is assumed. *)
ASSUME HistoryAssumption ==
  \A c \in Code : c[1].tail \notin {"described", "dirty"} /\ Len(c[1].core) > 1 =>
    \A t \in Tag : Fits(t) /\ Exceeds(t, NormalizeTag(c[1])) => c[2] < Release[t].age

(* What the staged file would be, were it renamed now.                      *)
Built(p, flushed) ==
  LET build == Release[found[p]]
  IN  [version |-> build.version, age |-> build.age, mine |-> build.mine,
       whole |-> archive[p], flushed |-> flushed]

-----------------------------------------------------------------------------
Init ==
  /\ published \in (SUBSET Tag) \ {{}}
  /\ latest \in published
  /\ valid \in BOOLEAN
  /\ busy = FALSE
  /\ \E b \in Build :
       installed = [version |-> b[1], age |-> b[2],
                    mine |-> TRUE, whole |-> TRUE, flushed |-> TRUE]
  /\ shadow = {}
  /\ pc = [p \in Run |-> "idle"]
  /\ opts = [p \in Run |-> [tag |-> None, check |-> FALSE, token |-> FALSE,
                            current |-> installed.version]]
  /\ found = [p \in Run |-> None]
  /\ token = [p \in Run |-> FALSE]
  /\ archive = [p \in Run |-> FALSE]
  /\ staged = [p \in Run |-> NoFile]
  /\ tries = [p \in Run |-> 0]
  /\ rejected = [p \in Run |-> 0]
  /\ alone = [p \in Run |-> FALSE]
  /\ faults = 0

(* The tag a run looks for: the user may leave out the v.                   *)
Wanted(o) == IF o.tag = None THEN None ELSE NormalizeTag(o.tag)

Begin(p, o) ==
  /\ pc[p] = "idle"
  /\ opts' = [opts EXCEPT ![p] = o]
  /\ token' = [token EXCEPT ![p] = o.token]
  /\ Goto(p, IF IF o.tag = None THEN IsRelease(o.current)
                ELSE IsReleaseTag(Wanted(o)) /\ AboveFloor(Floor, Wanted(o))
             THEN "resolve" ELSE "refused")
  /\ alone' = [alone EXCEPT ![p] = TRUE]
  /\ UNCHANGED <<server, busy, installed, shadow, found, archive, rejected,
                 staged, tries, faults>>

(* wantedTag, on the platform the role is published for: a named tag must   *)
(* be above the floor; without one the running binary must be a release.    *)
CallRun(p) ==
  /\ installed.whole
  /\ \E o \in Options : o.current = installed.version /\ Begin(p, o)

(* Slips: a rejected token ends the run; it is sent again and again.        *)
TokenRefused(p) ==
  /\ pc[p] \in {"resolve", "checksums", "archive"}
  /\ token[p] /\ ~ valid
  /\ rejected' = [rejected EXCEPT ![p] = @ + 1]
  /\ Goto(p, "failed")
  /\ UNCHANGED <<server, busy, installed, shadow, opts, found, token, archive,
                 staged, tries, alone, faults>>

TokenKept(p) ==
  /\ pc[p] \in {"resolve", "checksums", "archive"}
  /\ token[p] /\ ~ valid
  /\ rejected' = [rejected EXCEPT ![p] = @ + 1]
  /\ UNCHANGED <<server, busy, installed, shadow, pc, opts, found, token,
                 archive, staged, tries, alone, faults>>

(* fetch: the client forgets a token GitHub rejects and asks again.         *)
TokenRejected(p) ==
  /\ pc[p] \in {"resolve", "checksums", "archive"}
  /\ token[p] /\ ~ valid
  /\ token' = [token EXCEPT ![p] = FALSE]
  /\ rejected' = [rejected EXCEPT ![p] = @ + 1]
  /\ UNCHANGED <<server, busy, installed, shadow, pc, opts, found, archive,
                 staged, tries, alone, faults>>

Served(p) == token[p] => valid

(* Slip: the answer is not compared with the tag that was asked for.        *)
NextStepUnasked(p, v) ==
  IF ~ AboveFloor(Floor, v) THEN "refused"
  ELSE IF opts[p].check \/ (opts[p].tag = None /\ ~ IsNewer(opts[p].current, v))
  THEN "nothing" ELSE "checksums"

(* checkResolvedRelease and the rest of Run's decisions about release v.    *)
NextStep(p, v) ==
  IF Wanted(opts[p]) \notin {None, v} \/ ~ AboveFloor(Floor, v) THEN "refused"
  ELSE IF opts[p].check \/ (opts[p].tag = None /\ ~ IsNewer(opts[p].current, v))
  THEN "nothing" ELSE "checksums"

(* A named tag is looked up by name; a server that answers with another     *)
(* release counts as a fault.  The downloads get a client of their own,     *)
(* which has the token again.                                               *)
ResolveRelease(p) ==
  LET tag == Wanted(opts[p]) IN
    /\ pc[p] = "resolve" /\ Served(p)
    /\ \/ /\ tag # None /\ tag \notin published
          /\ Goto(p, "missing")
          /\ UNCHANGED <<found, token, faults>>
       \/ \E v \in published :
            /\ \/ v = (IF tag = None THEN latest ELSE tag) /\ UNCHANGED faults
               \/ tag \notin {None, v} /\ Fault
            /\ found' = [found EXCEPT ![p] = v]
            /\ token' = [token EXCEPT ![p] = opts[p].token]
            /\ Goto(p, NextStep(p, v))
    /\ UNCHANGED <<server, busy, installed, shadow, opts, archive, rejected,
                   staged, tries, alone>>

(* An asset is served by its id, which goes away with its release.          *)
DownloadChecksums(p) ==
  /\ pc[p] = "checksums" /\ Served(p)
  /\ Goto(p, IF found[p] \in published THEN "archive" ELSE "missing")
  /\ UNCHANGED <<server, busy, installed, shadow, request, staged, tries,
                 alone, faults>>

(* The archive, verifyChecksum and extractBinary.                           *)
DownloadArchive(p) ==
  /\ pc[p] = "archive" /\ Served(p)
  /\ \E intact \in BOOLEAN :
       /\ IF intact THEN UNCHANGED faults ELSE Fault
       /\ archive' = [archive EXCEPT ![p] = intact]
       /\ Goto(p, IF found[p] \notin published THEN "missing"
                  ELSE IF intact THEN "stage" ELSE "refused")
  /\ UNCHANGED <<server, busy, installed, shadow, opts, found, token, rejected,
                 staged, tries, alone>>

(* CreateTemp beside the target.                                            *)
CreateStaged(p) ==
  /\ pc[p] = "stage"
  /\ staged' = [staged EXCEPT ![p] =
                  [Built(p, FALSE) EXCEPT !.whole = FALSE]]
  /\ Goto(p, "write")
  /\ UNCHANGED <<server, busy, installed, shadow, request, tries, alone, faults>>

(* Slip: the file is not flushed before it is renamed.                      *)
WriteUnflushed(p) ==
  /\ pc[p] = "write"
  /\ staged' = [staged EXCEPT ![p] = Built(p, FALSE)]
  /\ busy' \in {busy, TRUE}
  /\ Goto(p, "verify")
  /\ UNCHANGED <<server, installed, shadow, request, tries, alone, faults>>

(* writeStaged: write, chmod, sync, close.  Meanwhile a fork elsewhere may  *)
(* have inherited the descriptor.                                           *)
WriteStaged(p) ==
  /\ pc[p] = "write"
  /\ staged' = [staged EXCEPT ![p] = Built(p, TRUE)]
  /\ busy' \in {busy, TRUE}
  /\ Goto(p, "verify")
  /\ UNCHANGED <<server, installed, shadow, request, tries, alone, faults>>

(* Slip: every ETXTBSY is retried.                                          *)
RunBusyAlways(p) ==
  /\ pc[p] = "verify" /\ busy
  /\ UNCHANGED vars

(* runVersion: ETXTBSY is retried, execAttempts times in all.               *)
RunBusy(p) ==
  /\ pc[p] = "verify" /\ busy
  /\ tries' = [tries EXCEPT ![p] = @ + 1]
  /\ Goto(p, IF tries'[p] = ExecAttempts THEN "remove" ELSE "verify")
  /\ UNCHANGED <<server, busy, installed, shadow, request, staged, alone, faults>>

(* verifyRuns: it must report the tag that was found and the running role.  *)
RunStaged(p) ==
  /\ pc[p] = "verify" /\ ~ busy
  /\ Goto(p, IF staged[p].mine /\ SameTag(staged[p].version, found[p])
             THEN "rename" ELSE "remove")
  /\ UNCHANGED <<server, busy, installed, shadow, request, staged, tries,
                 alone, faults>>

Rename(p) ==
  /\ pc[p] = "rename"
  /\ installed' = staged[p]
  /\ shadow' = shadow \cup {installed}
  /\ staged' = [staged EXCEPT ![p] = NoFile]
  /\ alone' = [q \in Run |-> q = p /\ alone[p]]
  /\ Goto(p, "installed")
  /\ UNCHANGED <<server, busy, request, tries, faults>>

(* The deferred Remove of a run that fails; its own failure is left out.    *)
RemoveStaged(p) ==
  /\ pc[p] = "remove"
  /\ staged' = [staged EXCEPT ![p] = NoFile]
  /\ Goto(p, "failed")
  /\ UNCHANGED <<server, busy, installed, shadow, request, tries, alone, faults>>

(* Slip: what failed before the rename is left where it is.                 *)
CallFailsLeft(p) ==
  /\ p \in Active /\ pc[p] # "remove"
  /\ Fault
  /\ Goto(p, "failed")
  /\ UNCHANGED <<server, busy, installed, shadow, request, staged, tries, alone>>

(* The network, the disk, the clock or a Ctrl-C.                            *)
CallFails(p) ==
  /\ p \in Active /\ pc[p] # "remove"
  /\ Fault
  /\ Goto(p, IF staged[p] = NoFile THEN "failed" ELSE "remove")
  /\ UNCHANGED <<server, busy, installed, shadow, request, staged, tries, alone>>

-----------------------------------------------------------------------------
(* What was not flushed is torn; the directory may say what it said before. *)
PowerLoss ==
  /\ Active # {} \/ shadow # {}
  /\ Fault
  /\ \E file \in shadow \cup {installed} :
       installed' = [file EXCEPT !.whole = @ /\ file.flushed]
  /\ shadow' = {}
  /\ pc' = [p \in Run |-> IF p \in Active THEN "killed" ELSE pc[p]]
  /\ busy' = FALSE
  /\ UNCHANGED <<server, request, staged, tries, alone>>

ForkExecs ==
  /\ busy
  /\ busy' = FALSE
  /\ UNCHANGED <<server, installed, shadow, pc, request, staged, tries, alone, faults>>

(* A release is published, recreated or deleted, or the token revoked.      *)
GitHubChanges ==
  /\ Active # {}
  /\ \/ /\ \E v \in Tag \ published :
             published' = published \cup {v} /\ latest' = v
        /\ UNCHANGED valid
     \/ /\ \E v \in published \ {latest} : published' = published \ {v}
        /\ UNCHANGED <<latest, valid>>
     \/ /\ valid /\ valid' = FALSE
        /\ UNCHANGED <<published, latest>>
  /\ UNCHANGED <<busy, installed, shadow, pc, request, staged, tries, alone, faults>>

(* Another upgrade or an installer puts a release in place, once a run.     *)
AnotherInstalls ==
  /\ \E p \in Active : alone[p]
  /\ \E v \in {t \in published : Fits(t) /\ AboveFloor(Floor, t)} :
       /\ ~ SameTag(v, installed.version)
       /\ installed' = [installed EXCEPT !.version = Release[v].version,
                                         !.age = Release[v].age]
  /\ shadow' = shadow \cup {installed}
  /\ alone' = [p \in Run |-> FALSE]
  /\ UNCHANGED <<server, busy, pc, request, staged, tries, faults>>

Step(p) ==
  \/ TokenRejected(p) \/ ResolveRelease(p) \/ DownloadChecksums(p)
  \/ DownloadArchive(p) \/ CreateStaged(p) \/ WriteStaged(p) \/ RunBusy(p)
  \/ RunStaged(p) \/ Rename(p) \/ RemoveStaged(p)

Next ==
  \/ \E p \in Run : CallRun(p) \/ Step(p) \/ CallFails(p)
  \/ PowerLoss \/ ForkExecs \/ GitHubChanges \/ AnotherInstalls

Spec == Init /\ [][Next]_vars

(* A started run goes on.  Neither the end of somebody's fork nor anything  *)
(* GitHub does is promised.                                                 *)
FairSpec == Spec /\ \A p \in Run : WF_vars(Step(p))

-----------------------------------------------------------------------------
(* Every variable stays in its domain.  Two clients, so two rejections.     *)
TypeOK ==
  /\ published \in SUBSET Tag /\ latest \in published
  /\ valid \in BOOLEAN /\ busy \in BOOLEAN
  /\ installed \in File /\ shadow \in SUBSET File
  /\ pc \in [Run -> Ended \cup {"idle", "resolve", "checksums", "archive",
               "stage", "write", "verify", "rename", "remove"}]
  /\ opts \in [Run -> Options] /\ found \in [Run -> Tag \cup {None}]
  /\ token \in [Run -> BOOLEAN] /\ archive \in [Run -> BOOLEAN]
  /\ staged \in [Run -> File \cup {NoFile}]
  /\ tries \in [Run -> 0 .. ExecAttempts] /\ rejected \in [Run -> 0 .. 2]
  /\ alone \in [Run -> BOOLEAN] /\ faults \in 0 .. MaxFaults

(* "an interrupted upgrade cannot leave a half-written executable on PATH"  *)
(* (upgrade.go:26), whatever is interrupted and whenever the power goes;    *)
(* nor a download that was damaged, nor the other role's build.             *)
PathIsRunnable == installed.whole /\ installed.mine

(* What a run installs is the tag it was asked for, or else a release that  *)
(* is newer than the one running; and never one below the floor.            *)
InstallsWhatWasAsked ==
  \A p \in Run :
    pc[p] = "installed" =>
      /\ AboveFloor(Floor, found[p]) /\ Fits(found[p])
      /\ IF opts[p].tag = None THEN IsNewer(opts[p].current, found[p])
         ELSE SameTag(found[p], opts[p].tag)

(* Without --tag nobody goes back to older code (upgrade.go:122-124),       *)
(* whatever the running build was stamped with, as long as no other run     *)
(* replaced the binary in the meantime.                                     *)
NoStepBack ==
  [][\A p \in Run :
       pc[p] = "rename" /\ pc'[p] = "installed" /\ alone[p] /\ opts[p].tag = None =>
         installed'.age > installed.age]_vars

(* "A run that fails must leave NOTHING behind" (install.go:118), and one   *)
(* that succeeds neither.                                                   *)
NothingLeftBehind ==
  \A p \in Run : pc[p] \in Ended \ {"killed"} => staged[p] = NoFile

(* The token is optional: a stale one never fails an upgrade that would     *)
(* work without it (github.go:171-175).                                     *)
TokenIsOptional ==
  \A p \in Run :
    pc[p] = "failed" /\ faults = 0 =>
      tries[p] = ExecAttempts \/ (found[p] # None /\ ~ Fits(found[p]))

(* Every started run ends, also if the staged file stays busy.              *)
RunsEnd == \A p \in Run : pc[p] # "idle" ~> pc[p] \in Ended

-----------------------------------------------------------------------------
(* What a run has made sure of when it is past resolveRelease.              *)
Resolved(p) ==
  /\ found[p] \in Tag /\ AboveFloor(Floor, found[p])
  /\ IF opts[p].tag = None THEN IsNewer(opts[p].current, found[p])
     ELSE found[p] = Wanted(opts[p])

(* What each step may rely on.  Only a release is replaced without --tag,   *)
(* and nothing is staged that was damaged, unflushed when it runs, or, when *)
(* it is renamed, another role's or another version's.                      *)
StepsAreInOrder ==
  \A p \in Run :
    /\ p \in Active => (opts[p].tag = None => IsRelease(opts[p].current))
    /\ pc[p] \in {"checksums", "archive", "stage", "write", "verify", "rename", "installed"} =>
         Resolved(p)
    /\ pc[p] \in {"stage", "write", "verify", "rename"} => archive[p]
    /\ pc[p] \in {"verify", "rename"} => staged[p] = Built(p, TRUE)
    /\ pc[p] \in {"rename", "installed"} => Fits(found[p])
    /\ pc[p] \notin {"write", "verify", "rename", "remove", "killed"} => staged[p] = NoFile

(* Each of a run's two clients has its token rejected once at most, and the *)
(* staged file is executed execAttempts times at most.                      *)
RetriesAreBounded ==
  \A p \in Run :
    /\ rejected[p] + (IF token[p] THEN 1 ELSE 0) <=
         (IF pc[p] = "idle" THEN 0 ELSE IF pc[p] = "resolve" THEN 1 ELSE 2)
    /\ pc[p] \in {"idle", "resolve", "checksums", "archive", "stage", "write"} => tries[p] = 0
    /\ pc[p] = "verify" => tries[p] < ExecAttempts

(* Without a fault a run only fails because of what it downloaded.          *)
FailuresHaveAReason ==
  \A p \in Run :
    pc[p] \in {"remove", "failed"} /\ faults = 0 =>
      tries[p] = ExecAttempts \/ (found[p] # None /\ ~ Fits(found[p]))

(* Whatever a power loss may bring back is as good as what is installed.    *)
EveryEntryRuns ==
  \A file \in shadow \cup {installed} :
    /\ file.whole /\ file.mine /\ file.flushed
    /\ <<file.version, file.age>> \in Code

(* The version stamped into a run is the one on PATH until it is replaced.  *)
StillInPlace ==
  \A p \in Active : alone[p] => opts[p].current = installed.version

(* The type invariant and what makes it and the properties above inductive. *)
UpgradeInvariant ==
  /\ TypeOK
  /\ StepsAreInOrder
  /\ RetriesAreBounded
  /\ FailuresHaveAReason
  /\ EveryEntryRuns
  /\ StillInPlace
=============================================================================
