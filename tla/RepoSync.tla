------------------------------ MODULE RepoSync ------------------------------
(***************************************************************************)
(* canga git sync (internal/repo/sync.go): fetch, then fast-forward every  *)
(* branch that tracks an upstream.  Each git command is one action; git    *)
(* itself is external and modelled by what sync.go says of it: the         *)
(* refusals its comments name are all here (sync.go:20-25, 50-52, 185-193, *)
(* 245-249).  Between two commands the user works in the repository,       *)
(* others push, and other gits run in it and lock it.                      *)
(*                                                                         *)
(* A commit is the set of the changes it has behind it, so "is an ancestor *)
(* of" is inclusion and a fast-forward is a step to a larger set.          *)
(***************************************************************************)
EXTENDS Naturals, FiniteSets

CONSTANTS
  Sync,      \* the syncs that may run, each once
  Branch,    \* local branches: numbers, in git's order
  Tracking,  \* the branches that were given an upstream
  Change,    \* the changes anybody may make
  Clashing,  \* those that touch a file an incoming commit touches
  Detached,  \* a HEAD that names a commit
  Gone,      \* a remote branch that was deleted
  MaxFaults  \* bound on git commands that cannot be run, are cancelled or die

ASSUME BranchAssumption == Branch \subseteq Nat /\ Tracking \subseteq Branch
ASSUME ChangeAssumption == Clashing \subseteq Change
ASSUME DetachedAssumption == Detached \notin Branch
ASSUME FaultAssumption == MaxFaults \in Nat

VARIABLES
  remote,    \* the branches on the server
  upstream,  \* the remote-tracking refs
  local,     \* the local branches
  head,      \* the checked-out branch
  edits,     \* changes to tracked files not yet committed
  elsewhere, \* branches a fetch will not move: checked out in a linked
             \* worktree, being rebased (HEAD is detached then), or locked
  inTheWay,  \* changes git will not merge into the working tree: one that
             \* would overwrite an untracked file; all of them under a lock,
             \* its owner alive or dead, or with a merge not concluded
  pc,        \* pc[s]: the git command of s that is next, or how it ended
  todo,      \* todo[s]: branches s has listed and not yet dealt with
  gone,      \* gone[s]: those it listed as having lost their upstream
  current,   \* current[s]: the branch it found checked out
  report,    \* report[s]: what it will say of each branch
  before,    \* history: the local branches when s started
  quiet,     \* history: nobody else did anything since s started
  cut,       \* history: the branches of whom s asked a git that was killed
  faults     \* history: commands that could not be run, or died

repository == <<remote, upstream, local, head, edits, elsewhere, inTheWay>>

history == <<before, quiet, cut>>

vars == <<repository, pc, todo, gone, current, report, history, faults>>

-----------------------------------------------------------------------------
History == SUBSET Change

Known == UNION {local[b] : b \in Branch} \cup edits
           \cup UNION {remote[b] : b \in {t \in Tracking : remote[t] # Gone}}

Ended == {"ok", "dirty", "error"}

States == {"none", "uptodate", "advanced", "refused", "gone"}

Silent == [b \in Tracking |-> "none"]

Goto(s, step) == pc' = [pc EXCEPT ![s] = step]

Fault == faults < MaxFaults /\ faults' = faults + 1

(* The branch of this iteration of the loop.                                *)
NextBranch(s) == CHOOSE b \in todo[s] : \A other \in todo[s] : b <= other

Report(s, b, state) ==
  /\ report' = [report EXCEPT ![s][b] = state]
  /\ todo' = [todo EXCEPT ![s] = @ \ {b}]

(* What git says of moving branch b onto the commit target by the two       *)
(* commands of advance.  "merge --ff-only" moves what is checked out NOW;   *)
(* "fetch . <up>:<br>" refuses a branch that is checked out anywhere.       *)
CanMerge(b, target) ==
  /\ target # Gone
  /\ \/ target \subseteq local[b]
     \/ /\ local[b] \subseteq target
        /\ edits \cap Clashing = {}
        /\ (target \ local[b]) \cap inTheWay = {}

(* Slip: the refspec is written with a "+".                                 *)
CanFetchForced(b, target) ==
  /\ target # Gone
  /\ b # head /\ b \notin elsewhere

CanFetch(b, target) ==
  /\ target # Gone
  /\ b # head /\ b \notin elsewhere
  /\ local[b] \subseteq target

-----------------------------------------------------------------------------
Init ==
  /\ remote = [b \in Tracking |-> {}]
  /\ upstream = [b \in Tracking |-> {}]
  /\ local = [b \in Branch |-> {}]
  /\ head \in Branch \cup {Detached}
  /\ edits = {}
  /\ elsewhere \in {{}} \cup {{b} : b \in Tracking \ {head}}
  /\ inTheWay \in SUBSET Change
  /\ pc = [s \in Sync |-> "idle"]
  /\ todo = [s \in Sync |-> {}]
  /\ gone = [s \in Sync |-> {}]
  /\ current = [s \in Sync |-> Detached]
  /\ report = [s \in Sync |-> Silent]
  /\ before = [s \in Sync |-> local]
  /\ quiet = [s \in Sync |-> FALSE]
  /\ cut = [s \in Sync |-> {}]
  /\ faults = 0

(* Root says the directory is a repository with a working tree.             *)
CallSync(s) ==
  /\ pc[s] = "idle"
  /\ Goto(s, "fetch")
  /\ before' = [before EXCEPT ![s] = local]
  /\ quiet' = [t \in Sync |->
                t = s /\ \A o \in Sync \ {s} : pc[o] \in Ended \cup {"idle"}]
  /\ UNCHANGED <<repository, todo, gone, current, report, cut, faults>>

(* fetch --all --prune --tags.                                              *)
Fetch(s) ==
  /\ pc[s] = "fetch"
  /\ upstream' = remote
  /\ Goto(s, "status")
  /\ UNCHANGED <<remote, local, head, edits, elsewhere, inTheWay,
                 todo, gone, current, report, history, faults>>

(* The fetch breaks off; some refs may have been updated.                   *)
FetchFails(s) ==
  /\ pc[s] = "fetch"
  /\ Fault
  /\ \E updated \in SUBSET Tracking :
       upstream' = [b \in Tracking |->
                      IF b \in updated THEN remote[b] ELSE upstream[b]]
  /\ Goto(s, "error")
  /\ UNCHANGED <<remote, local, head, edits, elsewhere, inTheWay,
                 todo, gone, current, report, history>>

(* status --porcelain --untracked-files=no.                                 *)
IsDirty(s) ==
  /\ pc[s] = "status"
  /\ Goto(s, IF edits # {} THEN "dirty" ELSE "list")
  /\ UNCHANGED <<repository, todo, gone, current, report, history, faults>>

(* Slips: a branch with no upstream is not skipped; one whose upstream was  *)
(* pruned is taken for one that has none.                                   *)
TrackingBranchesAll(s) ==
  /\ pc[s] = "list"
  /\ todo' = [todo EXCEPT ![s] = Branch]
  /\ gone' = [gone EXCEPT ![s] = {b \in Tracking : upstream[b] = Gone}]
  /\ Goto(s, "head")
  /\ UNCHANGED <<repository, current, report, history, faults>>

TrackingBranchesLeft(s) ==
  /\ pc[s] = "list"
  /\ todo' = [todo EXCEPT ![s] = {b \in Tracking : upstream[b] # Gone}]
  /\ Goto(s, "head")
  /\ UNCHANGED <<repository, gone, current, report, history, faults>>

(* for-each-ref: one call for all branches, so its answer grows stale.      *)
TrackingBranches(s) ==
  /\ pc[s] = "list"
  /\ todo' = [todo EXCEPT ![s] = Tracking]
  /\ gone' = [gone EXCEPT ![s] = {b \in Tracking : upstream[b] = Gone}]
  /\ Goto(s, "head")
  /\ UNCHANGED <<repository, current, report, history, faults>>

(* symbolic-ref: nothing under a detached HEAD.                             *)
CurrentBranch(s) ==
  /\ pc[s] = "head"
  /\ current' = [current EXCEPT ![s] = head]
  /\ Goto(s, "branch")
  /\ UNCHANGED <<repository, todo, gone, report, history, faults>>

UpstreamGone(s) ==
  /\ pc[s] = "branch"
  /\ todo[s] # {}
  /\ NextBranch(s) \in gone[s]
  /\ Report(s, NextBranch(s), "gone")
  /\ UNCHANGED <<repository, pc, gone, current, history, faults>>

(* merge-base --is-ancestor: an upstream pruned since it was listed is not  *)
(* a "no" but a git that cannot answer, which ends the sync.                *)
IsAncestor(s) ==
  LET b == NextBranch(s) IN
    /\ pc[s] = "branch"
    /\ todo[s] # {}
    /\ b \notin gone[s]
    /\ \/ /\ upstream[b] = Gone
          /\ Goto(s, "error")
          /\ report' = [report EXCEPT ![s] = Silent]
          /\ UNCHANGED todo
       \/ /\ upstream[b] # Gone /\ upstream[b] \subseteq local[b]
          /\ Report(s, b, "uptodate")
          /\ UNCHANGED pc
       \/ /\ upstream[b] # Gone /\ ~ (upstream[b] \subseteq local[b])
          /\ Goto(s, "move")
          /\ UNCHANGED <<todo, report>>
    /\ UNCHANGED <<repository, gone, current, history, faults>>

(* The tail of advance.  Which command runs was decided by what was checked *)
(* out when CurrentBranch asked; what the merge moves, by what is now.  A   *)
(* refusal of git is an answer, not an error.                               *)
Advance(s) ==
  LET b == NextBranch(s)
      target == upstream[b]
      merges == b = current[s]
  IN /\ pc[s] = "move"
     /\ \/ /\ merges /\ head \in Branch /\ CanMerge(head, target)
           /\ local' = [local EXCEPT ![head] = @ \cup target]
           /\ Report(s, b, "advanced")
        \/ /\ ~ merges /\ CanFetch(b, target)
           /\ local' = [local EXCEPT ![b] = target]
           /\ Report(s, b, "advanced")
        \/ /\ IF merges THEN ~ (head \in Branch /\ CanMerge(head, target))
                          ELSE ~ CanFetch(b, target)
           /\ Report(s, b, "refused")
           /\ UNCHANGED local
     /\ Goto(s, "branch")
     /\ UNCHANGED <<remote, upstream, head, edits, elsewhere, inTheWay,
                    gone, current, history, faults>>

(* The loop of syncBranches is through.                                     *)
Done(s) ==
  /\ pc[s] = "branch"
  /\ todo[s] = {}
  /\ Goto(s, "ok")
  /\ UNCHANGED <<repository, todo, gone, current, report, history, faults>>

(* A move that did not live to answer: it was made or it was not, and a    *)
(* merge may leave its lock behind.                                         *)
CutOff(s) ==
  LET b == NextBranch(s)
      target == upstream[b]
  IN \/ /\ b = current[s]
        /\ inTheWay' \in {inTheWay, Change}
        /\ \/ UNCHANGED local
           \/ /\ head \in Branch /\ CanMerge(head, target)
              /\ local' = [local EXCEPT ![head] = @ \cup target]
     \/ /\ b # current[s]
        /\ UNCHANGED inTheWay
        /\ \/ UNCHANGED local
           \/ /\ CanFetch(b, target)
              /\ local' = [local EXCEPT ![b] = target]

(* A command that could not be run, or was cancelled: no answer, so nothing *)
(* is reported.  So ends a command whose refusal is no answer, when git is  *)
(* killed under it.                                                         *)
GitFails(s) ==
  /\ pc[s] \in {"status", "list", "head", "branch", "move"}
  /\ Fault
  /\ pc[s] = "branch" => todo[s] # {} /\ NextBranch(s) \notin gone[s]
  /\ Goto(s, "error")
  /\ report' = [report EXCEPT ![s] = Silent]
  /\ IF pc[s] = "move" THEN CutOff(s) ELSE UNCHANGED <<local, inTheWay>>
  /\ UNCHANGED <<remote, upstream, head, edits, elsewhere,
                 todo, gone, current, history>>

(* A git that dies, of a signal or of an error of its own, has exited too,  *)
(* so classify takes it for one that refused.  Of symbolic-ref that reads   *)
(* as a detached HEAD, and of a move as a branch git would not move.        *)
GitKilled(s) ==
  /\ Fault
  /\ Goto(s, "branch")
  /\ \/ /\ pc[s] = "head"
        /\ current' = [current EXCEPT ![s] = Detached]
        /\ cut' = [cut EXCEPT ![s] = @ \cup ({head} \cap Branch)]
        /\ UNCHANGED <<local, inTheWay, report, todo>>
     \/ /\ pc[s] = "move"
        /\ CutOff(s)
        /\ Report(s, NextBranch(s), "refused")
        /\ cut' = [cut EXCEPT ![s] = @ \cup {NextBranch(s)}]
        /\ UNCHANGED current
  /\ UNCHANGED <<remote, upstream, head, edits, elsewhere,
                 gone, before, quiet>>

-----------------------------------------------------------------------------
(* The others, at any moment (but not once every sync is over, a bound).    *)
(* Nobody here throws work away, so what gets lost was lost by a sync.      *)
Disturbed ==
  /\ \E s \in Sync : pc[s] \notin Ended
  /\ quiet' = [s \in Sync |-> FALSE]

Edit ==
  /\ edits = {}
  /\ \E c \in Change \ Known : edits' = {c}
  /\ Disturbed
  /\ UNCHANGED <<remote, upstream, local, head, elsewhere, inTheWay,
                 pc, todo, gone, current, report, before, cut, faults>>

Commit ==
  /\ edits # {} /\ head \in Branch
  /\ local' = [local EXCEPT ![head] = @ \cup edits]
  /\ edits' = {}
  /\ Disturbed
  /\ UNCHANGED <<remote, upstream, head, elsewhere, inTheWay,
                 pc, todo, gone, current, report, before, cut, faults>>

Checkout ==
  /\ edits = {}
  /\ head' \in Branch \ ({head} \cup elsewhere)
  /\ Disturbed
  /\ UNCHANGED <<remote, upstream, local, edits, elsewhere, inTheWay,
                 pc, todo, gone, current, report, before, cut, faults>>

(* Another clone pushes; or rewrites the branch, or deletes it.             *)
RemoteMoves ==
  /\ \E b \in Tracking :
       \/ /\ remote[b] # Gone
          /\ \E c \in Change \ Known : remote' = [remote EXCEPT ![b] = @ \cup {c}]
       \/ /\ remote[b] # Gone /\ remote[b] # {}
          /\ remote' \in {[remote EXCEPT ![b] = {}], [remote EXCEPT ![b] = Gone]}
  /\ Disturbed
  /\ UNCHANGED <<upstream, local, head, edits, elsewhere, inTheWay,
                 pc, todo, gone, current, report, before, cut, faults>>

(* A fetch, a pull or another canga git sync: what any of them may do.      *)
AnotherGit ==
  /\ \/ upstream' = remote /\ UNCHANGED local
     \/ /\ \E b \in Tracking :
             /\ upstream[b] # Gone /\ local[b] \subseteq upstream[b]
             /\ b = head => CanMerge(b, upstream[b])
             /\ local' = [local EXCEPT ![b] = upstream[b]]
        /\ UNCHANGED upstream
  /\ Disturbed
  /\ UNCHANGED <<remote, head, edits, elsewhere, inTheWay,
                 pc, todo, gone, current, report, before, cut, faults>>

(* Another git takes its lock or gives it back; untracked files come and go. *)
Obstruct ==
  /\ inTheWay' \in SUBSET Change \ {inTheWay}
  /\ Disturbed
  /\ UNCHANGED <<remote, upstream, local, head, edits, elsewhere,
                 pc, todo, gone, current, report, before, cut, faults>>

SyncNext(s) ==
  \/ CallSync(s) \/ Fetch(s) \/ FetchFails(s) \/ IsDirty(s)
  \/ TrackingBranches(s) \/ CurrentBranch(s) \/ UpstreamGone(s)
  \/ IsAncestor(s) \/ Advance(s) \/ Done(s) \/ GitFails(s)
  \/ GitKilled(s)

Next == (\E s \in Sync : SyncNext(s)) \/ Edit \/ Commit \/ Checkout
          \/ RemoteMoves \/ AnotherGit \/ Obstruct

Spec == Init /\ [][Next]_vars

-----------------------------------------------------------------------------
(* Every variable stays in its domain.                                      *)
TypeOK ==
  /\ remote \in [Tracking -> {Gone} \cup History]
  /\ upstream \in [Tracking -> {Gone} \cup History]
  /\ local \in [Branch -> History]
  /\ head \in Branch \cup {Detached}
  /\ edits \in History
  /\ elsewhere \in SUBSET Branch
  /\ inTheWay \in SUBSET Change
  /\ pc \in [Sync -> Ended \cup {"idle", "fetch", "status", "list", "head",
                                 "branch", "move"}]
  /\ todo \in [Sync -> SUBSET Tracking]
  /\ gone \in [Sync -> SUBSET Tracking]
  /\ current \in [Sync -> Branch \cup {Detached}]
  /\ report \in [Sync -> [Tracking -> States]]
  /\ before \in [Sync -> [Branch -> History]]
  /\ quiet \in [Sync -> BOOLEAN]
  /\ cut \in [Sync -> SUBSET Branch]
  /\ faults \in 0 .. MaxFaults

(* No commit and no uncommitted change ever disappears, whoever acts and    *)
(* whenever: "Everything it does is recoverable by definition"              *)
(* (sync.go:99).  Branches only move forward.                               *)
NothingLost ==
  [][/\ edits \subseteq edits' \cup UNION {local'[b] : b \in Branch}
     /\ \A b \in Branch : local[b] \subseteq local'[b]]_vars

(* Why git may leave a branch that could be fast-forwarded where it is: a   *)
(* fetch, because of who has the branch; a merge, because of the tree.      *)
Hindered(b) ==
  \/ b \in elsewhere
  \/ b = head /\ (upstream[b] \ local[b]) \cap inTheWay # {}

(* What a sync says of a branch it is done with.  Of a git that was killed  *)
(* it says "refused", and that git may have moved the branch.               *)
ToldAsItIs(s, b) ==
  CASE report[s][b] = "gone" -> upstream[b] = Gone
    [] report[s][b] = "uptodate" -> /\ upstream[b] \subseteq before[s][b]
                                    /\ local[b] = before[s][b]
    [] report[s][b] = "advanced" -> /\ local[b] = upstream[b]
                                    /\ local[b] # before[s][b]
    [] report[s][b] = "refused" ->
         \/ b \in cut[s] /\ local[b] \in {before[s][b], upstream[b]}
         \/ /\ local[b] = before[s][b]
            /\ ~ (upstream[b] \subseteq local[b])
            /\ local[b] \subseteq upstream[b] => Hindered(b)
    [] OTHER -> FALSE

(* A sync nobody disturbed leaves every branch that could be moved level    *)
(* with its upstream or ahead of it, and reports each branch as it is.  One *)
(* is refused only if it has diverged, if one of the things sync.go:50-52   *)
(* and 20-25 name is in the way, or if the git that was to move it, or to   *)
(* say that it is checked out, was killed; never because it is ahead        *)
(* (sync.go:175-180).  A repository with modified tracked files is not      *)
(* touched at all (sync.go:94-97).                                          *)
SyncsAll ==
  \A s \in Sync :
    /\ pc[s] # "idle" /\ quiet[s] /\ edits # {} => local = before[s]
    /\ pc[s] = "ok" /\ quiet[s] => \A b \in Tracking : ToldAsItIs(s, b)

(* Half-way through, undisturbed: nobody else is at work; nothing moves     *)
(* before the first branch, what was listed still holds, each branch of the *)
(* loop is as the sync found it until its turn, and has its report after.   *)
SyncSoFar ==
  \A s \in Sync :
    /\ quiet[s] =>
         /\ pc[s] # "idle"
         /\ \A o \in Sync \ {s} : pc[o] \in Ended \cup {"idle"}
         /\ pc[s] \in {"fetch", "status", "list", "head"} => local = before[s]
         /\ pc[s] \in {"list", "head", "branch", "move"} => edits = {}
         /\ pc[s] \in {"head", "branch", "move"} =>
              gone[s] = {b \in Tracking : upstream[b] = Gone}
         /\ pc[s] = "head" => todo[s] = Tracking
         /\ pc[s] \in {"branch", "move"} =>
              /\ \/ current[s] = head
                 \/ current[s] = Detached /\ head \in cut[s]
              /\ \A b \in todo[s] : local[b] = before[s][b]
              /\ \A b \in Tracking \ todo[s] : ToldAsItIs(s, b)
    /\ pc[s] = "move" => todo[s] # {}
    /\ pc[s] = "move" /\ quiet[s] =>
         /\ NextBranch(s) \notin gone[s]
         /\ ~ (upstream[NextBranch(s)] \subseteq local[NextBranch(s)])

(* The inductive invariant of RepoSyncProofs: with the two above, what any  *)
(* step of a sync, of its user, of another git or of the server keeps.      *)
SyncInvariant == TypeOK /\ SyncSoFar /\ SyncsAll

(* "BranchAdvanced means the branch was fast-forwarded onto its upstream    *)
(* ... so it means the branch moved" (sync.go:43-45).                       *)
AdvancedMeansMoved ==
  \A s \in Sync : \A b \in Tracking :
    report[s][b] = "advanced" => local[b] # before[s][b]
=============================================================================
