# Verification of canga

TLA+ models of canga's Go code, the TLC runs that check them and TLAPS proofs of every
invariant and action property that the runs check; what the proofs leave to the runs is
liveness. `PROJECT.json` holds the details: which lines every definition stands for
(`map`), the runs, a slip in the code that would break each checked property
(`mutants`), the hazards, the findings and the theorems. Line numbers below are those of
the files under `src/`.

    tlc -workers 2 -config OrderRace.cfg MCOrderStore.tla   # any run
    tlapm OrderStoreProofs.tla                              # any *Proofs module

## The system

canga is one command-line program in two builds: one for the host and one for
the sandboxes (virtual machines) that work on a repository. There is no daemon
and no lock. Every command is a process of its own, so what makes the program
hard is other processes: other commands of the host and of every sandbox that
shares a reminder directory, git run by the user or an editor, installers, and
a death at any instruction.

| Part | State | Operations | What makes it hard | What makes it correct |
|---|---|---|---|---|
| order documents, `internal/store/order.go` | `order/<N>`: version N of the order; the highest N is current | `Reorder`: read the head, merge, stage in `tmp/`, publish with link(2), check the head, collect or prune. `List`, `Reorder`: read the head | a compare-and-swap made of file names that are freed and linked again; directory reads that are old when used; bounded retries; crash after the link | each change is one reorder applied to what it replaces; the head never goes back nor changes under its name; success was the head; no livelock |
| items, `internal/store/store.go` | `items/<id>.md`, `tmp/<id>` | `Add` (draw an id, `O_EXCL`, write, link, remove), `Remove` (and `reminders rm` with several ids), `Get`, the directory walk of `items()` | id collisions; a walk over a directory in motion; failed close, failed clean-up; one id of several that fails; crash | what is published is whole and its adder's; success publishes once, failure never; every id is tried; a listing misses nothing that stayed |
| item files, `internal/store/item.go` | none | `encode`, `decodeItem` | text that looks like a header; hand-made files | what Add writes, Get reads |
| opening, `internal/cli/app.go`, `store.open` | the root's old and new name, the directories from the base down to a store | `ReconcileLegacyStore`; `open`, which looks at, makes, opens and checks one directory after the other | the root is renamed under others; three questions before one rename, each of which may fail and then counts as a no; sandboxes never reconcile; a name is looked at, opened and used in three steps | no reminder lost, nor silently missing where every question was answered; never another repository's store; commands that create together end in one store |
| `internal/boundedread` | none | `Regular` | file replaced between open and lstat | read as "replaced", never as content |
| git sync, `internal/repo/sync.go` | none of its own: git's refs and tree | `Sync`: fetch, status, list branches, HEAD, and per branch is-ancestor and merge or fetch | one walk of many commands over a repository others use and lock; commands that cannot be run, or die | nothing lost; each branch reported as it is |
| hooks, `internal/hooks` | git's hooks directory, `core.hooksPath` | `Install` by config or by links, each forced or not | look, then rename or remove; a look that fails is passed over; runs broken off half-way | nothing of the user's lost, all of it reported |
| upgrade, `internal/upgrade` | the binary on PATH, `.canga-upgrade-*` | `Run`: resolve, download, verify, stage, execute, rename | GitHub changing between requests; stale tokens; ETXTBSY; power loss; another upgrade | PATH always has a whole binary of the right build; never below the floor |
| identity and keys, `internal/repo/{repo,key}.go`, `repoName` | none | a key from the origin's URL, or from where the working tree is | many spellings of one URL; volumes that fold case or accents; worktrees that were copied, moved or forged | one repository, one list, and nobody else's |
| clone and signing, `internal/repo/{clone,signing}.go` | a directory, a new repository's config | lay out and clone, then config writes in a fixed order | a target in another spelling; one write of several fails | location and origin give one key; a clone signs if and only if it is said to |
| commands, `internal/cli`, `cmd/` | none | arguments, output, exit codes | a dozen questions on the way, each of which may be answered, refused, fail or be cancelled | 2 when the same command cannot succeed there, 1 when something is broken, 0 only when all was done |
| workspace, `internal/workspace` | none | finds a clone and its environment, opens both in cmux | git walks up from the environment to the repository around it; a list of ceilings with a marker in it | one environment for one repository, below the base; git stays in it |
| installers, `scripts/`, Makefile | - | download and install a release; build and CI | - | - |

How they meet: a command finds its repository's key, reconciles the root
(`StoreMove`), opens the store and runs one store operation. `List` and
`Reorder` read the order first and the items after it, and `Add` and `Remove`
never touch `order/`; the two halves of the store meet only in `mergeOrder` and
in the listing, which is why `OrderStore` can take an Add or a Remove as one
step of its environment and `ItemStore` can leave the order out. Sync, hooks and
upgrade share nothing with the store nor with each other.

## The modules

**OrderStore** is `order.go`, one action per system call on the shared
directories: `ScanEmpty`/`ScanHead` (the directory read of `orderHead`),
`OpenHead`/`HeadGone`, `VerifyHead`/`HeadReplaced` (`boundedread.Regular`'s
open and identity check, and the bounded re-read), `ListNames`, `ReadItems`,
`Stage`, `Link`/`LinkExists`, `Unstage` (the deferred removal), `CheckHead`,
`Collect`, `PruneScan`, `Prune`. `CallFails`, `LinkFails` and `Crash` are the
error returns and the death of a process, `AddItem` and `RemoveItem` the rest of
the store. A file is named by the publish that made it, so two links of one
name are two inodes, as they are to `os.SameFile`. `loc[p]` are the local
variables; what an operation read stays in them however old it gets.

**OrderDoc** has `mergeOrder` and the ordering of `List` as loops over the closure they
share, each a recursive function of the number of ids placed. **MCOrderStore** gives
OrderStore ids `1..n` and that merge. **OrderRegister** is what the store promises: one
register, read and replaced in one step.

**ItemStore** is `Add`, `place`, `Remove`, `Get` and `items()`, one action per
system call, and `CallRemove`, `RemoveItem`: the loop of `reminders rm`, which
joins the failures. **ItemSpec** is its promise: a map to which an Add adds once
or not at all, and from which an rm takes what it names. **ItemFile** has `encode`
and `decodeItem` on lines.

**RepoKey** is how a repository finds its list: `Path` and `EscapePath` (from an
origin), `Canonical` and `PathUnder` (from a location), `KeyTree` (a worktree is
keyed by its main tree), `RepoName` (which of them speaks) and `Clone` (where a
repository is put). A string is a sequence of characters, and a character has a
kind, because kinds are what the code tells apart: small and big letters, composed
and decomposed ones, and the marks that separate. A disk maps a directory to the
names in it as they are stored, with the pairs of kinds the volume takes for the
same; links are resolved before (`filepath.EvalSymlinks`) and left out. A set of
worktrees is what each tree's `.git` is and, of each worktree directory, in whose
`worktrees/` it lies and what its `commondir` and `gitdir` files name; git follows
`commondir`, `linkedMain` believes it only if all three agree (`LinkVerified`).

**Commands** is what each of the six reminders commands ends with. An error is the set
of what `errors.Is` finds in it, so that wrapping is union, and one operator stands for
each function that makes or hands on an error, from `classify` over `repoName` to
`ExitCode`. What keeps a location from giving a key is a `WrongPlace`, `Broken`, or
`Doubtful`: it may be either, and is filed as the former. **Signing** is `StampSigning`
as the sequence of git commands it runs, cut off after any of them, and what
`reportSigning` says of the result. **Workspace** is `Resolve` and `gitCeilingEnv`, with
git's own reading of `GIT_CEILING_DIRECTORIES` (links resolved before the empty entry,
not behind it). **ReleaseTag** is `version.go` and `floor.go`: a version is whether it
starts with "v", its numbers and its tail.

**MCPure** checks OrderDoc, ItemFile, RepoKey, Commands, Signing and Workspace
against definitions without loops: a machine whose one step computes, for every
input, the output. ReleaseTag is used, and checked, by Upgrade.

**StoreMove** is `ReconcileLegacyStore` with the three questions of
`legacyState`, and `open`. A directory is a number and `at` says which has
which name, so a process keeps working in the directory it has open (an
`os.Root`) after the name moved. A question that fails does not stop the command:
`isDir`, `exists` and `holdsFiles` read any error as a no (`app.go:350-392`), and
`AskLegacy`, `AskCurrent` and `AskFiles` each have that branch; `blind` remembers whom
it befell where it matters. **MCStoreMove** says that the host's commands are symmetric.

**StoreOpen** is `open` below a base, one action per system call: `MakeBase`,
`OpenBase`, then for each directory `LstatEntry`, `MakeEntry`, `LstatMade`
(`enter`), `OpenEntry` (an `os.Root` follows links that stay inside) and
`CheckRoot`, and `MakePart` for `items/`, `tmp/` and `order/`. `entry` says what
has a name in a directory, a directory is a number (its inode), and others
(`Rearrange`) move names about. **MCStoreOpen** gives the trees to begin with.

**RepoSync** is `Sync`, `syncBranches` and `advance`, one action per git
command. A commit is the set of changes behind it: ancestry is inclusion and a
fast-forward a step to a larger set. git itself (`CanMerge`, `CanFetch`), the
user, the server and other gits are external. git refuses what the comments of `sync.go`
say it refuses: a branch that has diverged, tracked edits or an untracked file that a
merge would overwrite, and a lock (`inTheWay`), a branch that is being rebased or is
checked out in a linked worktree (`elsewhere`). A git that is killed has exited too, so
`classify` takes it for one that refused (`GitKilled`): `symbolic-ref` then says that
HEAD is detached, and a move that it was refused, though it may have been made; `cut`
remembers of which branches. **MCRepoSync** bounds what is in the way.

**HooksInstall** is both halves of `Install`. Some questions that fail are passed over:
a hook that cannot be examined is not one (`CallInstall`, `ExistingHooks`), a link of
canga's that cannot be read is somebody's file (`LinkUnread`), and a `.bak` that
cannot be examined is not there (`BackupUnseen`); `unseen` remembers which. Every other
failing call ends the run (`CallFails`). **Upgrade** is `Run` with
`fetchBinary` and `replace`; a file has the version it was stamped with, as
ReleaseTag spells it, and an age, the place of its code in the history, which the
program cannot see. **MCUpgrade** has the releases and builds.

What is proved of a machine `M` is in `MProofs`: **OrderStoreProofs**,
**ItemStoreProofs**, **StoreMoveProofs**, **StoreOpenProofs**, **RepoSyncProofs**,
**HooksInstallProofs** and **UpgradeProofs**. The invariants the proofs need are
in `M` itself, after the properties, so that TLC checks them too. What is proved of
the functions MCPure calls is in **PureProofs**.

In every module a definition marked "Slip" is not the code: it is a plausible
mistake in the definition below it, there to show that a property would notice.

## The runs

`History` variables (`ruled`, `linked`, `seen`, `quiet`, `before`, ...) record
what happened and are read by no guard, except that `alone` in Upgrade and
`Disturbed` in RepoSync, and `quiet` in MCRepoSync, also bound the environment.

| Run | Bounds | Question and answer |
|---|---|---|
| OrderRace | 3 writers, 1 reader, `Keep` 1, one attempt each, no faults | Three writers are what it takes for one to prune a name, one to link it again and one to be late. All properties hold. |
| OrderFaults | 2 writers that may ask for either of 2 ids, of which one has an item and the other may get one, 2 attempts, an existing order, 1 fault | The inductive invariant, the refinement of OrderRegister and termination, with one crash or failed call anywhere. Hold. |
| OrderMaximum | as OrderRace, `Keep` 5 | *Violated*: finding 1. |
| Items | 2 adders, 2 ids, an `rm` of up to 2 arguments, 1 reader that lists or gets, 2 draws, 1 fault | Collisions, exhaustion, re-use of an id freed by a remover, a walk over a moving directory, an rm of which one id fails. All hold, and ItemSpec is implemented. |
| Pure | 3 ids, documents of up to 3 names (repeated and stale ones too), texts of up to 3 lines; URLs of 3 or 4 segments in every spelling; disks of two levels with two entries each, folding case, accents, both or neither; 3 trees with any `.git`, and 2 worktree directories anywhere, whose two files name anything; 2 clones one after the other; the six reminders commands on any of 4 kinds of id, with every way each question on the way may end; every environment, global configuration and point of failure of the signing; repositories of 3 or 4 segments and every kind of `CANGA_HOST_ENVS_REPO`; lists of up to 3 ceilings | mergeOrder, the listing, encode, decodeItem, the keys, the exit codes, the signing and the panes do what they say for every input. The properties of keys need two spellings, two entries, or two other trees and a forged file to go wrong; the one of ceilings an entry, the marker and an entry behind it. |
| StoreMove | 2 host commands (symmetric), one in a sandbox, one of the old binary, 1 failed call, be it a question or a step | Every state of the two roots to begin with. All hold. |
| StoreOpen | 2 commands, adds or not, of 2 stores; 6 trees to begin with; 3 changes by others, 1 failed call | Nobody enters a directory that did not itself have the name, a link is named for what it is, adds at once make one store. All hold. |
| Sync | 2 tracking branches and a third, 2 changes, 1 fault (a command that cannot be run, is cancelled or dies); anything in the way of a merge, as below | All hold, with users, remotes and other gits at work until the sync ends. |
| SyncCheckout | as Sync, no faults | *Violated*: finding 2. |
| Hooks | 2 hooks, 2 files of users, 1 failed call, question or kill | Every state earlier runs can leave, to begin with. All hold. |
| HooksBackup | 2 overlapping runs, one hook | *Violated*: finding 3. |
| Upgrade | 5 releases: one below the floor, one whose tag lacks the v, one misbuilt; 6 kinds of build to begin with; 7 kinds of `--tag`; 3 executions, 1 fault | All options, GitHub changing all the time. All hold. |

The properties, besides one inductive invariant for each machine, which has its
types and what its proofs need (`StoreInvariant` in OrderFaults, `ItemInvariant`,
`MoveInvariant`, `OpenInvariant`, `SyncInvariant`, `HooksInvariant` and
`UpgradeInvariant` in the run of their machine):

| Property | Says | Run |
|---|---|---|
| `WonMeansApplied` | a Reorder that returned success published what was the highest version when it was linked | OrderRace |
| `SomebodyWins` | whoever published the current version succeeds, or is still at it, died or failed; and a writer that lost k races was overtaken by k publishes of others | OrderRace |
| `HeadOnlySuperseded` | the head never goes back, and its document is never exchanged under its name | OrderRace |
| `QuiescentStoreIsClean` | when all have ended without a fault, no staging file and no more than `Keep` versions are left | OrderRace |
| `ImplementsRegister` | the order directory is one register, read and replaced at once | OrderFaults |
| `CallsEnd` | every started call ends, whoever died before | OrderFaults, Items |
| `ItemsAreWhole` | what is published is whole and its adder's, and a staging name has one owner | Items |
| `ListingIsSnapshot` | a listing has everything that was there all along and nothing that never was | Items |
| `ImplementsMap` | Add, rm and Get are steps of a map | Items |
| `EachOnceInOrder`, `RoundTrip` | a merge or a listing has each id once, in the order asked for; what Add wrote is what Get reads | Pure |
| `OneKey`, `WorktreesShareOneList`, `CloneKeepsItsKey` | all spellings of a repository have one key, and two repositories two; a worktree that its repository records reads the repository's list, and no other tree, whatever its files name; a clone's location gives the key its origin gives | Pure |
| `ExitIsRight` | each of the six commands exits 1 if something broken or cancelled kept it from its key or store, 2 if the place or an id is wrong, 1 or 2 if it may be either, and 0 only if it did all it was asked | Pure |
| `SigningIsTold` | a clone is said to sign if and only if it does; wherever the writes stop, signing is not on without format and key | Pure |
| `PanesAreApart` | one environment for one repository, and git in its pane stays below the ceiling, links and marker or not | Pure |
| `NothingLost`, `NothingVanishes` | no reminder is lost by the rename of the root; none is silently missing from a host's listing, nor does a host's add strand the old root, unless that command asked about the old root in vain | StoreMove |
| `OpensOwnDirectory`, `LinkIsNamed`, `OneStoreEach` | nobody enters a directory that did not itself have the name; a link that stood in the way is named; adds at once end in one complete store, which whoever comes later finds | StoreOpen |
| `SyncsAll`, `NothingLost` | an undisturbed sync reports every branch as it is, and as refused only one that diverged, that something `sync.go` names was in the way of, or whose git was killed; no commit and no uncommitted change disappears, and branches only move forward | Sync |
| `UsersFilesStay`, `InstalledInEffect` | nothing of the user's is replaced unasked, or deleted at all unless the `Lstat` of its `.bak` failed; after success git runs the hooks that were found | Hooks |
| `PathIsRunnable`, `InstallsWhatWasAsked`, `NoStepBack` | PATH has a whole binary of this role; what is installed is the tag asked for or newer, above the floor, and without `--tag` never older code | Upgrade |
| `NothingLeftBehind`, `TokenIsOptional`, `RunsEnd` | a failed run leaves no file; a stale token fails nothing; every run ends | Upgrade |

Why the bounds are enough to be interesting: each hazard needs at most three actors (one
that moves, one that frees or replaces, one that is late) and one fault; the retry
bounds (`maxCASAttempts` is 64 in the code, `maxHeadReads` 8, `maxIDAttempts` 512,
`execAttempts` 5) matter by being finite and by the difference between the first and the
last try, which 1 and 2 tell apart. The theorems drop these bounds; what they keep of
the inputs of Pure is under "What is proved". `MaxFaults` bounds crashes and failed
calls together. A directory exchanged for a link and put back takes three changes by
others (the directory aside, the link in place, and one of them back), hence `MaxSwaps`
3 in StoreOpen; its two commands are symmetric and the store a command opens is chosen
freely. In Sync the others stop when the sync has ended: nothing is claimed of what
comes later. What is in the way of a merge combines there with everything others did
before the sync, but with their acts during it only so far as `MCRepoSync` says: it may
come up once, as the first disturbance, and they rest while it is there; and only branch
2 may be rebased, locked or in a linked worktree. The theorems know neither bound.
Upgrade's versions are one of each kind that `version.go` tells apart. Every run allows
deadlock, because every process makes one call and the system then stops; termination is
checked as `CallsEnd` and `RunsEnd` instead.

### Fairness

`FairSpec` asks weak fairness of the steps of each started process, nothing
else: the operating system schedules a process that can go on. Starting a call,
faults, crashes, other users, GitHub and the end of somebody's fork have none. A
process that crashes needs no fairness: it has no step left. `CallsEnd` in
OrderFaults and Items therefore says that nobody ever waits for anybody else,
dead or alive, and that every rm that was started gets to its last argument;
`RunsEnd` says that the ETXTBSY loop ends although the fork that holds the file need
not. OrderFaults has writers only; a reader takes a subset of a writer's steps.

## What is proved

Each theorem holds for every value of the constants that meets the assumptions
below: any number of processes, ids, branches, hooks, releases and directories, any
retry bound, and any number of crashes, failed calls and changes by others.

| Theorem | Says |
|---|---|
| *OrderStoreProofs* | |
| `BeliefsInvariant` | `StoreInvariant`: types, what each process believes of the head, and how the race for the next version stands |
| `WonIsApplied` | a Reorder that returned success published what was the highest version when it was linked (`WonMeansApplied`) |
| `HeadMonotone`, `HeadStable` | the current version never goes back (`HeadNeverBack`), nor is its document exchanged under its name (`HeadOnlySuperseded`) |
| `StoreImplementsRegister` | `Spec => Register!RegSpec`: the directory is one atomically updated register |
| `TheRaceIsWon` | `SomebodyWins`: without faults the owner of the head goes on to its success; a loss costs somebody else a publish |
| `CleanAtRest` | `QuiescentStoreIsClean`: at most `Keep` versions and no staging file when all have ended |
| *ItemStoreProofs* | |
| `ItemsInvariant` | `ItemInvariant`: types, who owns which staging file, what was published, how far an rm and a listing are |
| `ItemsStayWhole`, `ListingsAreSnapshots` | `ItemsAreWhole`, `ListingIsSnapshot` |
| `StoreImplementsMap` | `Spec => Map!ItemMapSpec`, by `ImplementsMap`: an Add adds once or not at all, an rm tries all and tells that one failed |
| *StoreMoveProofs* | |
| `MovesInvariant` | `MoveInvariant`: which root a process can still have open, and where a host's listing finds what it must, unless a question failed |
| `MovesLoseNothing`, `NothingVanishesEver` | `NothingLost`, `NothingVanishes` |
| *StoreOpenProofs* | |
| `OpensInvariant` | `OpenInvariant`: what a command has seen of the name it is at includes what the name has now |
| `OpensWhatWasNamed`, `LinksAreNamed`, `OneStoreForAll` | `OpensOwnDirectory`, `LinkIsNamed`, `OneStoreEach` |
| *RepoSyncProofs* | |
| `SyncsInvariant` | `SyncInvariant`: in an undisturbed sync the list still holds, branches to come are untouched, the others are as told, whatever git refuses and whichever git dies |
| `SyncMovesAll`, `SyncLosesNothingEver` | `SyncsAll`, `NothingLost` |
| *HooksInstallProofs* | |
| `HooksAlwaysInvariant` | `HooksInvariant`, runs that overlap and questions that fail included |
| `InstalledIsInEffect`, `OnlyForceTakesAway` | `InstalledInEffect`; without `--force` nothing of the user's changes (`ForceIsAsked`); both for runs that meet no other, whatever overlapping ones left before |
| `UsersFilesAlwaysStay`, `BackupsStayPristine` | `UsersFilesStay` and `BackupIsTheUsers`, for runs that do not overlap |
| *UpgradeProofs* | |
| `UpgradesInvariant` | `UpgradeInvariant`: what each step of replace may rely on, and that whatever a power loss may bring back runs |
| `PathStaysRunnable`, `UpgradesInstallWhatWasAsked`, `UpgradesNeverStepBack` | `PathIsRunnable`, `InstallsWhatWasAsked`, `NoStepBack` |
| `RunsLeaveNothingBehind`, `StaleTokenFailsNothing` | `NothingLeftBehind`, `TokenIsOptional` |
| *PureProofs* | |
| `OrdersAreRight` | `EachOnceInOrder`, for requests and documents of any length over any ids |
| `MergesAreDocuments` | `mergeOrder` yields documents: what OrderStore assumes of its `Merge` (`DocAssumption`) |
| `FilesReadBack` | `RoundTrip`, for texts of any length and any values |
| `KeysAreShared` | `WorktreesShareOneList`, for any set of trees and worktree directories, forged ones included |
| `SpellingsAreOne`, `SpellingsStayOne` | `Path` reads a host and any number of safe names back from every way to write them; as an invariant of the run, `SpellingsCollapse` |
| `KeysStayApart` | two keys have two directories on any volume, whatever it folds: for keys of any length and any letters |
| `DirectoriesHaveOneKey`, `KeysAreOne` | a directory has one key however it is written (`DirectoryHasOneKey`); with the above, a repository has one (`OneKey`) |
| `ClonesStayApart` | on any disk as clones leave it, a clone is refused and changes nothing, or is where its path leads, where nothing was |
| `ClonesKeepTheirKey` | such a clone is keyed by its origin, by its names without one, and not at all while it cannot be read (`CloneKeepsItsKey`) |
| `SigningIsReported` | a clone is said to sign if and only if it does (`SigningIsTold`): for any environment, configuration and point of failure |
| `WorkspacesAreApart`, `PanesStayApart` | for any base, repository and value, an environment is below the base and no two repositories have one; with the panes of the run, `PanesAreApart` |
| `ExitOfAnything`, `ExitsAreRight` | `ExitIsRight`: for *every* combination of things that are wrong (`World`), and as an invariant of the run, which tries one thing at a time besides origin |

Three of these are about the inputs of the run, because the property is.
`DirectoriesHaveOneKey` is about a base at the root and a tree in it, with the names and
the listings of the run. `ClonesKeepTheirKey` is about the remotes and the bases of the
run on every volume; what a clone may lose is `ClonesStayApart`, without these.
`PanesStayApart` adds the ceilings and the panes of the base `Base` to
`WorkspacesAreApart`.

### Assumptions

- Processes of different kinds are different (`ProcAssumption`, `ProcessAssumption`);
  bounds are natural numbers and retry limits positive (`BoundAssumption`,
  `ItemBoundAssumption`, `NumberAssumption`, `FaultAssumption`); what the code takes
  in the order of a directory or a list is a number (`IdAssumption`, `NameAssumption`,
  `BranchAssumption`); markers are not values (`MineAssumption`,
  `DetachedAssumption`, `NoneAssumption`, `NoFileAssumption`).
- OrderStore: `Merge` yields documents (`DocAssumption`). Nothing else is assumed of
  it; that `mergeOrder` does so is `MergesAreDocuments`, and that it is the right order
  `OrdersAreRight`.
- Pure: ids are natural numbers and finitely many, as the files of a directory are
  (`IdAssumption`); the trees of a layout are numbers other than the two markers
  (`TreeAssumption`); the length of the texts a run tries is a natural number
  (`MaxLinesAssumption`).
- StoreOpen: the trees to begin with are trees, without two names for one directory
  (`StartAssumption`), as directories cannot be linked.
- Upgrade: the floor is canonical (`ReleaseAssumption`; `floor.go` has a constant),
  and, for `UpgradesNeverStepBack` only, versions go up with the history
  (`HistoryAssumption`), which is what a release is and nothing the program can see.
- `UsersFilesAlwaysStay` and `BackupsStayPristine` assume `Overlap = FALSE`: with
  two runs at once the second is finding 3.

TLC evaluates all of them in the run of the machine.

### The arguments

**OrderStore.** None of the properties is inductive, since each speaks of the
directory only, while a step removes or links a name that was decided on long
before, from a head read even earlier. What makes the protocol work is that
every such belief is wrong on one side only. `BeliefsAreSafe` says which:

- what a process read as the head is at or below the head, and if it still *is*
  the head, the content it read is the current one (`ReadIsCurrent`);
- a version it linked is at or below the head, and if it is the head it was the
  head when linked (`PublishIsSettled`);
- it collects its own version only when that is strictly below the head, and
  what it is about to prune is below the head;
- it goes on to prune, and to success, only if its publish has been the head.

Then no removal can hit the head, so the head never goes back, so the beliefs
stay on their side: `HeadStep` (how each action moves the head), `OthersAreSafe`
(another process's step keeps mine) and `ProcSafe`/`WriterSafe` (mine keep mine)
are that circle, one step per action. A link at N+1 changes the current document
only if N+1 is above the head; as the writer's base N was at or below the head, N
is then the head, and by `ReadIsCurrent` the document it merged with is the one
it replaces. That is `LinkApplies`, the core of the refinement.

`RaceIsSettled` adds who wins. `AttemptsAreOwn` ties each file, publish and staging
file to the attempt that made it, so that `HeadOwnerWins` is inductive: the owner of
the head stands at the head when it checks, and does not collect. The counting
property is not inductive as it stands, because a writer is overtaken long before it
notices: `LossesSoFar` therefore counts the loss at the moment the head rises above
what the writer stands on (`Stand`: its base, or its own version once it ruled;
`Overtaken`), which is the moment somebody else's publish is added to the count.
`HeadMoves` says that these are the same moment, `ReadingLosses` and `WritingLosses`
that no own step is overtaken otherwise, one case per action. `OldOnesGo` says who will
still remove a version that is `Keep` or more below the head: its publisher, which was
overtaken, or the owner of the head, before or in its pruning.

**ItemStore.** `StagedIsOwn`: a staging name belongs to the one adder that is at its
write, link or removal, and is whole at the link, so only whole files are linked;
`PublishedOnce`: an adder has published if and only if it got past its link;
`RemovesInTurn`: an rm at work has an argument left; `ListingSoFar`: what was there all
along is read or still to be read, and nothing was read that never was there.

**StoreMove.** The hard case is a process that works in a directory that has lost its
name. `WorkIsInReach` says that an add works in a root that still has one of the two names,
and that a root that may be replaced is empty; `StillInSight`, where at each step of a
host's listing the reminders are that it must show; `HostsGoInOrder`, that a host that
is about to make a new root has no old one to strand. The latter two speak of commands
that were not told a wrong no; what one of those leaves beside the old root is what
`StillInSight` finds and `AskFiles` tells of in the commands after it.

**StoreOpen.** A command looks at a name, opens it and looks again. `SearchIsObserved`:
what the name had since its parent was opened includes what it has now, so what
`os.SameFile` finds equal did have the name. `LinksStopIt`: a command gets no further
than a link that stays. `PartsInOrder` follows the making of the three parts, and
`UndisturbedPaths` says that, while nobody rearranges and nothing fails, every name a
command went through still leads where it led.

**RepoSync.** `NothingLost` is the guard of each git command: a fast-forward goes to a
larger set of changes, whatever the sync believed when it asked for it. `SyncsAll` needs
`SyncSoFar`: while nobody disturbs, every answer git gave still holds at the next
command, but for the branch that a killed `symbolic-ref` did not name.

**HooksInstall.** `AsInspected`: what `clearTarget` saw is still there when it acts, if
runs do not overlap, or it saw nothing because the question failed; `ReportSoFar` and
`EffectSoFar`: what was moved aside is in the report, and what was done is in effect, up
to the hook at hand. Without overlap `NothingDeleted` and `BackupIsTheUsers` are then
inductive. `ForceIsAsked` needs what an undisturbed run has seen only, so it holds
whatever overlapping runs left before.

**Upgrade.** `StepsAreInOrder` has, for each step of `replace`, what is known by then: the
tag is resolved, the archive was verified, the staged file is whole and flushed, it
reported the right role and version; `EveryEntryRuns` speaks also of the entry that a
power loss may bring back (`shadow`), which is why the flush before the rename is
needed. `RetriesAreBounded` and `FailuresHaveAReason` carry `TokenIsOptional`;
`StillInPlace` carries `NoStepBack`: while no other upgrade intervenes, what is replaced
is what runs.

**Pure functions.** MCPure has one step, so an invariant says what was called and that
the output is the function of it; the rest is about the function. The library's induction
rules take an operator as a parameter, which the provers cannot instantiate; a loop is
therefore taken by its least step that goes wrong (`Least`: a set of natural numbers
that is not empty has a least element, from well-foundedness). That is how `LoopRuns`
shows that the recursive function in `PlaceAll` is what its equation says, and how
`AllPlaced` shows what it has computed after k ids: the present ones among the first k of
the request and the document together, each once, by first occurrence (`FirstPlaced`,
one call of `add` in `OnePlaced`). `SortedExists` is that a finite set of ids has an
order, by the least size without one, so that the `CHOOSE` in `Sorted` chooses;
`BehindPlaced`, that the sorted rest lands behind, untouched. `ReadsBack` goes by the
four shapes a header has (`ReadBare`, `ReadRepo`, `ReadScope`, `ReadBoth`): its first
blank line is the one `encode` put there, whatever the text looks like.
`KeyIsOwnOrVerified` says that a tree's key is its own or that of a worktree directory that
lies in the repository's own `worktrees/` and names the tree back; git follows such a one to
the same repository (`VerifiedLinkIsFollowed`), so two trees that share a key share it.

The operators of RepoKey and Workspace scan strings with the folds of the community
modules, which are `CHOOSE`s over functions on sets of positions. `FoldExists` says
that there is such a function, for any step; each loop then has a lemma that says what
its table holds after k steps, by the least k at which it does not: `JoinRuns`,
`SegmentsRun`, `TrimRuns`, `CanonicalRuns`, `ResolveRuns`, `MkdirRuns`.

*Spellings.* `SegmentsOfName`: a name without "/" is one segment, so what is joined is
taken apart again (`JoinedIs`). `FirstCut` and `FinalCut` say where the first and the
last of a letter is, which finds the host between user and port (`HostIs`) in either
form; `EndIsTrimmed`, that "/" and ".git" at the end go and nothing else does.

*Directories.* `KeysStayApart`: what `EscapePath` writes has no big letter, so no volume
folds it (`LowerIsSame`), and it can be read back from its end, because "!" belongs to
the letter behind it and no beginning ends in one (`MarkIsInside`, `EscapesDiffer`).

*Locations.* `SameNameIs` says which names a volume takes for one; a directory has one
entry that is the same as a given name (`OneIsFound`), so canonical spells every writing
of it in one way (`OnDiskIs`), and `KeyUnder` makes its key of that.

*Clones.* `Planted` is the invariant of a disk that clones leave: every directory is in
its parent's listing, and no two names of a listing are one on the volume. A path then
leads to one place at most (`ResolveLeads`), so the place that `RequireEmpty` looks at
is the one that `MkdirAll` goes to (`MkdirLeads`), and a clone leaves a disk that is
`Planted` (`SproutedIs`, `ClonedIs`). `CanonicalLeads` takes the same path back, which
gives its key (`KeyOfClone`).

*Signing.* `WritesAre` lists what `git config` is asked for, in order, and `WrittenAt`
what is set when it fails at the n-th; `sign` is written behind the format and the key,
so no clone signs without them (`StampIs`).

*Workspaces.* `EnvIs`: an environment is the root of environments and the segments of
the repository, the last with a suffix; `EnvsApart`, that two of these differ, whatever
the value; `SearchedBelow`, that git looks no further up than the ceiling.

`ExitOfAnything` follows an error from where it is made: each lemma (`OriginKinds`,
`KeyKinds`, `StoreKinds`, `WorkKinds`, ...) says of one operator of Commands whether it
yields no error, one that ends in 2 or another, and only those three matter when errors
are joined.

### Only model-checked

- Liveness (`CallsEnd` of OrderFaults and Items, `RunsEnd` of Upgrade), which needs
  ENABLED, for which there is no prover here.
- The three findings, which are counterexamples.

## Findings

1. **`reads only ever take the maximum`** (`order.go:103`). `orderHead` reads the
   directory and then opens the highest *name*. If that version is collected
   meanwhile and its name linked again by a late writer, whose publish is below the
   new head, List returns a document that never was current (`OrderMaximum`).
   Nothing is lost: the writer collects it and tries again.
2. **`BranchAdvanced ... means the branch moved`** (`sync.go:43-45`). The
   checked-out branch is asked for once, before the walk. A checkout after that
   makes `merge --ff-only` move another branch, and the one that was meant is
   reported as advanced (`SyncCheckout`).
3. **`an existing .bak is left alone`** (`hooks.go:272-275`). Two forced
   `--symlink` runs at once: the backup is looked for and renamed over in two
   steps, and the second run's rename replaces the pristine backup (`HooksBackup`).

Smaller observations, in the model as the code does it, or where a property stops
short of it, and without a run of their own:

- A dropped file without a header is cut at its first blank line, though `item.go:71`
  says "treat the whole file as the reminder" (`Decode` in ItemFile).
- `app.go:161-163` and `README.md:783` let I/O failures end in exit code 1, but three of
  them carry a sentinel and end in 2: an entry or a record of a worktree that cannot be
  read is `ErrWorktreeUnverified` (`key.go:437-447`), a directory that cannot be listed
  is `ErrUnreadableSpelling` (`key.go:231`), and git that fails is `ErrNotARepository`
  (`key.go:374-389`, `app.go:111-117`). They are `Doubtful` in Commands, and
  `ExitIsRight` claims 1 or 2 for them, not which.
- An `add` of an empty text exits with 1, though no repetition mends it, which is why a
  malformed id exits with 2 (`errors.go:85-87`).
- `app.go:225-227` stops the command on any failure of the move, lest it make a new root
  beside the old one. A question that fails is no failure: `isDir`, `exists` and
  `holdsFiles` (`app.go:350-392`) say no. One failed `Stat` of the old root, and an add
  makes the new root beside it, after which nothing moves it any more, or a list is
  short and says nothing. `NothingVanishes` therefore excepts the command that asked in
  vain, and no other.
- `hooks.go:272-275` leaves an existing backup alone, but an `Lstat` of it that fails, for
  whatever reason, counts as no backup, and the rename replaces it (`hooks.go:310-315`).
  One failed call does alone what finding 3 needs two runs for.
- A `Readlink` that fails makes canga's own link a foreign file: without `--force` a
  conflict, with it the link itself becomes the `.bak` (`hooks.go:289-315`).
- A hook that cannot be examined is not one: it is not installed (`hooks.go:341`), and that
  it stops running is not told (`hooks.go:378`). `InstalledInEffect` is about those found.
- `EEXIST` is "Already the link we wanted" (`hooks.go:209`) also of a file that a user made
  after the look; it is then reported as an installed hook.
- A git killed by a signal counts as one that refused (`git.go:184-191`): a sync goes on as
  under a detached HEAD (`sync.go:324-328`), or reports as refused a branch that the killed
  git has moved (`sync.go:221-228`).

## What is not modelled

- Sizes and odd files: the limits of `boundedread`, `store.Add` beyond
  `ErrTextTooLarge`, archives and responses, devices and plain files in the place of
  directories. Nothing the program itself writes is any of these.
- In StoreOpen a base is a directory or missing: a link there is followed on purpose
  (`store.go:189-190`). Links lead to a neighbour or to nothing; `os.Root` refuses the
  ones that lead out, which ends an open like any failed call.
- `fsync` in the store: it does none, and no property here survives a power loss of
  the store; crashes are deaths of processes. Upgrade does flush, and there power
  loss is modelled (`PowerLoss`).
- In HooksInstall a user never replaces a link of canga's by a file in the one
  moment between `Readlink` and `Remove` (`hooks.go:296`): Remove would take it.
  The hazard is listed without a property. A link that vanishes between `Lstat` and
  `Readlink` is not there for either.
- In RepoSync, what a merge that is killed has half-written in the working tree: it leaves
  its lock, or not, and the branch is moved, or not.
- In Upgrade, a killed run leaves its `.canga-upgrade-*` file and nothing collects it;
  `NothingLeftBehind` is about runs that end by themselves, and takes it that the
  deferred `Remove` (`install.go:122`), whose error nobody sees, does not fail. At most
  one other upgrade replaces the binary during a run, and as the version compared is
  that of the running process, `NoStepBack` is claimed only for a run during which none
  did.
- Of the keys: `Redact` and `quoted`, which word messages. On a volume that folds
  case, a clone whose parent directory is there in another spelling lands in that
  one, and its key by location then has the stored spelling, not the origin's:
  `CloneKeepsItsKey` demands equality letter by letter only where the volume tells
  big from small. A name the store has reserved (`repo`, `items`, ...) gives no key
  by location at all, as `key.go:69-83` says.
- Of the commands: the sentinels that `upgrade`, `setup hooks` and `workspace` add to
  `ExitCode` (`upgrade.go:67`, `errors.go:22` of the host build), each one line;
  parsing, output and completion. A build without a base directory (`a.BaseDir == nil`,
  `app.go:106`) does not exist.
- Of the clone: a clone that fails or is killed, which git tidies up by itself.
- Of the root's renaming: the removal of the old project directory once it is empty.
- Of versions: leading zeros, and the order of two pre-releases of one version;
  `checkFloor` takes neither.
- Of the workspace: the layout document and the call of cmux.
- The wiring of the two binaries, installers, scripts and CI: straight-line scripts.

## Plan

Done: the order documents with their proofs; the items and their files; keys and
the layout of clones; opening and the renamed root; sync; hooks; upgrade with its
versions; signing; exit codes; workspaces. What is left of the models is listed
above with its reasons.

The machines and the pure functions are proved: each invariant and each action property
that a run checks is a theorem. Left for proofs are liveness, for which a prover of
ENABLED is needed, and a location of any depth in `DirectoriesHaveOneKey`, by a lemma
about the loop of `canonical` on trees of any depth in place of one about its two steps.
