------------------------------ MODULE Commands ------------------------------
(***************************************************************************)
(* What a reminders command ends with: 0, 1 for a failure and 2 for a bad  *)
(* invocation (internal/cli/errors.go), by what happened on its way: to    *)
(* git (internal/repo/git.go, repo.go), to the key of the repository       *)
(* (internal/repo/key.go, internal/cli/app.go), to the store and to what   *)
(* it was asked to do there (internal/cli/reminders.go, internal/store).   *)
(*                                                                         *)
(* An error is the set of what errors.Is finds in it; nil is the empty set. *)
(***************************************************************************)
EXTENDS Naturals, FiniteSets

Nil == {}

(* What went wrong is not the place: running the command again may help, or *)
(* mending the machine.                                                     *)
Broken == {"cancelled", "no git", "git not started", "io"}

(* How a git command fails; "refused": it ran and exited with a status.     *)
GitFails == {"cancelled", "no git", "git not started", "refused"}

(* classify, where a cancelled command may have ended in any way.           *)
Classify(fails, refused) ==
  CASE fails = "refused" -> {refused}
    [] fails = "no git"  -> {"ErrGitMissing"}
    [] OTHER             -> {fails}

-----------------------------------------------------------------------------
(* What git says of origin: its URL, good, bad or empty; one of the answers *)
(* about the directory; or nothing of use.                                  *)
Answers == {"no such remote", "not a repository", "dubious owner", "no directory"}

OriginAnswers == {"url", "bad url", "empty url"} \cup Answers \cup GitFails

(* Origin, originRefusal: what git says about the directory is no origin;   *)
(* a repository it cannot read is not.                                      *)
OriginError(says) ==
  CASE says \in {"url", "bad url"}           -> Nil
    [] says \in Answers \cup {"empty url"}  -> {"ErrNoOrigin"}
    [] OTHER                                -> Classify(says, "ErrGitRefused")

(* HasRemote: whether origin is listed, or how git failed.                  *)
RemoteAnswers == {"unlisted", "listed"} \cup GitFails

RemoteError(says) ==
  IF says \in GitFails THEN Classify(says, "ErrNotARepository") ELSE Nil

-----------------------------------------------------------------------------
(* Why a location gives no key although nothing is broken.                  *)
WrongPlace ==
  {"no .git", "core.worktree", "forged worktree", ".git is a link",
   "renamed variable", "no base given", "no such base", "outside the base",
   "unusable name"}

(* What may be either, and is filed as a wrong place: git refuses one more  *)
(* question, after it has said that there is no origin; a directory cannot  *)
(* be listed; an entry or a record that a linked worktree has to be checked *)
(* by cannot be read.                                                       *)
Doubtful == {"refused", "unlisted name", "unreadable record"}

(* KeyTree, with Toplevel, linkedMain and canonical.                        *)
TreeError(why) ==
  CASE why \in GitFails          -> Classify(why, "ErrNotARepository")
    [] why = "no .git"           -> {"ErrNotARepository"}
    [] why = "unlisted name"     -> {"ErrUnreadableSpelling", "io"}
    [] why = "core.worktree"     -> {"ErrWorktreeElsewhere"}
    [] why = "forged worktree"   -> {"ErrWorktreeUnverified"}
    [] why = "unreadable record" -> {"ErrWorktreeUnverified"}
    [] why = ".git is a link"    -> {"ErrDotGitLink"}
    [] why = "io"                -> {"io"}
    [] OTHER                     -> Nil

(* BaseDir on the host, HandedBaseDir in a sandbox.                         *)
BaseError(why) ==
  CASE why = "renamed variable" -> {"ErrRenamedVariable"}
    [] why = "no base given"    -> {"ErrNoBaseDir"}
    [] why = "io"               -> {"io"}
    [] OTHER                    -> Nil

(* PathUnder.                                                               *)
UnderError(why) ==
  CASE why = "no such base"     -> {"ErrNoSuchBase"}
    [] why = "outside the base" -> {"ErrNotUnderBase"}
    [] why = "unusable name"    -> {"ErrBadPath"}
    [] why = "unlisted name"    -> {"ErrUnreadableSpelling", "io"}
    [] why = "io"               -> {"io"}
    [] OTHER                    -> Nil

KeySentinels ==
  {"ErrNotARepository", "ErrNotUnderBase", "ErrNoSuchBase", "ErrBadPath",
   "ErrWorktreeElsewhere", "ErrWorktreeUnverified", "ErrDotGitLink",
   "ErrUnreadableSpelling", "ErrNoBaseDir", "ErrRenamedVariable"}

(* Slip: whatever stops the location from giving a key is no origin.        *)
NoOriginAlways(error) == {"ErrNoOrigin"} \cup error

NoOriginAnd(error) ==
  IF error \cap KeySentinels = {} THEN error ELSE {"ErrNoOrigin"} \cup error

(* The first of two steps that fails ends them.                             *)
Then(error, next) == IF error # Nil THEN error ELSE next

(* repoName: by the URL of origin, or by the location if git lists no such  *)
(* remote.  world.why is what is wrong with the location, at world.at.      *)
NameError(world) ==
  LET origin == OriginError(world.origin)
      remote == RemoteError(world.remote)
      place(at, error) == IF world.at = at THEN NoOriginAnd(error) ELSE Nil
  IN  IF origin = Nil THEN IF world.origin = "bad url" THEN {"ErrBadURL"} ELSE Nil
      ELSE IF "ErrNoOrigin" \notin origin \/ world.remote = "listed" THEN origin
      ELSE IF remote # Nil THEN IF "ErrNotARepository" \in remote THEN origin ELSE remote
      ELSE Then(place("tree", TreeError(world.why)),
                      Then(place("base", BaseError(world.why)),
                           place("under", UnderError(world.why))))

-----------------------------------------------------------------------------
(* Config: the key, and then the root of all stores.                        *)
ConfigError(world) == Then(NameError(world), world.data)

(* Open and OpenExisting: only add brings a store into existence.           *)
OpenError(world) ==
  IF world.verb = "add" THEN world.open \ {"ErrNoStore"} ELSE world.open

(* WithStore, WithNewStore: an old root is moved, the store of the key is   *)
(* opened, and the command does its work, each unless one before it failed. *)
StoreError(world, work) ==
  Then(world.move, Then(ConfigError(world), Then(OpenError(world), work)))

(* Add, for what becomes of a text; an id of its own is never malformed.    *)
AddError(text) ==
  CASE text = "empty"      -> {"ErrEmptyText"}
    [] text = "too large"  -> {"ErrTextTooLarge"}
    [] text = "no free id" -> {"ErrExhausted"}
    [] text = "stuck"      -> {"io"}
    [] OTHER               -> Nil

(* Remove and ItemPath, for what may be behind an id.                       *)
IdError(id) ==
  CASE id = "malformed" -> {"ErrInvalidID"}
    [] id = "gone"      -> {"ErrNotFound"}
    [] id = "stuck"     -> {"io"}
    [] OTHER            -> Nil

(* RemindersRemove joins the failures of all its arguments; RemindersPath   *)
(* has one.                                                                 *)
EachError(ids) == UNION {IdError(id) : id \in ids}

(* Reorder: every id is well-formed, the store is read, every id is in it,  *)
(* and the document is published.  An item that is only named need not be   *)
(* readable or removable.                                                   *)
ReorderError(world) ==
  Then(IF "malformed" \in world.ids THEN IdError("malformed") ELSE Nil,
    Then(world.read,
      Then(IF "gone" \in world.ids THEN IdError("gone") ELSE Nil, world.publish)))

(* RemindersList: a repository without a store has an empty list.           *)
ListError(error) == IF "ErrNoStore" \in error THEN Nil ELSE error

(* "path" is RemindersPath without an id, which opens nothing; "file" is    *)
(* RemindersPath with one.                                                  *)
CommandError(world) ==
  CASE world.verb = "path"    -> Then(world.move, ConfigError(world))
    [] world.verb = "list"    -> ListError(StoreError(world, world.read))
    [] world.verb = "add"     -> StoreError(world, AddError(world.text))
    [] world.verb = "reorder" -> StoreError(world, ReorderError(world))
    [] OTHER                  -> StoreError(world, EachError(world.ids))

UsageSentinels ==
  {"ErrNoOrigin", "ErrBadURL", "ErrNotARepository", "ErrRenamedVariable", "ErrInvalidID"}

ExitCode(error) ==
  CASE error = Nil                         -> 0
    [] error \cap UsageSentinels # {}      -> 2
    [] OTHER                               -> 1
=============================================================================
