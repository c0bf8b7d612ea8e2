----------------------------- MODULE PureProofs -----------------------------
(***************************************************************************)
(* Proofs about the pure functions, for values and inputs of any size      *)
(* unless a theorem says that it is of the run: the format of an item file *)
(* and the order of ids; what a command ends with; what is said of the     *)
(* signing of a clone; the environments of workspaces and the ceilings     *)
(* around them; the key of a repository, from any spelling of its origin,  *)
(* from where it is and through worktrees; and where clones land.          *)
(* A loop is taken by its least step that goes wrong.                      *)
(***************************************************************************)
EXTENDS MCPure, FiniteSetTheorems, SequenceTheorems, WellFoundedInduction, TLAPS

-----------------------------------------------------------------------------
(* What is called, and with what: one function, once.                       *)
ClonesCalled ==
  \E first, second \in Hosted, folds \in SUBSET Folds, typed \in {<<x, X>>, <<X, x>>} :
    /\ SameName([folds |-> folds], typed, <<x, X>>)
    /\ input = [call |-> "clone", folds |-> folds, base |-> <<typed>>,
                tails |-> << <<<<x>>>> \o first, <<<<x>>>> \o second >>]

LEMMA Called ==
  ASSUME Init
  PROVE  /\ output = Waiting
         /\ \/ \E front, current \in BoundedSeq(Id, MaxNamed), present \in SUBSET Id :
                 input = [call |-> "order", front |-> front, current |-> current,
                          present |-> present]
            \/ \E item \in Item : input = [call |-> "add", item |-> item]
            \/ \E lines \in BoundedSeq(Plain, MaxLines) :
                 input = [call |-> "dropped", lines |-> lines]
            \/ \E tail \in Tails, how \in Written :
                 input = [call |-> "origin", tail |-> tail, how |-> how]
            \/ \E folds \in SUBSET Folds : \E root, below \in Listings(folds), readable \in Listable :
                 /\ <<x, X>> \in root
                 /\ input = [call |-> "location", disk |-> Volume(folds, readable, root, below)]
            \/ input.call = "clone" /\ ClonesCalled
            \/ \E layout \in Layouts : input = [call |-> "worktrees", layout |-> layout]
            \/ \E world \in Worlds : input = [call |-> "command", world |-> world]
            \/ \E machine \in Machines : \E n \in 0 .. Len(Commands(machine)) :
                 input = [call |-> "sign", machine |-> machine, n |-> n]
            \/ \E tail \in Repositories, raw \in RawValues :
                 input = [call |-> "workspace", tail |-> tail, raw |-> raw]
            \/ \E links \in Links, inherited \in Inherited :
                 input = [call |-> "ceiling", links |-> links, inherited |-> inherited]
<1>1. CASE ClonesCalled
  <2>1. output = Waiting
    BY DEF Init
  <2>2. input.call = "clone"
    BY <1>1, SMTT(20) DEF ClonesCalled
  <2> QED
    BY <1>1, <2>1, <2>2, Zenon
<1>2. CASE ~ ClonesCalled
  BY <1>2, ZenonT(60) DEF Init, ClonesCalled
<1> QED
  BY <1>1, <1>2

(* A step answers the call, and each call has one answer.                   *)
LEMMA Answered ==
  ASSUME Next
  PROVE  /\ input' = input
         /\ input.call = "order" => OrderIds
         /\ input.call = "worktrees" => KeysOfTrees
         /\ input.call = "command" => RunCommand
         /\ input.call = "add" => ReadBack
         /\ input.call = "dropped" => ReadDropped
         /\ input.call = "sign" => StampClone
         /\ input.call = "origin" => KeyOfOrigin
         /\ input.call = "location" => KeysOfLocations
         /\ input.call = "clone" => KeysOfClones
         /\ input.call = "workspace" => OpenWorkspace
         /\ input.call = "ceiling" => GuardPane
<1>1. OrderIds => input.call = "order" /\ input' = input
  BY DEF OrderIds
<1>2. ReadBack => input.call = "add" /\ input' = input
  BY DEF ReadBack
<1>3. ReadDropped => input.call = "dropped" /\ input' = input
  BY DEF ReadDropped
<1>4. KeyOfOrigin => input.call = "origin" /\ input' = input
  BY DEF KeyOfOrigin
<1>5. KeysOfLocations => input.call = "location" /\ input' = input
  BY DEF KeysOfLocations
<1>6. KeysOfClones => input.call = "clone" /\ input' = input
  BY DEF KeysOfClones
<1>7. KeysOfTrees => input.call = "worktrees" /\ input' = input
  BY DEF KeysOfTrees
<1>8. RunCommand => input.call = "command" /\ input' = input
  BY DEF RunCommand
<1>9. StampClone => input.call = "sign" /\ input' = input
  BY DEF StampClone
<1>10. OpenWorkspace => input.call = "workspace" /\ input' = input
  BY DEF OpenWorkspace
<1>11. GuardPane => input.call = "ceiling" /\ input' = input
  BY DEF GuardPane
<1> QED
  BY <1>1, <1>2, <1>3, <1>4, <1>5, <1>6, <1>7, <1>8, <1>9, <1>10, <1>11 DEF Next

-----------------------------------------------------------------------------
(* The keys of working trees.                                               *)

(* The files a .git may be.                                                 *)
DotGits ==
  {<<"dir">>, <<"elsewhere">>, <<"link">>, <<"apart">>}
    \cup {<<"file", w>> : w \in Worktree}

(* A layout that can be asked for a key, and the answers if there are some. *)
TreesInv ==
  input.call = "worktrees" =>
    /\ input.layout \in Layouts
    /\ \/ output = Waiting
       \/ output = [key |-> [t \in Tree |-> KeyTree(input.layout, t)]]

(* A .git that is no linked worktree's is no file that names a repository.  *)
LEMMA DotGitKinds ==
  /\ \A w : <<"file", w>> \notin {<<"dir">>, <<"elsewhere">>, <<"link">>, <<"apart">>}
  /\ \A w : <<"file", w>>[2] = w
  /\ <<"dir">> # <<"elsewhere">> /\ <<"dir">> # <<"link">> /\ <<"dir">> # <<"apart">>
  /\ <<"elsewhere">> # <<"link">> /\ <<"elsewhere">> # <<"apart">>
  /\ <<"link">> # <<"apart">>
OBVIOUS

LEMMA LayoutTypes ==
  ASSUME NEW layout \in Layouts, NEW t \in Tree
  PROVE  /\ layout.dotGit[t] \in DotGits
         /\ \A w \in Worktree : layout.worktree[w] \in WorktreeDirs
BY DEF Layouts, DotGits

(* The worktree directory w lies in the .git of r, names r as its           *)
(* repository and t as its tree.                                            *)
LinksBack(layout, w, r, t) ==
  /\ layout.worktree[w].home = r /\ layout.worktree[w].common = r
  /\ layout.worktree[w].gitdir = t
  /\ HasRepository(layout, r)

(* Who reads whose list: the tree that holds the repository itself, or a    *)
(* tree linked to it in both directions.                                    *)
LEMMA KeyIsOwnOrVerified ==
  ASSUME NEW layout \in Layouts, NEW t \in Tree, KeyTree(layout, t) # None
  PROVE  \/ /\ layout.dotGit[t] = <<"dir">>
            /\ KeyTree(layout, t) = t /\ CommonDir(layout, t) = t
         \/ /\ layout.dotGit[t] = <<"apart">>
            /\ KeyTree(layout, t) = t /\ CommonDir(layout, t) = Bare
         \/ \E w \in Worktree, r \in Tree :
              /\ layout.dotGit[t] = <<"file", w>> /\ LinksBack(layout, w, r, t)
              /\ KeyTree(layout, t) = r /\ CommonDir(layout, t) = r
<1> DEFINE d == layout.dotGit[t]
<1>1. d \in DotGits
  BY LayoutTypes
<1>2. CASE d = <<"dir">>
  BY <1>2, TreeAssumption, DotGitKinds DEF KeyTree, CommonDir, IsToplevel
<1>3. CASE d = <<"apart">>
  BY <1>3, TreeAssumption, DotGitKinds DEF KeyTree, CommonDir, IsToplevel
<1>4. CASE d \in {<<"elsewhere">>, <<"link">>}
  BY <1>4, DotGitKinds DEF KeyTree, IsToplevel
<1>5. ASSUME NEW w \in Worktree, d = <<"file", w>>
      PROVE  \E r \in Tree : /\ LinksBack(layout, w, r, t)
                             /\ KeyTree(layout, t) = r /\ CommonDir(layout, t) = r
  <2> DEFINE dir == layout.worktree[w]
  <2>1. CommonDir(layout, t) # None /\ LinkVerified(t, dir)
        /\ KeyTree(layout, t) = CommonDir(layout, t)
    BY <1>5, DotGitKinds DEF KeyTree, IsToplevel
  <2>2. CommonDir(layout, t) = dir.common /\ HasRepository(layout, dir.common)
    BY <1>5, <2>1, DotGitKinds DEF CommonDir
  <2>3. dir.common \in Tree
    BY <2>1, <2>2, LayoutTypes DEF WorktreeDirs, LinkVerified
  <2> QED
    BY <2>1, <2>2, <2>3 DEF LinksBack, LinkVerified
<1> QED
  BY <1>1, <1>2, <1>3, <1>4, <1>5 DEF DotGits

(* A linked worktree the repository's record confirms reads its list.       *)
LEMMA VerifiedLinkIsFollowed ==
  ASSUME NEW layout \in Layouts, NEW t \in Tree, NEW r \in Tree, NEW w \in Worktree,
         layout.dotGit[t] = <<"file", w>>, LinksBack(layout, w, r, t)
  PROVE  KeyTree(layout, t) = r
<1>1. r # None /\ r # Bare
  BY TreeAssumption
<1>2. CommonDir(layout, t) = r
  BY <1>1, DotGitKinds DEF CommonDir, LinksBack
<1>3. LinkVerified(t, layout.worktree[w])
  BY <1>1 DEF LinkVerified, LinksBack
<1> QED
  BY <1>1, <1>2, <1>3, DotGitKinds DEF KeyTree, IsToplevel

(* Two trees with one key are of one repository, and one is no copy of the  *)
(* other's link.                                                            *)
LEMMA SharersAreOfOne ==
  ASSUME NEW layout \in Layouts, NEW t \in Tree, NEW u \in Tree, t # u,
         KeyTree(layout, t) # None, KeyTree(layout, t) = KeyTree(layout, u)
  PROVE  /\ CommonDir(layout, t) = CommonDir(layout, u)
         /\ layout.dotGit[t] # layout.dotGit[u]
<1>1. KeyTree(layout, u) # None
  OBVIOUS
<1>2. \/ layout.dotGit[t] \in {<<"dir">>, <<"apart">>} /\ KeyTree(layout, t) = t
      \/ \E w \in Worktree, r \in Tree :
           layout.dotGit[t] = <<"file", w>> /\ LinksBack(layout, w, r, t) /\ KeyTree(layout, t) = r
  BY KeyIsOwnOrVerified
<1>3. \/ layout.dotGit[u] \in {<<"dir">>, <<"apart">>} /\ KeyTree(layout, u) = u
      \/ \E w \in Worktree, r \in Tree :
           layout.dotGit[u] = <<"file", w>> /\ LinksBack(layout, w, r, u) /\ KeyTree(layout, u) = r
  BY <1>1, KeyIsOwnOrVerified
<1>4. layout.dotGit[t] # layout.dotGit[u]
  <2> SUFFICES ASSUME layout.dotGit[t] = layout.dotGit[u] PROVE FALSE
    OBVIOUS
  <2>1. CASE layout.dotGit[t] \in {<<"dir">>, <<"apart">>}
    BY <2>1, <1>2, <1>3, DotGitKinds
  <2>2. ASSUME NEW w \in Worktree, layout.dotGit[t] = <<"file", w>> PROVE FALSE
    <3>1. layout.worktree[w].gitdir = t
      BY <2>2, <1>2, DotGitKinds DEF LinksBack
    <3>2. layout.worktree[w].gitdir = u
      BY <2>2, <1>3, DotGitKinds DEF LinksBack
    <3> QED
      BY <3>1, <3>2
  <2> QED
    BY <2>1, <2>2, <1>2
<1>5. CommonDir(layout, t) = CommonDir(layout, u)
  BY <1>1, KeyIsOwnOrVerified, TreeAssumption, DotGitKinds DEF HasRepository, LinksBack
<1> QED
  BY <1>4, <1>5

(* KeyTree: for any set of trees, whatever their .git files, commondir and  *)
(* gitdir name, the worktrees of a repository read its list, and no tree    *)
(* does that the repository itself does not record.                         *)
THEOREM KeysAreShared == Spec => []WorktreesShareOneList
<1>1. Init => TreesInv
  BY Called DEF TreesInv
<1>2. TreesInv /\ [Next]_vars => TreesInv'
  BY Answered DEF vars, TreesInv, KeysOfTrees
<1>3. TreesInv => WorktreesShareOneList
  <2> SUFFICES ASSUME TreesInv, Done("worktrees") PROVE WorktreesShareOneList
    BY DEF WorktreesShareOneList
  <2>1. input.layout \in Layouts
    BY DEF TreesInv, Done
  <2>2. \A t \in Tree : output.key[t] = KeyTree(input.layout, t)
    BY DEF TreesInv, Done
  <2>3. ASSUME NEW t \in Tree, NEW r \in Tree, NEW w \in Worktree,
               input.layout.dotGit[t] = <<"file", w>>, HasRepository(input.layout, r),
               input.layout.worktree[w] = [home |-> r, common |-> r, gitdir |-> t]
        PROVE  output.key[t] = r
    <3>1. LinksBack(input.layout, w, r, t)
      BY <2>3 DEF LinksBack
    <3> QED
      BY <2>1, <2>2, <2>3, <3>1, VerifiedLinkIsFollowed
  <2>4. ASSUME NEW t \in Tree, output.key[t] \notin {None, t}
        PROVE  /\ CommonDir(input.layout, t) = output.key[t]
               /\ t \in Recorded(input.layout, output.key[t])
    <3>1. PICK w \in Worktree :
            /\ LinksBack(input.layout, w, output.key[t], t)
            /\ CommonDir(input.layout, t) = output.key[t]
      BY <2>1, <2>2, <2>4, KeyIsOwnOrVerified
    <3> QED
      BY <3>1 DEF LinksBack, Recorded
  <2>5. \A t, u \in Tree :
          t # u /\ output.key[t] # None /\ output.key[t] = output.key[u] =>
            /\ CommonDir(input.layout, t) = CommonDir(input.layout, u)
            /\ input.layout.dotGit[t] # input.layout.dotGit[u]
    BY <2>1, <2>2, SharersAreOfOne
  <2> QED
    BY <2>3, <2>4, <2>5 DEF WorktreesShareOneList
<1> QED
  BY <1>1, <1>2, <1>3, PTL DEF Spec
-----------------------------------------------------------------------------
(* What a command ends with.                                                *)

(* An error is one of three: none, one that says the command was run in the *)
(* wrong way or at the wrong place, or one that says something is broken.   *)
Usage(error) == error \cap UsageSentinels # {}

Failure(error) == error # Nil /\ ~ Usage(error)

LEMMA ThreeEndings ==
  ASSUME NEW error
  PROVE  /\ error = Nil => ExitCode(error) = 0
         /\ Usage(error) => ExitCode(error) = 2
         /\ Failure(error) => ExitCode(error) = 1
         /\ ~ Usage(Nil)
BY DEF ExitCode, Usage, Failure, Nil

(* The errors the pieces of a command make, one by one.                     *)
LEMMA SentinelKinds ==
  /\ \A e \in {"ErrNoOrigin", "ErrBadURL", "ErrNotARepository", "ErrRenamedVariable",
               "ErrInvalidID"} : Usage({e})
  /\ \A e \in {"io", "cancelled", "ErrGitMissing", "git not started", "ErrGitRefused",
               "ErrNoStore", "ErrSymlinkedStore", "ErrContended", "ErrNotFound",
               "ErrEmptyText", "ErrTextTooLarge", "ErrExhausted"} : Failure({e})
BY DEF Usage, Failure, UsageSentinels, Nil

(* Origin: what says that there is none may be followed by the location.    *)
LEMMA OriginKinds ==
  ASSUME NEW says \in OriginAnswers
  PROVE  /\ says \in {"url", "bad url"} => OriginError(says) = Nil
         /\ says \in Answers \cup {"empty url"} => OriginError(says) = {"ErrNoOrigin"}
         /\ says \in GitFails =>
              Failure(OriginError(says)) /\ "ErrNoOrigin" \notin OriginError(says)
<1>1. CASE says \in {"url", "bad url"}
  BY <1>1 DEF OriginError, Answers, GitFails
<1>2. CASE says \in Answers \cup {"empty url"}
  BY <1>2 DEF OriginError, Answers, GitFails
<1>3. CASE says \in GitFails
  <2>1. OriginError(says) = Classify(says, "ErrGitRefused")
    BY <1>3 DEF OriginError, Answers, GitFails
  <2>2. OriginError(says) \in {{"ErrGitRefused"}, {"ErrGitMissing"}, {"cancelled"},
                               {"git not started"}}
    BY <1>3, <2>1 DEF Classify, GitFails
  <2> QED
    BY <2>2, <1>3, SentinelKinds DEF GitFails, Answers
<1> QED
  BY <1>1, <1>2, <1>3 DEF OriginAnswers

(* HasRemote.                                                               *)
LEMMA RemoteKinds ==
  ASSUME NEW says \in RemoteAnswers
  PROVE  /\ says \in {"unlisted", "listed"} => RemoteError(says) = Nil
         /\ says = "refused" => RemoteError(says) = {"ErrNotARepository"}
         /\ says \in GitFails \ {"refused"} =>
              Failure(RemoteError(says)) /\ "ErrNotARepository" \notin RemoteError(says)
<1>1. CASE says \in {"unlisted", "listed"}
  BY <1>1 DEF RemoteError, GitFails
<1>2. CASE says = "refused"
  BY <1>2 DEF RemoteError, GitFails, Classify
<1>3. CASE says \in GitFails \ {"refused"}
  <2>1. RemoteError(says) \in {{"ErrGitMissing"}, {"cancelled"}, {"git not started"}}
    BY <1>3 DEF RemoteError, Classify, GitFails
  <2> QED
    BY <2>1, <1>3, SentinelKinds DEF GitFails
<1> QED
  BY <1>1, <1>2, <1>3 DEF RemoteAnswers

(* The location: an error that means a wrong place is joined with           *)
(* ErrNoOrigin, one that means something broken is left as it is.           *)
LEMMA JoinedKinds ==
  /\ \A error : error \cap KeySentinels # {} => Usage(NoOriginAnd(error))
  /\ \A error : error \cap KeySentinels = {} => NoOriginAnd(error) = error
BY DEF NoOriginAnd, Usage, UsageSentinels

LEMMA KeyKinds ==
  ASSUME NEW e
  PROVE  /\ e \in KeySentinels => Usage(NoOriginAnd({e}))
         /\ e \in KeySentinels => Usage(NoOriginAnd({e, "io"}))
         /\ e \in {"io", "cancelled", "ErrGitMissing", "git not started"} =>
              Failure(NoOriginAnd({e}))
<1>1. e \in KeySentinels => {e} \cap KeySentinels # {} /\ {e, "io"} \cap KeySentinels # {}
  OBVIOUS
<1>2. e \in {"io", "cancelled", "ErrGitMissing", "git not started"} =>
        {e} \cap KeySentinels = {}
  BY DEF KeySentinels
<1> QED
  BY <1>1, <1>2, JoinedKinds, SentinelKinds

(* KeyTree, BaseDir and PathUnder: whatever keeps the location from giving  *)
(* a key, it is broken and then a failure, or else filed as a wrong place.  *)
LEMMA StopKinds ==
  ASSUME NEW why \in Whys
  PROVE  /\ TreeError(why) # Nil =>
              IF why \in Broken THEN Failure(NoOriginAnd(TreeError(why)))
                                ELSE Usage(NoOriginAnd(TreeError(why)))
         /\ BaseError(why) # Nil =>
              IF why \in Broken THEN Failure(NoOriginAnd(BaseError(why)))
                                ELSE Usage(NoOriginAnd(BaseError(why)))
         /\ UnderError(why) # Nil =>
              IF why \in Broken THEN Failure(NoOriginAnd(UnderError(why)))
                                ELSE Usage(NoOriginAnd(UnderError(why)))
<1> DEFINE Is(error) ==
      IF why \in Broken
        THEN error \in {{"io"}, {"cancelled"}, {"ErrGitMissing"}, {"git not started"}}
        ELSE \E e \in KeySentinels : error \in {{e}, {e, "io"}}
<1>1. \A error : Is(error) =>
        IF why \in Broken THEN Failure(NoOriginAnd(error)) ELSE Usage(NoOriginAnd(error))
  BY KeyKinds
<1>2. TreeError(why) # Nil => Is(TreeError(why))
  <2>1. CASE why \in Broken
    BY <2>1 DEF TreeError, Broken, GitFails, Classify, Nil
  <2>2. CASE why \in {"refused", "no .git", "unlisted name", "core.worktree",
                      "forged worktree", "unreadable record", ".git is a link"}
    BY <2>2 DEF TreeError, Broken, GitFails, Classify, KeySentinels
  <2>3. CASE why \in {"renamed variable", "no base given", "no such base",
                      "outside the base", "unusable name"}
    BY <2>3 DEF TreeError, GitFails
  <2> QED
    BY <2>1, <2>2, <2>3 DEF Whys, WrongPlace, Doubtful
<1>3. BaseError(why) # Nil => Is(BaseError(why))
  <2>1. CASE why \in Broken
    BY <2>1 DEF BaseError, Broken, Nil
  <2>2. CASE why \in {"renamed variable", "no base given"}
    BY <2>2 DEF BaseError, Broken, KeySentinels
  <2>3. CASE why \in (WrongPlace \cup Doubtful) \ {"renamed variable", "no base given"}
    BY <2>3 DEF BaseError, WrongPlace, Doubtful
  <2> QED
    BY <2>1, <2>2, <2>3 DEF Whys
<1>4. UnderError(why) # Nil => Is(UnderError(why))
  <2>1. CASE why \in Broken
    BY <2>1 DEF UnderError, Broken, Nil
  <2>2. CASE why \in {"no such base", "outside the base", "unusable name", "unlisted name"}
    BY <2>2 DEF UnderError, Broken, KeySentinels
  <2>3. CASE why \in (WrongPlace \cup Doubtful)
                      \ {"no such base", "outside the base", "unusable name", "unlisted name"}
    BY <2>3 DEF UnderError, WrongPlace, Doubtful
  <2> QED
    BY <2>1, <2>2, <2>3 DEF Whys
<1> HIDE DEF Is
<1>5. /\ TreeError(why) # Nil =>
           IF why \in Broken THEN Failure(NoOriginAnd(TreeError(why)))
                             ELSE Usage(NoOriginAnd(TreeError(why)))
      /\ BaseError(why) # Nil =>
           IF why \in Broken THEN Failure(NoOriginAnd(BaseError(why)))
                             ELSE Usage(NoOriginAnd(BaseError(why)))
      /\ UnderError(why) # Nil =>
           IF why \in Broken THEN Failure(NoOriginAnd(UnderError(why)))
                             ELSE Usage(NoOriginAnd(UnderError(why)))
  BY <1>1, <1>2, <1>3, <1>4
<1> QED
  BY <1>5

(* The questions a command asked before it gave up, and whether it got a    *)
(* key, in the words of RightExits.                                         *)
Behind(world) == world.origin \in Answers \cup {"empty url"}

Located(world) == Behind(world) /\ world.remote = "unlisted"

Met(world) ==
  {world.origin} \cup (IF Behind(world) THEN {world.remote} ELSE {})
    \cup (IF Located(world) THEN {world.why} ELSE {})

Hindered(world) == Met(world) \cap Broken # {} \/ world.origin = "refused"

Keyed(world) == world.origin = "url" \/ (Located(world) /\ world.why = "fine")

(* The location of a world.                                                 *)
PlaceError(world) ==
  LET place(at, error) == IF world.at = at THEN NoOriginAnd(error) ELSE Nil
  IN  Then(place("tree", TreeError(world.why)),
           Then(place("base", BaseError(world.why)),
                place("under", UnderError(world.why))))

LEMMA WorldTypes ==
  ASSUME NEW world \in World
  PROVE  /\ world.origin \in OriginAnswers /\ world.remote \in RemoteAnswers
         /\ <<world.at, world.why>> \in Stops
         /\ <<world.verb, world.ids>> \in Calls
         /\ world.text \in TextKinds
         /\ world.move \in {Nil, {"io"}} /\ world.data \in {Nil, {"io"}}
         /\ world.open \in {Nil, {"ErrNoStore"}, {"ErrSymlinkedStore"}, {"io"}}
         /\ world.read \in {Nil, {"io"}} /\ world.publish \in {Nil, {"ErrContended"}, {"io"}}
BY DEF World

LEMMA PlaceKinds ==
  ASSUME NEW world \in World
  PROVE  /\ world.why = "fine" => PlaceError(world) = Nil
         /\ world.why \in Broken => Failure(PlaceError(world))
         /\ world.why # "fine" /\ world.why \notin Broken => Usage(PlaceError(world))
<1>1. <<world.at, world.why>> \in Stops
  BY WorldTypes
<1>2. CASE world.at = "nowhere" /\ world.why = "fine"
  <2>1. PlaceError(world) = Nil
    BY <1>2 DEF PlaceError, Then
  <2> QED
    BY <2>1, <1>2 DEF Broken
<1>3. CASE world.at # "nowhere"
  <2>1. world.why \in Whys /\ world.why # "fine"
    BY <1>1, <1>3 DEF Stops, Whys, WrongPlace, Doubtful, Broken
  <2>2. \A error : Failure(error) \/ Usage(error) => error # Nil
    BY DEF Failure, Usage, Nil
  <2>3. CASE world.at = "tree" /\ TreeError(world.why) # Nil
    <3>1. NoOriginAnd(TreeError(world.why)) # Nil
      BY <2>1, <2>2, <2>3, StopKinds
    <3>2. PlaceError(world) = NoOriginAnd(TreeError(world.why))
      BY <3>1, <2>3 DEF PlaceError, Then
    <3> QED
      BY <2>1, <2>3, <3>2, StopKinds
  <2>4. CASE world.at = "base" /\ BaseError(world.why) # Nil
    <3>1. NoOriginAnd(BaseError(world.why)) # Nil
      BY <2>1, <2>2, <2>4, StopKinds
    <3>2. PlaceError(world) = NoOriginAnd(BaseError(world.why))
      BY <3>1, <2>4 DEF PlaceError, Then
    <3> QED
      BY <2>1, <2>4, <3>2, StopKinds
  <2>5. CASE world.at = "under" /\ UnderError(world.why) # Nil
    <3>1. PlaceError(world) = NoOriginAnd(UnderError(world.why))
      BY <2>5 DEF PlaceError, Then
    <3> QED
      BY <2>1, <2>5, <3>1, StopKinds
  <2> QED
    BY <1>1, <1>3, <2>3, <2>4, <2>5 DEF Stops
<1> QED
  BY <1>1, <1>2, <1>3 DEF Stops

(* repoName: a key, the failure of what hindered it, or the wrong place.    *)
LEMMA NameKinds ==
  ASSUME NEW world \in World
  PROVE  /\ Hindered(world) => Failure(NameError(world))
         /\ ~ Hindered(world) /\ ~ Keyed(world) => Usage(NameError(world))
         /\ ~ Hindered(world) /\ Keyed(world) => NameError(world) = Nil
<1> DEFINE origin == OriginError(world.origin)
           remote == RemoteError(world.remote)
<1> USE WorldTypes
<1>0. NameError(world) =
        IF origin = Nil THEN IF world.origin = "bad url" THEN {"ErrBadURL"} ELSE Nil
        ELSE IF "ErrNoOrigin" \notin origin \/ world.remote = "listed" THEN origin
        ELSE IF remote # Nil THEN IF "ErrNotARepository" \in remote THEN origin ELSE remote
        ELSE PlaceError(world)
  BY DEF NameError, PlaceError
<1>1. CASE world.origin \in {"url", "bad url"}
  <2>1. origin = Nil /\ ~ Hindered(world) /\ (Keyed(world) <=> world.origin = "url")
    BY <1>1, OriginKinds DEF Hindered, Keyed, Met, Located, Behind, Answers, Broken
  <2> QED
    BY <1>0, <1>1, <2>1, SentinelKinds
<1>2. CASE world.origin \in GitFails
  <2>1. Failure(origin) /\ "ErrNoOrigin" \notin origin
    BY <1>2, OriginKinds
  <2>2. origin # Nil
    BY <2>1 DEF Failure
  <2>3. Hindered(world)
    BY <1>2 DEF Hindered, Met, Broken, GitFails
  <2> QED
    BY <1>0, <2>1, <2>2, <2>3
<1>3. CASE Behind(world)
  <2>1. origin = {"ErrNoOrigin"} /\ Usage(origin) /\ origin # Nil
    BY <1>3, OriginKinds, SentinelKinds DEF Behind, Nil
  <2>2. /\ world.origin \notin Broken /\ world.origin # "refused" /\ world.origin # "url"
    BY <1>3 DEF Behind, Answers, Broken
  <2>3. CASE world.remote = "listed"
    <3>1. ~ Hindered(world) /\ ~ Keyed(world)
      BY <1>3, <2>2, <2>3 DEF Hindered, Keyed, Met, Located, Broken
    <3> QED
      BY <1>0, <2>1, <2>3, <3>1
  <2>4. CASE world.remote = "refused"
    <3>1. ~ Hindered(world) /\ ~ Keyed(world)
      BY <1>3, <2>2, <2>4 DEF Hindered, Keyed, Met, Located, Broken
    <3>2. remote = {"ErrNotARepository"} /\ remote # Nil
      BY <2>4, RemoteKinds DEF Nil
    <3> QED
      BY <1>0, <2>1, <2>4, <3>1, <3>2
  <2>5. CASE world.remote \in GitFails \ {"refused"}
    <3>1. Hindered(world)
      BY <1>3, <2>5 DEF Hindered, Met, Broken, GitFails
    <3>2. Failure(remote) /\ "ErrNotARepository" \notin remote /\ world.remote # "listed"
      BY <2>5, RemoteKinds DEF GitFails
    <3>3. remote # Nil
      BY <3>2 DEF Failure
    <3> QED
      BY <1>0, <2>1, <3>1, <3>2, <3>3
  <2>6. CASE world.remote = "unlisted"
    <3>1. remote = Nil /\ Located(world)
      BY <1>3, <2>6, RemoteKinds DEF Located
    <3>2. NameError(world) = PlaceError(world)
      BY <1>0, <2>1, <2>6, <3>1
    <3>3. Hindered(world) <=> world.why \in Broken
      BY <1>3, <2>2, <2>6, <3>1 DEF Hindered, Met, Broken
    <3>4. Keyed(world) <=> world.why = "fine"
      BY <2>2, <3>1 DEF Keyed
    <3>5. "fine" \notin Broken
      BY DEF Broken
    <3> QED
      BY <3>2, <3>3, <3>4, <3>5, PlaceKinds
  <2> QED
    BY <2>3, <2>4, <2>5, <2>6 DEF RemoteAnswers
<1> QED
  BY <1>1, <1>2, <1>3 DEF OriginAnswers, Behind

(* No error about the key says that the store is missing: list takes none   *)
(* of them for an empty list.                                               *)
LEMMA NameIsNoStore ==
  ASSUME NEW world \in World
  PROVE  "ErrNoStore" \notin NameError(world)
<1>1. \A why : /\ "ErrNoStore" \notin TreeError(why)
               /\ "ErrNoStore" \notin BaseError(why)
               /\ "ErrNoStore" \notin UnderError(why)
  BY DEF TreeError, BaseError, UnderError, Classify, GitFails, Nil
<1>2. \A error : "ErrNoStore" \notin error => "ErrNoStore" \notin NoOriginAnd(error)
  BY DEF NoOriginAnd
<1>3. "ErrNoStore" \notin PlaceError(world)
  BY <1>1, <1>2 DEF PlaceError, Then, Nil
<1>4. "ErrNoStore" \notin OriginError(world.origin)
  BY WorldTypes DEF OriginError, Classify, GitFails, Nil, OriginAnswers, Answers
<1>5. "ErrNoStore" \notin RemoteError(world.remote)
  BY DEF RemoteError, Classify, GitFails, Nil
<1> QED
  BY <1>3, <1>4, <1>5 DEF NameError, PlaceError, Nil

(* What the code looked at before the work, in the order it looks.          *)
LEMMA StoreKinds ==
  ASSUME NEW world \in World, NEW work
  PROVE  LET error == StoreError(world, work)
             stop  == world.move # Nil \/ Hindered(world)
         IN  /\ stop => Failure(error) /\ "ErrNoStore" \notin error
             /\ ~ stop /\ ~ Keyed(world) => Usage(error) /\ "ErrNoStore" \notin error
             /\ ~ stop /\ Keyed(world) /\ world.data # Nil =>
                  Failure(error) /\ "ErrNoStore" \notin error
             /\ ~ stop /\ Keyed(world) /\ world.data = Nil =>
                  error = IF OpenError(world) # Nil THEN OpenError(world) ELSE work
<1> DEFINE error == StoreError(world, work)
           name  == NameError(world)
<1>1. /\ world.move # Nil => error = world.move
      /\ world.move = Nil /\ name # Nil => error = name
      /\ world.move = Nil /\ name = Nil /\ world.data # Nil => error = world.data
      /\ world.move = Nil /\ name = Nil /\ world.data = Nil =>
           error = IF OpenError(world) # Nil THEN OpenError(world) ELSE work
  BY DEF StoreError, ConfigError, Then
<1>2. \A e \in {Nil, {"io"}} : e # Nil => Failure(e) /\ "ErrNoStore" \notin e
  BY SentinelKinds
<1>3. \A e : Failure(e) \/ Usage(e) => e # Nil
  BY DEF Failure, Usage, Nil
<1>4. "ErrNoStore" \notin name
  BY NameIsNoStore
<1> HIDE DEF error, name
<1>5. /\ world.move # Nil => Failure(error) /\ "ErrNoStore" \notin error
      /\ world.move = Nil /\ Hindered(world) => Failure(error) /\ "ErrNoStore" \notin error
      /\ world.move = Nil /\ ~ Hindered(world) /\ ~ Keyed(world) =>
           Usage(error) /\ "ErrNoStore" \notin error
      /\ world.move = Nil /\ ~ Hindered(world) /\ Keyed(world) /\ world.data # Nil =>
           Failure(error) /\ "ErrNoStore" \notin error
      /\ world.move = Nil /\ ~ Hindered(world) /\ Keyed(world) /\ world.data = Nil =>
           error = IF OpenError(world) # Nil THEN OpenError(world) ELSE work
  BY <1>1, <1>2, <1>3, <1>4, NameKinds, WorldTypes DEF name
<1> QED
  BY <1>5 DEF error

(* The work a command does in its store.                                    *)
Work(world) ==
  CASE world.verb = "list"    -> world.read
    [] world.verb = "add"     -> AddError(world.text)
    [] world.verb = "reorder" -> ReorderError(world)
    [] OTHER                  -> EachError(world.ids)

LEMMA IdKinds ==
  ASSUME NEW ids \in SUBSET Ids
  PROVE  /\ "malformed" \in ids => Usage(EachError(ids))
         /\ "malformed" \notin ids /\ ids \subseteq {"there"} => EachError(ids) = Nil
         /\ "malformed" \notin ids /\ ~ (ids \subseteq {"there"}) => Failure(EachError(ids))
<1>1. /\ IdError("malformed") = {"ErrInvalidID"} /\ IdError("gone") = {"ErrNotFound"}
      /\ IdError("stuck") = {"io"} /\ IdError("there") = {}
  BY DEF IdError, Nil
<1>2. \A e : e \in EachError(ids) <=> \E id \in ids : e \in IdError(id)
  BY DEF EachError
<1>3. CASE "malformed" \in ids
  BY <1>1, <1>2, <1>3 DEF Usage, UsageSentinels
<1>4. CASE "malformed" \notin ids /\ ids \subseteq {"there"}
  BY <1>1, <1>2, <1>4 DEF Nil
<1>5. CASE "malformed" \notin ids /\ ~ (ids \subseteq {"there"})
  <2>1. "gone" \in ids \/ "stuck" \in ids
    BY <1>5 DEF Ids
  <2>2. EachError(ids) # Nil
    BY <1>1, <1>2, <2>1 DEF Nil
  <2>3. \A e \in EachError(ids) : e \in {"ErrNotFound", "io"}
    BY <1>1, <1>2, <1>5 DEF Ids
  <2> QED
    BY <1>5, <2>2, <2>3 DEF Failure, Usage, UsageSentinels
<1> QED
  BY <1>3, <1>4, <1>5

LEMMA CallTypes ==
  ASSUME NEW world \in World
  PROVE  /\ world.verb \in {"list", "add", "path", "file", "rm", "reorder"}
         /\ world.ids \in SUBSET Ids
         /\ world.verb \in {"list", "add", "path"} => world.ids = {}
         /\ world.verb \in {"file", "rm", "reorder"} => world.ids # {}
<1>1. <<world.verb, world.ids>> \in Calls
  BY WorldTypes
<1> QED
  BY <1>1 DEF Calls

(* An id that is none is the wrong way to call; else the work was done or   *)
(* something it needed was not there, as RightExits says.                   *)
LEMMA WorkKinds ==
  ASSUME NEW world \in World, world.verb # "path"
  PROVE  LET done == /\ world.verb \in {"list", "reorder"} => world.read = Nil
                     /\ world.verb = "reorder" => "gone" \notin world.ids /\ world.publish = Nil
                     /\ world.verb \in {"rm", "file"} => world.ids = {"there"}
                     /\ world.verb = "add" => world.text = "fine"
         IN  /\ "malformed" \in world.ids => Usage(Work(world))
             /\ "malformed" \notin world.ids /\ done => Work(world) = Nil
             /\ "malformed" \notin world.ids /\ ~ done => Failure(Work(world))
<1>1. CASE world.verb = "list"
  BY <1>1, CallTypes, WorldTypes, SentinelKinds DEF Work
<1>2. CASE world.verb = "add"
  <2>1. Work(world) = AddError(world.text) /\ world.ids = {}
    BY <1>2, CallTypes DEF Work
  <2>2. world.text = "fine" => AddError(world.text) = Nil
    BY DEF AddError
  <2>3. world.text # "fine" => Failure(AddError(world.text))
    BY WorldTypes, SentinelKinds DEF AddError, TextKinds
  <2> QED
    BY <1>2, <2>1, <2>2, <2>3
<1>3. CASE world.verb = "reorder"
  <2>1. Work(world) = ReorderError(world)
    BY <1>3 DEF Work
  <2>2. Usage(IdError("malformed")) /\ IdError("malformed") # Nil
    BY SentinelKinds DEF IdError, Nil
  <2>3. Failure(IdError("gone")) /\ IdError("gone") # Nil
    BY SentinelKinds DEF IdError, Nil
  <2>4. /\ world.read # Nil => Failure(world.read)
        /\ world.publish # Nil => Failure(world.publish)
    BY WorldTypes, SentinelKinds
  <2> QED
    BY <1>3, <2>1, <2>2, <2>3, <2>4 DEF ReorderError, Then
<1>4. CASE world.verb \in {"rm", "file"}
  <2>1. Work(world) = EachError(world.ids) /\ world.ids \in SUBSET Ids /\ world.ids # {}
    BY <1>4, CallTypes DEF Work
  <2>2. world.ids \subseteq {"there"} <=> world.ids = {"there"}
    BY <2>1
  <2> QED
    BY <1>4, <2>1, <2>2, IdKinds
<1> QED
  BY <1>1, <1>2, <1>3, <1>4, CallTypes

(* ExitCode: of every combination of what may be wrong, with git, with the  *)
(* place, with the machine, with the store and with the ids, a command ends *)
(* with the exit code of what the user has to know first: 1 when something  *)
(* broken kept it from its key or its store, 2 for a wrong place or an id   *)
(* that is none, 1 or 2 for what may be either, and 0 only if all was done. *)
THEOREM ExitOfAnything ==
  ASSUME NEW world \in World
  PROVE  ExitCode(CommandError(world)) \in RightExits(world)
<1> DEFINE stop    == world.move # Nil \/ Hindered(world)
           noStore == world.open = {"ErrNoStore"}
           done    == /\ world.verb \in {"list", "reorder"} => world.read = Nil
                      /\ world.verb = "reorder" =>
                           "gone" \notin world.ids /\ world.publish = Nil
                      /\ world.verb \in {"rm", "file"} => world.ids = {"there"}
                      /\ world.verb = "add" => world.text = "fine"
           error   == StoreError(world, Work(world))
           work    == Work(world)
           right   == IF stop THEN 1
                      ELSE IF ~ Keyed(world) THEN 2
                      ELSE IF world.data # Nil THEN 1
                      ELSE IF world.verb = "path" \/ (noStore /\ world.verb = "list") THEN 0
                      ELSE IF world.open # Nil /\ ~ (noStore /\ world.verb = "add") THEN 1
                      ELSE IF "malformed" \in world.ids THEN 2
                      ELSE IF done THEN 0 ELSE 1
<1>1. right \in RightExits(world)
  BY DEF RightExits, Hindered, Met, Behind, Located, Keyed
<1>2. /\ stop => Failure(error) /\ "ErrNoStore" \notin error
      /\ ~ stop /\ ~ Keyed(world) => Usage(error) /\ "ErrNoStore" \notin error
      /\ ~ stop /\ Keyed(world) /\ world.data # Nil =>
           Failure(error) /\ "ErrNoStore" \notin error
      /\ ~ stop /\ Keyed(world) /\ world.data = Nil =>
           error = IF OpenError(world) # Nil THEN OpenError(world) ELSE work
  BY StoreKinds
<1>3. world.verb # "path" =>
        /\ "malformed" \in world.ids => Usage(work)
        /\ "malformed" \notin world.ids /\ done => work = Nil
        /\ "malformed" \notin world.ids /\ ~ done => Failure(work)
  BY WorkKinds
<1>4. /\ ~ noStore /\ world.open # Nil =>
           Failure(world.open) /\ "ErrNoStore" \notin world.open
      /\ OpenError(world) = IF noStore /\ world.verb = "add" THEN Nil ELSE world.open
      /\ noStore => world.open # Nil /\ Failure(world.open)
  <2>1. world.open \in {Nil, {"ErrNoStore"}, {"ErrSymlinkedStore"}, {"io"}}
    BY WorldTypes
  <2> QED
    BY <2>1, SentinelKinds DEF OpenError, Nil
<1>5. \A e : /\ e = Nil => ExitCode(e) = 0 /\ ~ Usage(e) /\ ~ Failure(e)
             /\ Usage(e) => ExitCode(e) = 2 /\ e # Nil
             /\ Failure(e) => ExitCode(e) = 1 /\ e # Nil
  BY ThreeEndings DEF Failure, Usage, Nil
<1> SUFFICES ExitCode(CommandError(world)) = right
  BY <1>1
<1>6. CASE world.verb = "path"
  <2>1. CommandError(world) = Then(world.move, Then(NameError(world), world.data))
    BY <1>6 DEF CommandError, ConfigError
  <2>2. \A e \in {Nil, {"io"}} : e # Nil => Failure(e)
    BY SentinelKinds
  <2>3. /\ world.move # Nil => Failure(world.move)
        /\ world.data # Nil => Failure(world.data)
    BY <2>2, WorldTypes
  <2>4. /\ stop => Failure(CommandError(world))
        /\ ~ stop /\ ~ Keyed(world) => Usage(CommandError(world))
        /\ ~ stop /\ Keyed(world) => CommandError(world) = world.data
    BY <1>5, <2>1, <2>3, NameKinds DEF Then
  <2> QED
    BY <1>5, <1>6, <2>3, <2>4
<1>7. CASE world.verb = "list"
  <2>1. CommandError(world) = IF "ErrNoStore" \in error THEN Nil ELSE error
    BY <1>7 DEF CommandError, ListError, Work
  <2>2. world.ids = {} /\ "ErrNoStore" \notin work /\ work = world.read
    <3>1. world.ids = {} /\ work = world.read
      BY <1>7, CallTypes DEF Work
    <3>2. world.read \in {Nil, {"io"}}
      BY WorldTypes
    <3>3. "ErrNoStore" \notin world.read
      BY <3>2 DEF Nil
    <3> QED
      BY <3>1, <3>3
  <2>3. OpenError(world) = world.open /\ "ErrNoStore" \notin Nil
    BY <1>4, <1>7 DEF Nil
  <2>4. CASE stop \/ ~ Keyed(world) \/ world.data # Nil
    BY <1>2, <1>5, <2>1, <2>4
  <2>5. CASE ~ stop /\ Keyed(world) /\ world.data = Nil
    <3>1. CASE noStore
      BY <1>2, <1>4, <1>5, <1>7, <2>1, <2>3, <2>5, <3>1
    <3>2. CASE ~ noStore
      BY <1>2, <1>3, <1>4, <1>5, <1>7, <2>1, <2>2, <2>3, <2>5, <3>2
    <3> QED
      BY <3>1, <3>2
  <2> QED
    BY <2>4, <2>5
<1>8. CASE world.verb \notin {"path", "list"}
  <2>1. CommandError(world) = error
    BY <1>8, CallTypes DEF CommandError, Work
  <2>2. CASE stop \/ ~ Keyed(world) \/ world.data # Nil
    BY <1>2, <1>5, <2>1, <2>2
  <2>3. CASE ~ stop /\ Keyed(world) /\ world.data = Nil
    <3>1. error = IF OpenError(world) # Nil THEN OpenError(world) ELSE work
      BY <1>2, <2>3
    <3>2. CASE OpenError(world) # Nil
      <4>1. OpenError(world) = world.open /\ ~ (noStore /\ world.verb = "add")
        BY <1>4, <3>2
      <4>2. Failure(error) /\ world.open # Nil
        BY <1>4, <3>1, <3>2, <4>1
      <4> QED
        BY <1>5, <1>8, <2>1, <2>3, <4>1, <4>2
    <3>3. CASE OpenError(world) = Nil
      <4>1. ~ (world.open # Nil /\ ~ (noStore /\ world.verb = "add"))
        BY <1>4, <3>3
      <4> QED
        BY <1>3, <1>5, <1>8, <2>1, <2>3, <3>1, <3>3, <4>1
    <3> QED
      BY <3>2, <3>3
  <2> QED
    BY <2>2, <2>3
<1> QED
  BY <1>6, <1>7, <1>8

(* The commands that are run are some of them.                              *)
LEMMA WorldsAreSome == Worlds \subseteq World
<1>1. Fine \in World
  <2>1. <<"list", {}>> \in Calls /\ <<"nowhere", "fine">> \in Stops
    BY DEF Calls, Stops
  <2> QED
    BY <2>1 DEF Fine, World, Ids, TextKinds, OriginAnswers, RemoteAnswers, Answers
<1>2. ASSUME NEW world \in World, NEW call \in Calls
      PROVE  CalledAs(world, call) \in World
  <2>1. /\ call = <<call[1], call[2]>>
        /\ call[1] \in {"list", "add", "path", "file", "rm", "reorder"}
        /\ call[2] \in SUBSET Ids
    BY DEF Calls
  <2> QED
    BY <2>1 DEF CalledAs, World
<1>3. ASSUME NEW world \in OneThingWrong
      PROVE  world \in World
  <2>1. CASE world \in MachineWrong
    <3>1. PICK e \in {<<Nil, Nil>>, <<{"io"}, Nil>>, <<Nil, {"io"}>>} :
            world = [Fine EXCEPT !.move = e[1], !.data = e[2]]
      BY <2>1 DEF MachineWrong
    <3>2. e[1] \in {Nil, {"io"}} /\ e[2] \in {Nil, {"io"}}
      OBVIOUS
    <3> QED
      BY <1>1, <3>1, <3>2 DEF World
  <2>2. CASE world \in OriginWrong
    <3>1. PICK says \in OriginAnswers \X RemoteAnswers :
            world = [Fine EXCEPT !.origin = says[1], !.remote = says[2]]
      BY <2>2 DEF OriginWrong
    <3>2. says[1] \in OriginAnswers /\ says[2] \in RemoteAnswers
      OBVIOUS
    <3> QED
      BY <1>1, <3>1, <3>2 DEF World
  <2>3. CASE world \in LocationWrong
    <3>1. PICK stop \in Stops : world = [Fine EXCEPT !.at = stop[1], !.why = stop[2]]
      BY <2>3 DEF LocationWrong
    <3>2. /\ stop = <<stop[1], stop[2]>>
          /\ stop[1] \in {"nowhere", "tree", "base", "under"}
          /\ stop[2] \in Whys \cup {"fine"}
      BY DEF Stops
    <3> QED
      BY <1>1, <3>1, <3>2 DEF World
  <2>4. CASE world \in StoreWrong
    <3>1. PICK e \in {<<{"ErrNoStore"}, Nil, Nil>>, <<{"ErrSymlinkedStore"}, Nil, Nil>>,
                      <<{"io"}, Nil, Nil>>, <<Nil, {"io"}, Nil>>,
                      <<Nil, Nil, {"ErrContended"}>>, <<Nil, Nil, {"io"}>>} :
            world = [Fine EXCEPT !.open = e[1], !.read = e[2], !.publish = e[3]]
      BY <2>4 DEF StoreWrong
    <3>2. /\ e[1] \in {Nil, {"ErrNoStore"}, {"ErrSymlinkedStore"}, {"io"}}
          /\ e[2] \in {Nil, {"io"}} /\ e[3] \in {Nil, {"ErrContended"}, {"io"}}
      OBVIOUS
    <3> QED
      BY <1>1, <3>1, <3>2 DEF World
  <2>5. CASE world \in TextWrong
    <3>1. PICK text \in TextKinds : world = [Fine EXCEPT !.text = text]
      BY <2>5 DEF TextWrong
    <3> QED
      BY <1>1, <3>1 DEF World
  <2> QED
    BY <2>1, <2>2, <2>3, <2>4, <2>5 DEF OneThingWrong
<1> QED
  BY <1>2, <1>3 DEF Worlds

CommandsInv ==
  input.call = "command" =>
    /\ input.world \in Worlds
    /\ \/ output = Waiting
       \/ output = [exit |-> ExitCode(CommandError(input.world))]

(* ExitCode: no run of the model ends with another exit code.               *)
THEOREM ExitsAreRight == Spec => []ExitIsRight
<1>1. Init => CommandsInv
  BY Called DEF CommandsInv
<1>2. CommandsInv /\ [Next]_vars => CommandsInv'
  BY Answered DEF vars, CommandsInv, RunCommand
<1>3. CommandsInv => ExitIsRight
  BY WorldsAreSome, ExitOfAnything DEF CommandsInv, ExitIsRight, Done
<1> QED
  BY <1>1, <1>2, <1>3, PTL DEF Spec

-----------------------------------------------------------------------------
(* Least and greatest numbers.                                              *)

Below == {pair \in Nat \X Nat : pair[1] < pair[2]}

(* A set of naturals that is not empty has a least element: what stands for *)
(* an induction here.                                                       *)
LEMMA Least ==
  ASSUME NEW S, S \subseteq Nat, S # {}
  PROVE  \E n \in S : \A m \in S : n <= m
<1>1. IsWellFoundedOn(Below, Nat)
  BY NatLessThanWellFounded DEF OpToRel, Below
<1>2. PICK n \in S : \A m \in S : <<m, n>> \notin Below
  BY <1>1, WFMin
<1>3. \A m \in S : ~ (m < n)
  BY <1>2 DEF Below
<1> QED
  BY <1>3

LEMMA Greatest ==
  ASSUME NEW n \in Nat, NEW S, S \subseteq 0 .. n, S # {}
  PROVE  \E k \in S : \A m \in S : m <= k
<1> DEFINE T == {t \in 0 .. n : n - t \in S}
<1>1. PICK k \in S : TRUE
  OBVIOUS
<1>2. k \in 0 .. n /\ n - (n - k) = k
  OBVIOUS
<1>3. n - k \in T
  BY <1>2
<1>4. T \subseteq Nat /\ T # {}
  <2>1. \A t \in T : t \in 0 .. n
    OBVIOUS
  <2> HIDE DEF T
  <2> QED
    BY <1>3, <2>1
<1>5. PICK t \in T : \A u \in T : t <= u
  BY <1>4, Least
<1>6. ASSUME NEW m \in S PROVE m <= n - t
  <2>1. m \in 0 .. n /\ n - (n - m) = m
    OBVIOUS
  <2>2. n - m \in T
    BY <2>1
  <2> QED
    BY <1>5, <2>1, <2>2
<1> QED
  BY <1>5, <1>6

LEMMA MinIs ==
  ASSUME NEW S, S \subseteq Nat, S # {}
  PROVE  Min(S) \in S /\ \A m \in S : Min(S) <= m
BY Least DEF Min

LEMMA MaxIs ==
  ASSUME NEW n \in Nat, NEW S, S \subseteq 0 .. n, S # {}
  PROVE  Max(S) \in S /\ \A m \in S : m <= Max(S)
<1>1. \E k \in S : \A m \in S : k >= m
  BY Greatest
<1> QED
  BY <1>1 DEF Max

-----------------------------------------------------------------------------
(* The format of an item file.                                              *)

LEMMA SuffixIs ==
  ASSUME NEW S, NEW s \in Seq(S), NEW t \in Seq(S), Len(s) <= Len(t),
         \A i \in 1 .. Len(s) : s[i] = t[Len(t) - Len(s) + i]
  PROVE  IsSuffix(s, t)
<1> DEFINE r(u) == [i \in 1 .. Len(u) |-> u[(Len(u) - i) + 1]]
<1>1. /\ r(s) \in Seq(S) /\ Len(r(s)) = Len(s)
      /\ r(t) \in Seq(S) /\ Len(r(t)) = Len(t)
  OBVIOUS
<1>2. SubSeq(r(s), 1, Len(s)) = r(s)
  BY <1>1, SubSeqFull
<1>3. /\ SubSeq(r(t), 1, Len(s)) \in Seq(S)
      /\ Len(SubSeq(r(t), 1, Len(s))) = Len(s)
      /\ \A i \in 1 .. Len(s) : SubSeq(r(t), 1, Len(s))[i] = r(t)[i]
  BY <1>1
<1>4. \A i \in 1 .. Len(s) : r(s)[i] = r(t)[i]
  OBVIOUS
<1>5. r(s) = SubSeq(r(t), 1, Len(s))
  BY <1>1, <1>3, <1>4, SeqEqual
<1> QED
  BY <1>1, <1>2, <1>5 DEF IsSuffix, IsPrefix, Reverse

(* The last line that is not blank, or 0.                                   *)
LastFull(lines) == Max({0} \cup {i \in DOMAIN lines : lines[i] # Blank})

LEMMA LastFullIs ==
  ASSUME NEW lines \in Seq(Line)
  PROVE  /\ LastFull(lines) \in 0 .. Len(lines)
         /\ LastFull(lines) # 0 => lines[LastFull(lines)] # Blank
         /\ \A i \in LastFull(lines) + 1 .. Len(lines) : lines[i] = Blank
         /\ Trimmed(lines) = SubSeq(lines, 1, LastFull(lines))
<1> DEFINE full == {0} \cup {i \in DOMAIN lines : lines[i] # Blank}
<1>1. full \subseteq 0 .. Len(lines) /\ full # {} /\ Len(lines) \in Nat
  OBVIOUS
<1>2. Max(full) \in full /\ \A m \in full : m <= Max(full)
  BY <1>1, MaxIs
<1>3. LastFull(lines) = Max(full) /\ Trimmed(lines) = SubSeq(lines, 1, Max(full))
  BY DEF LastFull, Trimmed
<1>4. \A i \in 1 .. Len(lines) : lines[i] # Blank => i \in full
  OBVIOUS
<1>5. \A k \in full : k # 0 => lines[k] # Blank
  OBVIOUS
<1> HIDE DEF full
<1>6. ASSUME NEW i \in LastFull(lines) + 1 .. Len(lines) PROVE lines[i] = Blank
  <2>1. LastFull(lines) \in Nat
    <3>1. \A k \in full : k \in 0 .. Len(lines)
      BY <1>1
    <3>2. LastFull(lines) \in 0 .. Len(lines)
      BY <1>2, <1>3, <3>1
    <3> QED
      BY <3>2
  <2>2. i \in 1 .. Len(lines) /\ ~ (i <= LastFull(lines))
    BY <1>1, <2>1
  <2> QED
    BY <1>2, <1>3, <1>4, <2>2
<1> QED
  BY <1>1, <1>2, <1>3, <1>5, <1>6

LEMMA TrimmedIs ==
  ASSUME NEW lines \in Seq(Line)
  PROVE  /\ Trimmed(lines) \in Seq(Line)
         /\ Len(Trimmed(lines)) = LastFull(lines)
         /\ \A i \in 1 .. LastFull(lines) : Trimmed(lines)[i] = lines[i]
<1> DEFINE n == LastFull(lines)
<1>1. n \in 0 .. Len(lines) /\ Trimmed(lines) = SubSeq(lines, 1, n)
  BY LastFullIs
<1> HIDE DEF n
<1>2. /\ SubSeq(lines, 1, n) \in Seq(Line) /\ Len(SubSeq(lines, 1, n)) = n
      /\ \A i \in 1 .. n : SubSeq(lines, 1, n)[i] = lines[i]
  BY <1>1
<1> QED
  BY <1>1, <1>2 DEF n

(* strings.TrimRight leaves a text alone that does not end in a blank line. *)
LEMMA NothingToTrim ==
  ASSUME NEW lines \in Seq(Line), lines = <<>> \/ lines[Len(lines)] # Blank
  PROVE  Trimmed(lines) = lines
<1>1. LastFull(lines) = Len(lines)
  BY LastFullIs
<1> QED
  BY <1>1, LastFullIs, SubSeqFull

LEMMA BodyIsSuffix ==
  ASSUME NEW lines \in Seq(Line), NEW cut \in 1 .. Len(lines)
  PROVE  IsSuffix(Trimmed(SubSeq(lines, cut + 1, Len(lines))), Trimmed(lines))
<1> DEFINE body == SubSeq(lines, cut + 1, Len(lines))
<1>1. /\ body \in Seq(Line) /\ Len(body) = Len(lines) - cut
      /\ \A i \in 1 .. Len(lines) - cut : body[i] = lines[cut + i]
  OBVIOUS
<1> HIDE DEF body
<1>2. /\ LastFull(body) \in 0 .. Len(body)
      /\ LastFull(body) # 0 => body[LastFull(body)] # Blank
      /\ \A i \in LastFull(body) + 1 .. Len(body) : body[i] = Blank
  BY <1>1, LastFullIs
<1>3. /\ LastFull(lines) \in 0 .. Len(lines)
      /\ LastFull(lines) # 0 => lines[LastFull(lines)] # Blank
      /\ \A i \in LastFull(lines) + 1 .. Len(lines) : lines[i] = Blank
  BY LastFullIs
<1>4. LastFull(body) # 0 => LastFull(lines) = cut + LastFull(body)
  <2> DEFINE k == LastFull(body)
             m == LastFull(lines)
             n == Len(lines)
  <2> SUFFICES ASSUME k # 0 PROVE m = cut + k
    OBVIOUS
  <2>1. /\ k \in 1 .. n - cut /\ m \in 0 .. n /\ cut \in 1 .. n /\ n \in Nat
        /\ lines[cut + k] # Blank
        /\ \A i \in k + 1 .. n - cut : lines[cut + i] = Blank
        /\ m # 0 => lines[m] # Blank
        /\ \A i \in m + 1 .. n : lines[i] = Blank
    <3>1. n \in Nat /\ Len(body) = n - cut /\ cut \in 1 .. n
      BY <1>1
    <3>2. k \in 1 .. n - cut /\ m \in 0 .. n
      BY <1>2, <1>3, <3>1
    <3>3. /\ lines[cut + k] # Blank
          /\ \A i \in k + 1 .. n - cut : lines[cut + i] = Blank
      <4>1. \A i \in 1 .. n - cut : body[i] = lines[cut + i]
        BY <1>1
      <4>2. body[k] # Blank /\ \A i \in k + 1 .. n - cut : body[i] = Blank
        BY <1>2, <3>1
      <4>3. \A i \in k + 1 .. n - cut : i \in 1 .. n - cut
        BY <3>1, <3>2
      <4> QED
        BY <3>2, <4>1, <4>2, <4>3
    <3> QED
      BY <1>3, <3>1, <3>2, <3>3
  <2> HIDE DEF k, m, n
  <2>2. m >= cut + k
    BY <2>1
  <2>3. m - cut \notin k + 1 .. n - cut
    <3>1. cut + (m - cut) = m /\ m # 0
      BY <2>1, <2>2
    <3> QED
      BY <2>1, <3>1
  <2> QED
    BY <2>1, <2>2, <2>3
<1>5. /\ Trimmed(body) \in Seq(Line) /\ Len(Trimmed(body)) = LastFull(body)
      /\ \A i \in 1 .. LastFull(body) : Trimmed(body)[i] = body[i]
      /\ Trimmed(lines) \in Seq(Line) /\ Len(Trimmed(lines)) = LastFull(lines)
      /\ \A i \in 1 .. LastFull(lines) : Trimmed(lines)[i] = lines[i]
  BY <1>1, TrimmedIs
<1>6. LastFull(body) <= LastFull(lines)
  BY <1>1, <1>2, <1>3, <1>4
<1>7. \A i \in 1 .. LastFull(body) :
        Trimmed(body)[i] = Trimmed(lines)[LastFull(lines) - LastFull(body) + i]
  <2> TAKE i \in 1 .. LastFull(body)
  <2>1. LastFull(lines) = cut + LastFull(body) /\ LastFull(body) \in Nat
    BY <1>1, <1>2, <1>4
  <2>2. LastFull(lines) - LastFull(body) + i = cut + i /\ cut + i \in 1 .. LastFull(lines)
    BY <2>1
  <2>3. body[i] = lines[cut + i]
    BY <1>1, <1>2
  <2> QED
    BY <1>5, <2>2, <2>3
<1>8. IsSuffix(Trimmed(body), Trimmed(lines))
  BY <1>5, <1>6, <1>7, SuffixIs
<1> QED
  BY <1>8 DEF body
LEMMA OnlyValue ==
  ASSUME NEW header \in Seq(Line), NEW key, NEW k \in 1 .. Len(header),
         header[k].key = key, \A i \in 1 .. Len(header) : header[i].key = key => i = k
  PROVE  LastValue(header, key) = header[k].value
<1> DEFINE at == {i \in DOMAIN header : header[i].key = key}
<1>1. /\ at \subseteq 0 .. Len(header) /\ Len(header) \in Nat
      /\ k \in at /\ at # {} /\ \A i \in at : i = k
  OBVIOUS
<1>2. LastValue(header, key) = IF at = {} THEN "" ELSE header[Max(at)].value
  BY DEF LastValue
<1> HIDE DEF at
<1>3. Max(at) \in at
  BY <1>1, MaxIs
<1> QED
  BY <1>1, <1>2, <1>3

LEMMA NoValue ==
  ASSUME NEW header \in Seq(Line), NEW key, \A i \in 1 .. Len(header) : header[i].key # key
  PROVE  LastValue(header, key) = ""
<1>1. {i \in DOMAIN header : header[i].key = key} = {}
  OBVIOUS
<1> QED
  BY <1>1 DEF LastValue

LEMMA CutsAt ==
  ASSUME NEW lines \in Seq(Line), NEW cut \in 2 .. Len(lines), lines[cut] = Blank,
         \A i \in 2 .. cut - 1 : lines[i] # Blank
  PROVE  Decode(lines) = ReadHeader(SubSeq(lines, 1, cut - 1),
                                    Trimmed(SubSeq(lines, cut + 1, Len(lines))))
<1>1. cut \in Cuts(lines)
  BY DEF Cuts
<1>2. \A i \in Cuts(lines) : i \in 2 .. Len(lines) /\ lines[i] = Blank
  BY DEF Cuts
<1>3. Cuts(lines) \subseteq Nat
  BY <1>2
<1>4. Min(Cuts(lines)) \in Cuts(lines) /\ \A i \in Cuts(lines) : Min(Cuts(lines)) <= i
  BY <1>1, <1>3, MinIs
<1>5. Min(Cuts(lines)) = cut
  <2> DEFINE c == Min(Cuts(lines))
  <2>1. c \in 2 .. Len(lines) /\ lines[c] = Blank /\ c <= cut
    BY <1>1, <1>2, <1>4
  <2> HIDE DEF c
  <2>2. c \notin 2 .. cut - 1
    BY <2>1
  <2>3. c = cut
    BY <2>1, <2>2
  <2> QED
    BY <2>3 DEF c
<1> QED
  BY <1>1, <1>5 DEF Decode

(* The header that encode writes.                                           *)
Header(item) ==
  <<Field("id", ""), Field("created", item.created)>>
    \o (IF item.repo # "" THEN <<Field("repo", item.repo)>> ELSE <<>>)
    \o (IF item.scope # "" THEN <<Field("scope", item.scope)>> ELSE <<>>)

LEMMA FieldIs ==
  ASSUME NEW key \in {"id", "created", "repo", "scope"}, NEW value \in Value \cup {""}
  PROVE  /\ Field(key, value) \in Line /\ Field(key, value) # Blank
         /\ Field(key, value).key = key /\ Field(key, value).value = value
BY DEF Field, Line, Blank

LEMMA TwoAndNone ==
  ASSUME NEW S, NEW a \in S, NEW b \in S
  PROVE  <<a, b>> \o <<>> = <<a, b>>
OBVIOUS

LEMMA ThreeAndNone ==
  ASSUME NEW S, NEW a \in S, NEW b \in S, NEW c \in S
  PROVE  <<a, b, c>> \o <<>> = <<a, b, c>>
OBVIOUS

LEMMA TwoAndOne ==
  ASSUME NEW S, NEW a \in S, NEW b \in S, NEW c \in S
  PROVE  <<a, b>> \o <<c>> = <<a, b, c>>
<1> DEFINE s == <<a, b>> \o <<c>>
           t == <<a, b, c>>
<1>1. /\ s \in Seq(S) /\ Len(s) = 3
      /\ s[1] = a /\ s[2] = b /\ s[3] = c
  OBVIOUS
<1>2. /\ t \in Seq(S) /\ Len(t) = 3
      /\ t[1] = a /\ t[2] = b /\ t[3] = c
  OBVIOUS
<1> HIDE DEF s, t
<1>3. \A i \in 1 .. Len(s) : s[i] = t[i]
  BY <1>1, <1>2
<1>4. s = t
  BY <1>1, <1>2, <1>3, SeqEqual
<1> QED
  BY <1>4 DEF s, t

LEMMA ThreeAndOne ==
  ASSUME NEW S, NEW a \in S, NEW b \in S, NEW c \in S, NEW d \in S
  PROVE  <<a, b, c>> \o <<d>> = <<a, b, c, d>>
<1> DEFINE s == <<a, b, c>> \o <<d>>
           t == <<a, b, c, d>>
<1>1. /\ s \in Seq(S) /\ Len(s) = 4
      /\ s[1] = a /\ s[2] = b /\ s[3] = c /\ s[4] = d
  OBVIOUS
<1>2. /\ t \in Seq(S) /\ Len(t) = 4
      /\ t[1] = a /\ t[2] = b /\ t[3] = c /\ t[4] = d
  OBVIOUS
<1> HIDE DEF s, t
<1>3. \A i \in 1 .. Len(s) : s[i] = t[i]
  BY <1>1, <1>2
<1>4. s = t
  BY <1>1, <1>2, <1>3, SeqEqual
<1> QED
  BY <1>4 DEF s, t

LEMMA ReadBare ==
  ASSUME NEW a \in Line, NEW b \in Line,
         a.key = "id", b.key = "created"
  PROVE  /\ <<a, b>> \in Seq(Line) /\ Len(<<a, b>>) >= 2
         /\ \A i \in 1 .. Len(<<a, b>>) : <<a, b>>[i] # Blank
         /\ LastValue(<<a, b>>, "created") = b.value
         /\ LastValue(<<a, b>>, "repo") = ""
         /\ LastValue(<<a, b>>, "scope") = ""
<1> DEFINE h == <<a, b>>
<1>1. /\ h \in Seq(Line) /\ Len(h) = 2
      /\ h[1] = a /\ h[2] = b
  OBVIOUS
<1> HIDE DEF h
<1>2. \A i \in 1 .. Len(h) : i = 1 \/ i = 2
  BY <1>1
<1>3. LastValue(h, "created") = b.value
  <2>1. 2 \in 1 .. Len(h) /\ h[2].key = "created"
    BY <1>1
  <2>2. \A i \in 1 .. Len(h) : h[i].key = "created" => i = 2
    BY <1>1, <1>2
  <2> QED
    BY <1>1, <2>1, <2>2, OnlyValue
<1>4. LastValue(h, "repo") = ""
  <2>1. \A i \in 1 .. Len(h) : h[i].key # "repo"
    BY <1>1, <1>2
  <2> QED
    BY <1>1, <2>1, NoValue
<1>5. LastValue(h, "scope") = ""
  <2>1. \A i \in 1 .. Len(h) : h[i].key # "scope"
    BY <1>1, <1>2
  <2> QED
    BY <1>1, <2>1, NoValue
<1>6. \A i \in 1 .. Len(h) : h[i] # Blank
  <2>1. Blank.key = "none"
    BY DEF Blank
  <2>2. \A i \in 1 .. Len(h) : h[i].key # "none"
    BY <1>1, <1>2
  <2> QED
    BY <2>1, <2>2
<1>7. Len(h) >= 2
  BY <1>1
<1> QED
  BY <1>1, <1>3, <1>4, <1>5, <1>6, <1>7 DEF h

LEMMA ReadRepo ==
  ASSUME NEW a \in Line, NEW b \in Line, NEW c \in Line,
         a.key = "id", b.key = "created", c.key = "repo"
  PROVE  /\ <<a, b, c>> \in Seq(Line) /\ Len(<<a, b, c>>) >= 2
         /\ \A i \in 1 .. Len(<<a, b, c>>) : <<a, b, c>>[i] # Blank
         /\ LastValue(<<a, b, c>>, "created") = b.value
         /\ LastValue(<<a, b, c>>, "repo") = c.value
         /\ LastValue(<<a, b, c>>, "scope") = ""
<1> DEFINE h == <<a, b, c>>
<1>1. /\ h \in Seq(Line) /\ Len(h) = 3
      /\ h[1] = a /\ h[2] = b /\ h[3] = c
  OBVIOUS
<1> HIDE DEF h
<1>2. \A i \in 1 .. Len(h) : i = 1 \/ i = 2 \/ i = 3
  BY <1>1
<1>3. LastValue(h, "created") = b.value
  <2>1. 2 \in 1 .. Len(h) /\ h[2].key = "created"
    BY <1>1
  <2>2. \A i \in 1 .. Len(h) : h[i].key = "created" => i = 2
    BY <1>1, <1>2
  <2> QED
    BY <1>1, <2>1, <2>2, OnlyValue
<1>4. LastValue(h, "repo") = c.value
  <2>1. 3 \in 1 .. Len(h) /\ h[3].key = "repo"
    BY <1>1
  <2>2. \A i \in 1 .. Len(h) : h[i].key = "repo" => i = 3
    BY <1>1, <1>2
  <2> QED
    BY <1>1, <2>1, <2>2, OnlyValue
<1>5. LastValue(h, "scope") = ""
  <2>1. \A i \in 1 .. Len(h) : h[i].key # "scope"
    BY <1>1, <1>2
  <2> QED
    BY <1>1, <2>1, NoValue
<1>6. \A i \in 1 .. Len(h) : h[i] # Blank
  <2>1. Blank.key = "none"
    BY DEF Blank
  <2>2. \A i \in 1 .. Len(h) : h[i].key # "none"
    BY <1>1, <1>2
  <2> QED
    BY <2>1, <2>2
<1>7. Len(h) >= 2
  BY <1>1
<1> QED
  BY <1>1, <1>3, <1>4, <1>5, <1>6, <1>7 DEF h

LEMMA ReadScope ==
  ASSUME NEW a \in Line, NEW b \in Line, NEW c \in Line,
         a.key = "id", b.key = "created", c.key = "scope"
  PROVE  /\ <<a, b, c>> \in Seq(Line) /\ Len(<<a, b, c>>) >= 2
         /\ \A i \in 1 .. Len(<<a, b, c>>) : <<a, b, c>>[i] # Blank
         /\ LastValue(<<a, b, c>>, "created") = b.value
         /\ LastValue(<<a, b, c>>, "repo") = ""
         /\ LastValue(<<a, b, c>>, "scope") = c.value
<1> DEFINE h == <<a, b, c>>
<1>1. /\ h \in Seq(Line) /\ Len(h) = 3
      /\ h[1] = a /\ h[2] = b /\ h[3] = c
  OBVIOUS
<1> HIDE DEF h
<1>2. \A i \in 1 .. Len(h) : i = 1 \/ i = 2 \/ i = 3
  BY <1>1
<1>3. LastValue(h, "created") = b.value
  <2>1. 2 \in 1 .. Len(h) /\ h[2].key = "created"
    BY <1>1
  <2>2. \A i \in 1 .. Len(h) : h[i].key = "created" => i = 2
    BY <1>1, <1>2
  <2> QED
    BY <1>1, <2>1, <2>2, OnlyValue
<1>4. LastValue(h, "repo") = ""
  <2>1. \A i \in 1 .. Len(h) : h[i].key # "repo"
    BY <1>1, <1>2
  <2> QED
    BY <1>1, <2>1, NoValue
<1>5. LastValue(h, "scope") = c.value
  <2>1. 3 \in 1 .. Len(h) /\ h[3].key = "scope"
    BY <1>1
  <2>2. \A i \in 1 .. Len(h) : h[i].key = "scope" => i = 3
    BY <1>1, <1>2
  <2> QED
    BY <1>1, <2>1, <2>2, OnlyValue
<1>6. \A i \in 1 .. Len(h) : h[i] # Blank
  <2>1. Blank.key = "none"
    BY DEF Blank
  <2>2. \A i \in 1 .. Len(h) : h[i].key # "none"
    BY <1>1, <1>2
  <2> QED
    BY <2>1, <2>2
<1>7. Len(h) >= 2
  BY <1>1
<1> QED
  BY <1>1, <1>3, <1>4, <1>5, <1>6, <1>7 DEF h

LEMMA ReadBoth ==
  ASSUME NEW a \in Line, NEW b \in Line, NEW c \in Line, NEW d \in Line,
         a.key = "id", b.key = "created", c.key = "repo", d.key = "scope"
  PROVE  /\ <<a, b, c, d>> \in Seq(Line) /\ Len(<<a, b, c, d>>) >= 2
         /\ \A i \in 1 .. Len(<<a, b, c, d>>) : <<a, b, c, d>>[i] # Blank
         /\ LastValue(<<a, b, c, d>>, "created") = b.value
         /\ LastValue(<<a, b, c, d>>, "repo") = c.value
         /\ LastValue(<<a, b, c, d>>, "scope") = d.value
<1> DEFINE h == <<a, b, c, d>>
<1>1. /\ h \in Seq(Line) /\ Len(h) = 4
      /\ h[1] = a /\ h[2] = b /\ h[3] = c /\ h[4] = d
  OBVIOUS
<1> HIDE DEF h
<1>2. \A i \in 1 .. Len(h) : i = 1 \/ i = 2 \/ i = 3 \/ i = 4
  BY <1>1
<1>3. LastValue(h, "created") = b.value
  <2>1. 2 \in 1 .. Len(h) /\ h[2].key = "created"
    BY <1>1
  <2>2. \A i \in 1 .. Len(h) : h[i].key = "created" => i = 2
    BY <1>1, <1>2
  <2> QED
    BY <1>1, <2>1, <2>2, OnlyValue
<1>4. LastValue(h, "repo") = c.value
  <2>1. 3 \in 1 .. Len(h) /\ h[3].key = "repo"
    BY <1>1
  <2>2. \A i \in 1 .. Len(h) : h[i].key = "repo" => i = 3
    BY <1>1, <1>2
  <2> QED
    BY <1>1, <2>1, <2>2, OnlyValue
<1>5. LastValue(h, "scope") = d.value
  <2>1. 4 \in 1 .. Len(h) /\ h[4].key = "scope"
    BY <1>1
  <2>2. \A i \in 1 .. Len(h) : h[i].key = "scope" => i = 4
    BY <1>1, <1>2
  <2> QED
    BY <1>1, <2>1, <2>2, OnlyValue
<1>6. \A i \in 1 .. Len(h) : h[i] # Blank
  <2>1. Blank.key = "none"
    BY DEF Blank
  <2>2. \A i \in 1 .. Len(h) : h[i].key # "none"
    BY <1>1, <1>2
  <2> QED
    BY <2>1, <2>2
<1>7. Len(h) >= 2
  BY <1>1
<1> QED
  BY <1>1, <1>3, <1>4, <1>5, <1>6, <1>7 DEF h

LEMMA HeaderIs ==
  ASSUME NEW item, item.created \in Value, item.repo \in Value \cup {""},
         item.scope \in Value \cup {""}
  PROVE  /\ Header(item) \in Seq(Line) /\ Len(Header(item)) >= 2
         /\ \A i \in 1 .. Len(Header(item)) : Header(item)[i] # Blank
         /\ LastValue(Header(item), "created") = item.created
         /\ LastValue(Header(item), "repo") = item.repo
         /\ LastValue(Header(item), "scope") = item.scope
<1> DEFINE f1 == Field("id", "")
           f2 == Field("created", item.created)
           f3 == Field("repo", item.repo)
           f4 == Field("scope", item.scope)
<1>1. /\ f1 \in Line /\ f2 \in Line /\ f3 \in Line /\ f4 \in Line
      /\ f1.key = "id" /\ f2.key = "created" /\ f3.key = "repo" /\ f4.key = "scope"
      /\ f2.value = item.created /\ f3.value = item.repo /\ f4.value = item.scope
  BY FieldIs
<1>2. Header(item) = (<<f1, f2>> \o (IF item.repo # "" THEN <<f3>> ELSE <<>>))
                       \o (IF item.scope # "" THEN <<f4>> ELSE <<>>)
  BY DEF Header
<1> HIDE DEF f1, f2, f3, f4
<1>3. /\ <<f1, f2>> \o <<f3>> = <<f1, f2, f3>> /\ <<f1, f2>> \o <<f4>> = <<f1, f2, f4>>
      /\ <<f1, f2, f3>> \o <<f4>> = <<f1, f2, f3, f4>>
  BY <1>1, TwoAndOne, ThreeAndOne, ZenonT(60)
<1>4. <<f1, f2>> \o <<>> = <<f1, f2>> /\ <<f1, f2, f3>> \o <<>> = <<f1, f2, f3>>
  BY <1>1, TwoAndNone, ThreeAndNone
<1>5. CASE item.repo = "" /\ item.scope = ""
  <2>1. Header(item) = <<f1, f2>>
    BY <1>2, <1>4, <1>5, Zenon
  <2>2. /\ <<f1, f2>> \in Seq(Line) /\ Len(<<f1, f2>>) >= 2
        /\ \A i \in 1 .. Len(<<f1, f2>>) : <<f1, f2>>[i] # Blank
        /\ LastValue(<<f1, f2>>, "created") = f2.value
        /\ LastValue(<<f1, f2>>, "repo") = ""
        /\ LastValue(<<f1, f2>>, "scope") = ""
    BY <1>1, ReadBare
  <2> QED
    BY <1>1, <1>5, <2>1, <2>2, Zenon
<1>6. CASE item.repo # "" /\ item.scope = ""
  <2>1. Header(item) = <<f1, f2, f3>>
    BY <1>2, <1>3, <1>4, <1>6, Zenon
  <2>2. /\ <<f1, f2, f3>> \in Seq(Line) /\ Len(<<f1, f2, f3>>) >= 2
        /\ \A i \in 1 .. Len(<<f1, f2, f3>>) : <<f1, f2, f3>>[i] # Blank
        /\ LastValue(<<f1, f2, f3>>, "created") = f2.value
        /\ LastValue(<<f1, f2, f3>>, "repo") = f3.value
        /\ LastValue(<<f1, f2, f3>>, "scope") = ""
    BY <1>1, ReadRepo
  <2> QED
    BY <1>1, <1>6, <2>1, <2>2, Zenon
<1>7. CASE item.repo = "" /\ item.scope # ""
  <2>1. Header(item) = <<f1, f2, f4>>
    BY <1>2, <1>3, <1>4, <1>7, Zenon
  <2>2. /\ <<f1, f2, f4>> \in Seq(Line) /\ Len(<<f1, f2, f4>>) >= 2
        /\ \A i \in 1 .. Len(<<f1, f2, f4>>) : <<f1, f2, f4>>[i] # Blank
        /\ LastValue(<<f1, f2, f4>>, "created") = f2.value
        /\ LastValue(<<f1, f2, f4>>, "repo") = ""
        /\ LastValue(<<f1, f2, f4>>, "scope") = f4.value
    BY <1>1, ReadScope
  <2> QED
    BY <1>1, <1>7, <2>1, <2>2, Zenon
<1>8. CASE item.repo # "" /\ item.scope # ""
  <2>1. Header(item) = <<f1, f2, f3, f4>>
    BY <1>2, <1>3, <1>8, Zenon
  <2>2. /\ <<f1, f2, f3, f4>> \in Seq(Line) /\ Len(<<f1, f2, f3, f4>>) >= 2
        /\ \A i \in 1 .. Len(<<f1, f2, f3, f4>>) : <<f1, f2, f3, f4>>[i] # Blank
        /\ LastValue(<<f1, f2, f3, f4>>, "created") = f2.value
        /\ LastValue(<<f1, f2, f3, f4>>, "repo") = f3.value
        /\ LastValue(<<f1, f2, f3, f4>>, "scope") = f4.value
    BY <1>1, ReadBoth, ZenonT(60)
  <2> QED
    BY <1>1, <1>8, <2>1, <2>2, Zenon
<1> QED
  BY <1>5, <1>6, <1>7, <1>8

LEMMA ReadsBack ==
  ASSUME NEW item \in Item
  PROVE  Decode(Encode(item)) = item
<1> DEFINE h == Header(item)
           n == Len(h)
           text == item.text
           front == h \o <<Blank>>
           lines == front \o text
<1>1. /\ item.created \in Value /\ item.repo \in Value \cup {""}
      /\ item.scope \in Value \cup {""}
      /\ text \in Texts /\ text # <<>> /\ text[Len(text)] # Blank
      /\ item = [created |-> item.created, repo |-> item.repo, scope |-> item.scope,
                 text |-> item.text]
  BY DEF Item
<1>2. text \in Seq(Line) /\ Blank \in Line
  <2>1. PICK m \in 0 .. MaxLines : text \in [1 .. m -> Plain \cup {Field("repo", v) : v \in Value}]
    BY <1>1 DEF Texts, BoundedSeq, SeqOf
  <2>2. \A line \in Plain \cup {Field("repo", v) : v \in Value} : line \in Line
    <3>1. \A line \in Plain : line \in Line
      BY DEF Plain
    <3>2. \A v \in Value : Field("repo", v) \in Line
      BY FieldIs
    <3> QED
      BY <3>1, <3>2
  <2>3. m \in Nat
    BY MaxLinesAssumption
  <2>4. text \in [1 .. m -> Line]
    BY <2>1, <2>2
  <2>5. Blank \in Line
    BY DEF Blank, Line
  <2> HIDE DEF text
  <2> QED
    BY <2>3, <2>4, <2>5
<1>3. /\ h \in Seq(Line) /\ n >= 2 /\ \A i \in 1 .. n : h[i] # Blank
      /\ LastValue(h, "created") = item.created
      /\ LastValue(h, "repo") = item.repo
      /\ LastValue(h, "scope") = item.scope
  BY <1>1, HeaderIs
<1>4. Encode(item) = lines
  BY DEF Encode, Header
<1> HIDE DEF h, text
<1>5. /\ front \in Seq(Line) /\ Len(front) = n + 1
      /\ \A i \in 1 .. n : front[i] = h[i]
      /\ front[n + 1] = Blank
  BY <1>2, <1>3
<1> HIDE DEF front
<1>6. /\ lines \in Seq(Line) /\ Len(lines) = n + 1 + Len(text)
      /\ \A i \in 1 .. n + 1 : lines[i] = front[i]
      /\ \A i \in 1 .. Len(text) : lines[n + 1 + i] = text[i]
  BY <1>2, <1>3, <1>5
<1> HIDE DEF lines
<1>7. n \in Nat /\ Len(text) \in Nat
  BY <1>2, <1>3 DEF n
<1> HIDE DEF n
<1>8. /\ n + 1 \in 2 .. Len(lines) /\ lines[n + 1] = Blank
      /\ \A i \in 2 .. n : lines[i] # Blank
  BY <1>3, <1>5, <1>6, <1>7
<1>9. Decode(lines) = ReadHeader(SubSeq(lines, 1, n),
                                 Trimmed(SubSeq(lines, n + 2, Len(lines))))
  <2>1. (n + 1) - 1 = n /\ (n + 1) + 1 = n + 2
    BY <1>7
  <2> QED
    BY <1>6, <1>8, <2>1, CutsAt
<1>10. SubSeq(lines, 1, n) = h
  <2>1. /\ SubSeq(lines, 1, n) \in Seq(Line) /\ Len(SubSeq(lines, 1, n)) = n
        /\ \A i \in 1 .. n : SubSeq(lines, 1, n)[i] = lines[i]
    BY <1>6, <1>7
  <2>2. \A i \in 1 .. n : lines[i] = h[i]
    BY <1>5, <1>6, <1>7
  <2>3. Len(h) = n
    BY DEF n
  <2> QED
    BY <1>3, <2>1, <2>2, <2>3, SeqEqual
<1>11. SubSeq(lines, n + 2, Len(lines)) = text
  <2> DEFINE body == SubSeq(lines, n + 2, Len(lines))
  <2>1. /\ body \in Seq(Line) /\ Len(body) = Len(text)
        /\ \A i \in 1 .. Len(text) : body[i] = lines[n + 1 + i]
    <3>1. \A i \in n + 2 .. Len(lines) : lines[i] \in Line
      BY <1>6, <1>7
    <3>2. /\ body \in Seq(Line)
          /\ Len(body) = IF n + 2 <= Len(lines) THEN Len(lines) - (n + 2) + 1 ELSE 0
          /\ \A i \in 1 .. Len(lines) - (n + 2) + 1 : body[i] = lines[(n + 2) + i - 1]
      BY <1>6, <1>7, <3>1, SubSeqProperties
    <3> QED
      BY <1>6, <1>7, <3>2
  <2> HIDE DEF body
  <2>2. \A i \in 1 .. Len(body) : body[i] = text[i]
    BY <1>6, <2>1
  <2>3. body = text
    BY <1>2, <2>1, <2>2, SeqEqual
  <2> QED
    BY <2>3 DEF body
<1>12. Trimmed(text) = text
  BY <1>1, <1>2, NothingToTrim
<1>13. Decode(lines) = [created |-> item.created, repo |-> item.repo, scope |-> item.scope,
                        text |-> text]
  BY <1>3, <1>9, <1>10, <1>11, <1>12 DEF ReadHeader
<1> QED
  BY <1>1, <1>4, <1>13 DEF text

(* A file of a run is a sequence of lines.                                  *)
LEMMA PlainIsLine ==
  ASSUME NEW lines \in BoundedSeq(Plain, MaxLines)
  PROVE  lines \in Seq(Line)
<1>1. PICK m \in 0 .. MaxLines : lines \in [1 .. m -> Plain]
  BY DEF BoundedSeq, SeqOf
<1>2. \A line \in Plain : line \in Line
  BY DEF Plain
<1>3. m \in Nat /\ lines \in [1 .. m -> Line]
  BY <1>1, <1>2, MaxLinesAssumption
<1> QED
  BY <1>3

(* Of a file that another tool dropped in, whatever is in it.               *)
LEMMA DroppedIsRead ==
  ASSUME NEW lines \in Seq(Line)
  PROVE  /\ IsSuffix(Decode(lines).text, Trimmed(lines))
         /\ Blank \notin Range(lines) => Decode(lines).text = lines
<1>1. CASE Cuts(lines) = {}
  <2>1. Decode(lines).text = Trimmed(lines)
    BY <1>1 DEF Decode, NoItem
  <2>2. IsSuffix(Trimmed(lines), Trimmed(lines))
    BY TrimmedIs, SuffixIs
  <2>3. Blank \notin Range(lines) => Trimmed(lines) = lines
    BY NothingToTrim DEF Range
  <2> QED
    BY <2>1, <2>2, <2>3
<1>2. CASE Cuts(lines) # {}
  <2> DEFINE cut == Min(Cuts(lines))
  <2>1. \A i \in Cuts(lines) : i \in 2 .. Len(lines) /\ lines[i] = Blank
    BY DEF Cuts
  <2>2. Cuts(lines) \subseteq Nat
    BY <2>1
  <2>3. cut \in Cuts(lines)
    BY <1>2, <2>2, MinIs
  <2>4. cut \in 1 .. Len(lines) /\ Blank \in Range(lines)
    BY <2>1, <2>3 DEF Range
  <2>5. Decode(lines).text = Trimmed(SubSeq(lines, cut + 1, Len(lines)))
    BY <1>2 DEF Decode, ReadHeader
  <2> QED
    BY <2>4, <2>5, BodyIsSuffix
<1> QED
  BY <1>1, <1>2

FilesInv ==
  /\ input.call = "add" =>
       /\ input.item \in Item
       /\ output = Waiting \/ output = Decode(Encode(input.item))
  /\ input.call = "dropped" =>
       /\ input.lines \in BoundedSeq(Plain, MaxLines)
       /\ output = Waiting \/ output = Decode(input.lines)

(* encode, decodeItem: for any values and texts of any length, Get reads    *)
(* what Add wrote, and of a dropped file the end.                           *)
THEOREM FilesReadBack == Spec => []RoundTrip
<1>1. Init => FilesInv
  BY Called DEF FilesInv
<1>2. FilesInv /\ [Next]_vars => FilesInv'
  BY Answered DEF vars, FilesInv, ReadBack, ReadDropped
<1>3. FilesInv => RoundTrip
  BY ReadsBack, PlainIsLine, DroppedIsRead DEF FilesInv, RoundTrip, Done
<1> QED
  BY <1>1, <1>2, <1>3, PTL DEF Spec

-----------------------------------------------------------------------------
(* The order of ids.                                                        *)

(* The loop over ids, as far as the nth of them.                            *)
Loop(placed, k, merged, ids, present) ==
  placed = [n \in 0 .. k |-> IF n = 0 THEN merged ELSE Placed(placed[n - 1], ids[n], present)]

LEMMA LoopRuns ==
  ASSUME NEW merged, NEW ids, NEW present, NEW k \in Nat
  PROVE  \E placed : Loop(placed, k, merged, ids, present)
<1> DEFINE Stuck == {n \in Nat : ~ \E placed : Loop(placed, n, merged, ids, present)}
<1> SUFFICES ASSUME Stuck # {} PROVE FALSE
  OBVIOUS
<1>1. PICK n \in Stuck : \A m \in Stuck : n <= m
  <2>1. Stuck \subseteq Nat
    OBVIOUS
  <2> QED
    BY <2>1, Least
<1>2. n \in Nat /\ ~ \E placed : Loop(placed, n, merged, ids, present)
  BY <1>1
<1>3. CASE n = 0
  <2> DEFINE f == [i \in 0 .. 0 |-> merged]
  <2>1. Loop(f, 0, merged, ids, present)
    BY DEF Loop
  <2> QED
    BY <1>2, <1>3, <2>1
<1>4. CASE n # 0
  <2>1. n - 1 \in Nat /\ n - 1 \notin Stuck
    BY <1>1, <1>2, <1>4
  <2>2. PICK f : Loop(f, n - 1, merged, ids, present)
    BY <2>1
  <2>3. f = [i \in 0 .. n - 1 |-> IF i = 0 THEN merged ELSE Placed(f[i - 1], ids[i], present)]
    BY <2>2 DEF Loop
  <2> DEFINE g == [i \in 0 .. n |-> IF i = n THEN Placed(f[n - 1], ids[n], present) ELSE f[i]]
  <2>4. ASSUME NEW i \in 0 .. n
        PROVE  g[i] = IF i = 0 THEN merged ELSE Placed(g[i - 1], ids[i], present)
    <3>1. CASE i = n
      <4>1. g[i] = Placed(f[n - 1], ids[n], present) /\ g[n - 1] = f[n - 1]
        BY <1>2, <1>4, <3>1
      <4> QED
        BY <1>4, <3>1, <4>1
    <3>2. CASE i # n
      <4>1. i \in 0 .. n - 1 /\ g[i] = f[i]
        BY <1>2, <3>2
      <4>2. i # 0 => g[i - 1] = f[i - 1]
        BY <1>2, <4>1
      <4>3. f[i] = IF i = 0 THEN merged ELSE Placed(f[i - 1], ids[i], present)
        BY <2>3, <4>1
      <4> QED
        BY <4>1, <4>2, <4>3
    <3> QED
      BY <3>1, <3>2
  <2>5. g = [i \in 0 .. n |-> IF i = 0 THEN merged ELSE Placed(g[i - 1], ids[i], present)]
    BY <2>4
  <2>6. Loop(g, n, merged, ids, present)
    BY <2>5 DEF Loop
  <2> QED
    BY <1>2, <2>6
<1> QED
  BY <1>3, <1>4

(* The steps of placeAll.                                                   *)
PlacesAll(placed, merged, ids, present) ==
  /\ PlaceAll(merged, ids, present) = placed[Len(ids)]
  /\ placed[0] = merged
  /\ \A n \in 1 .. Len(ids) : placed[n] = Placed(placed[n - 1], ids[n], present)

LEMMA PlaceAllIsLoop ==
  ASSUME NEW merged, NEW ids, NEW present, Len(ids) \in Nat
  PROVE  \E placed : PlacesAll(placed, merged, ids, present)
<1> DEFINE g == CHOOSE g : g = [n \in 0 .. Len(ids) |->
                                  IF n = 0 THEN merged ELSE Placed(g[n - 1], ids[n], present)]
<1>1. \E placed : Loop(placed, Len(ids), merged, ids, present)
  BY LoopRuns
<1>2. g = [n \in 0 .. Len(ids) |->
             IF n = 0 THEN merged ELSE Placed(g[n - 1], ids[n], present)]
  BY <1>1 DEF Loop
<1>3. PlaceAll(merged, ids, present) = g[Len(ids)]
  BY DEF PlaceAll
<1> HIDE DEF g
<1>4. \A n \in 0 .. Len(ids) :
        g[n] = IF n = 0 THEN merged ELSE Placed(g[n - 1], ids[n], present)
  BY <1>2
<1>5. 0 \in 0 .. Len(ids) /\ \A n \in 1 .. Len(ids) : n \in 0 .. Len(ids) /\ n # 0
  OBVIOUS
<1>6. PlacesAll(g, merged, ids, present)
  BY <1>3, <1>4, <1>5 DEF PlacesAll
<1> QED
  BY <1>6

(* merged is the first k ids of all that are present, each once, in the     *)
(* order in which they are first named.                                     *)
FirstPlaced(merged, all, k, present) ==
  /\ merged \in Seq(present)
  /\ IsInjective(merged)
  /\ Range(merged) = {id \in present : \E i \in 1 .. k : all[i] = id}
  /\ \A i, j \in DOMAIN merged : i < j => FirstAt(all, merged[i]) < FirstAt(all, merged[j])

LEMMA FirstAtIs ==
  ASSUME NEW S, NEW all \in Seq(S), NEW id \in Range(all)
  PROVE  /\ FirstAt(all, id) \in 1 .. Len(all)
         /\ all[FirstAt(all, id)] = id
         /\ \A i \in 1 .. Len(all) : all[i] = id => FirstAt(all, id) <= i
<1> DEFINE T == {i \in DOMAIN all : all[i] = id}
<1>1. T \subseteq Nat /\ T # {}
  BY DEF Range
<1>2. PICK i \in T : \A j \in T : i <= j
  BY <1>1, Least
<1>3. i \in DOMAIN all /\ all[i] = id /\ \A j \in 1 .. i - 1 : all[j] # id
  <2>1. i \in 1 .. Len(all) /\ all[i] = id
    OBVIOUS
  <2>2. ASSUME NEW j \in 1 .. i - 1, all[j] = id PROVE FALSE
    <3>1. j \in T
      BY <2>1, <2>2
    <3> QED
      BY <1>2, <2>1, <3>1
  <2> QED
    BY <2>1, <2>2
<1>4. /\ FirstAt(all, id) \in DOMAIN all /\ all[FirstAt(all, id)] = id
      /\ \A j \in 1 .. FirstAt(all, id) - 1 : all[j] # id
  BY <1>3 DEF FirstAt
<1> DEFINE f == FirstAt(all, id)
<1>5. f \in 1 .. Len(all) /\ all[f] = id /\ \A j \in 1 .. f - 1 : all[j] # id
  BY <1>4
<1> HIDE DEF f
<1>6. ASSUME NEW k \in 1 .. Len(all), all[k] = id PROVE f <= k
  BY <1>5, <1>6
<1> QED
  BY <1>5, <1>6 DEF f

LEMMA RangeOfAppend ==
  ASSUME NEW S, NEW s \in Seq(S), NEW e \in S
  PROVE  Range(Append(s, e)) = Range(s) \cup {e}
<1>1. /\ Append(s, e) \in Seq(S) /\ Len(Append(s, e)) = Len(s) + 1
      /\ \A i \in 1 .. Len(s) : Append(s, e)[i] = s[i]
      /\ Append(s, e)[Len(s) + 1] = e
  OBVIOUS
<1>2. DOMAIN Append(s, e) = 1 .. Len(s) + 1 /\ DOMAIN s = 1 .. Len(s) /\ Len(s) \in Nat
  BY <1>1
<1>3. ASSUME NEW v \in Range(Append(s, e)) PROVE v \in Range(s) \cup {e}
  <2>1. PICK i \in 1 .. Len(s) + 1 : v = Append(s, e)[i]
    BY <1>2 DEF Range
  <2> QED
    BY <1>1, <1>2, <2>1 DEF Range
<1>4. ASSUME NEW v \in Range(s) \cup {e} PROVE v \in Range(Append(s, e))
  <2>1. CASE v \in Range(s)
    <3>1. PICK i \in 1 .. Len(s) : v = s[i]
      BY <1>2, <2>1 DEF Range
    <3> QED
      BY <1>1, <1>2, <3>1 DEF Range
  <2>2. CASE v = e
    BY <1>1, <1>2, <2>2 DEF Range
  <2> QED
    BY <2>1, <2>2
<1> QED
  BY <1>3, <1>4

(* One call of add, for the kth id.                                         *)
LEMMA OnePlaced ==
  ASSUME NEW S, NEW all \in Seq(S), NEW k \in 1 .. Len(all), NEW present, NEW merged,
         FirstPlaced(merged, all, k - 1, present)
  PROVE  FirstPlaced(Placed(merged, all[k], present), all, k, present)
<1> DEFINE id == all[k]
           old == {a \in present : \E i \in 1 .. k - 1 : all[i] = a}
           new == {a \in present : \E i \in 1 .. k : all[i] = a}
<1>1. /\ merged \in Seq(present) /\ IsInjective(merged) /\ Range(merged) = old
      /\ \A i, j \in DOMAIN merged : i < j => FirstAt(all, merged[i]) < FirstAt(all, merged[j])
  BY DEF FirstPlaced
<1>2. k \in Nat /\ k \in 1 .. Len(all) /\ Len(all) \in Nat /\ DOMAIN all = 1 .. Len(all)
  OBVIOUS
<1>3. \A i : i \in 1 .. k <=> i \in 1 .. k - 1 \/ i = k
  BY <1>2
<1>4. CASE id \in present /\ id \notin Range(merged)
  <2> DEFINE m == Append(merged, id)
             n == Len(merged)
  <2>1. Placed(merged, id, present) = m
    BY <1>4 DEF Placed
  <2>2. /\ m \in Seq(present) /\ Len(m) = n + 1 /\ n \in Nat
        /\ \A i \in 1 .. n : m[i] = merged[i]
        /\ m[n + 1] = id
        /\ DOMAIN m = 1 .. n + 1 /\ DOMAIN merged = 1 .. n
    BY <1>1, <1>4
  <2>3. Range(m) = old \cup {id}
    BY <1>1, <1>4, RangeOfAppend
  <2>4. new = old \cup {id}
    BY <1>3, <1>4
  <2>5. FirstAt(all, id) = k
    <3>1. id \in Range(all)
      BY <1>2 DEF Range
    <3>2. /\ FirstAt(all, id) \in 1 .. Len(all) /\ all[FirstAt(all, id)] = id
          /\ FirstAt(all, id) <= k
      BY <1>2, <3>1, FirstAtIs
    <3>3. FirstAt(all, id) \notin 1 .. k - 1
      BY <1>1, <1>4, <3>2
    <3> QED
      BY <1>2, <3>2, <3>3
  <2>6. ASSUME NEW i \in 1 .. n PROVE FirstAt(all, merged[i]) < k /\ merged[i] # id
    <3>1. merged[i] \in Range(merged)
      BY <2>2 DEF Range
    <3>2. PICK j \in 1 .. k - 1 : all[j] = merged[i]
      BY <1>1, <3>1
    <3>3. merged[i] \in Range(all) /\ j \in 1 .. Len(all)
      BY <1>2, <3>2 DEF Range
    <3>4. FirstAt(all, merged[i]) \in 1 .. Len(all) /\ FirstAt(all, merged[i]) <= j
      BY <3>2, <3>3, FirstAtIs
    <3>5. FirstAt(all, merged[i]) < k
      BY <1>2, <3>2, <3>4
    <3> QED
      BY <1>4, <3>1, <3>5
  <2> HIDE DEF m, n
  <2>7. IsInjective(m)
    <3>1. \A i, j \in 1 .. n : merged[i] = merged[j] => i = j
      BY <1>1, <2>2 DEF IsInjective
    <3>2. \A i \in 1 .. n + 1 : i \in 1 .. n \/ i = n + 1
      BY <2>2
    <3>3. \A i, j \in 1 .. n + 1 : m[i] = m[j] => i = j
      BY <2>2, <2>6, <3>1, <3>2
    <3> QED
      BY <2>2, <3>3 DEF IsInjective
  <2>8. ASSUME NEW i \in DOMAIN m, NEW j \in DOMAIN m, i < j
        PROVE  FirstAt(all, m[i]) < FirstAt(all, m[j])
    <3>1. i \in 1 .. n /\ (j \in 1 .. n \/ j = n + 1)
      BY <2>2, <2>8
    <3>2. CASE j \in 1 .. n
      BY <1>1, <2>2, <2>8, <3>1, <3>2
    <3>3. CASE j = n + 1
      BY <2>2, <2>5, <2>6, <3>1, <3>3
    <3> QED
      BY <3>1, <3>2, <3>3
  <2>9. FirstPlaced(m, all, k, present)
    BY <2>2, <2>3, <2>4, <2>7, <2>8 DEF FirstPlaced
  <2> QED
    BY <2>1, <2>9
<1>5. CASE ~ (id \in present /\ id \notin Range(merged))
  <2>1. Placed(merged, id, present) = merged
    BY <1>5 DEF Placed
  <2>2. new = old
    BY <1>1, <1>3, <1>5
  <2> QED
    BY <1>1, <2>1, <2>2 DEF FirstPlaced
<1> QED
  BY <1>4, <1>5

(* A loop over the ids that follow the first b.                             *)
LEMMA AllPlaced ==
  ASSUME NEW S, NEW all \in Seq(S), NEW b \in Nat, NEW ids, NEW present, NEW merged,
         Len(ids) \in Nat, b + Len(ids) <= Len(all),
         \A n \in 1 .. Len(ids) : all[b + n] = ids[n],
         FirstPlaced(merged, all, b, present)
  PROVE  FirstPlaced(PlaceAll(merged, ids, present), all, b + Len(ids), present)
<1>0. PICK placed : PlacesAll(placed, merged, ids, present)
  BY PlaceAllIsLoop
<1>1. /\ PlaceAll(merged, ids, present) = placed[Len(ids)] /\ placed[0] = merged
      /\ \A n \in 1 .. Len(ids) : placed[n] = Placed(placed[n - 1], ids[n], present)
  BY <1>0 DEF PlacesAll
<1> DEFINE Wrong == {n \in 0 .. Len(ids) : ~ FirstPlaced(placed[n], all, b + n, present)}
<1>2. Wrong = {}
  <2> SUFFICES ASSUME Wrong # {} PROVE FALSE
    OBVIOUS
  <2>1. PICK n \in Wrong : \A m \in Wrong : n <= m
    <3>1. \A m \in Wrong : m \in Nat
      OBVIOUS
    <3> HIDE DEF Wrong
    <3> QED
      BY <3>1, Least
  <2>2. n \in 0 .. Len(ids) /\ ~ FirstPlaced(placed[n], all, b + n, present)
    BY <2>1
  <2>3. n # 0
    <3>1. b + 0 = b
      OBVIOUS
    <3> QED
      BY <1>1, <2>2, <3>1
  <2>4. n - 1 \in 0 .. Len(ids) /\ n - 1 < n /\ n \in 1 .. Len(ids)
    BY <2>2, <2>3
  <2>5. FirstPlaced(placed[n - 1], all, b + (n - 1), present)
    <3>1. n - 1 \notin Wrong
      BY <2>1, <2>2, <2>4
    <3> QED
      BY <2>4, <3>1
  <2>6. b + (n - 1) = (b + n) - 1 /\ b + n \in 1 .. Len(all)
    BY <2>4
  <2>7. FirstPlaced(Placed(placed[n - 1], all[b + n], present), all, b + n, present)
    BY <2>5, <2>6, OnePlaced
  <2> QED
    BY <1>1, <2>2, <2>4, <2>7
<1>3. Len(ids) \in 0 .. Len(ids)
  OBVIOUS
<1>4. FirstPlaced(placed[Len(ids)], all, b + Len(ids), present)
  BY <1>2, <1>3
<1> QED
  BY <1>1, <1>4

LEMMA NonePlaced ==
  ASSUME NEW all, NEW present
  PROVE  FirstPlaced(<<>>, all, 0, present)
<1>1. <<>> \in Seq(present) /\ DOMAIN <<>> = {}
  OBVIOUS
<1>2. Range(<<>>) = {}
  BY <1>1 DEF Range
<1>3. {id \in present : \E i \in 1 .. 0 : all[i] = id} = {}
  OBVIOUS
<1> QED
  BY <1>1, <1>2, <1>3 DEF FirstPlaced, IsInjective

(* A finite set of ids has one order by age.                                *)
IsSortOf(s, ids) ==
  /\ s \in [1 .. Cardinality(ids) -> ids]
  /\ \A i, j \in DOMAIN s : i < j => s[i] < s[j]

LEMMA SortedExists ==
  ASSUME NEW ids, ids \subseteq Nat, IsFiniteSet(ids)
  PROVE  \E s : IsSortOf(s, ids)
<1> DEFINE Unsorted ==
      {n \in Nat : \E T : /\ T \subseteq Nat /\ IsFiniteSet(T) /\ Cardinality(T) = n
                          /\ ~ \E s : IsSortOf(s, T)}
<1> SUFFICES ASSUME Unsorted # {} PROVE FALSE
  <2>1. Cardinality(ids) \in Nat
    BY FS_CardinalityType
  <2> QED
    BY <2>1
<1>1. PICK n \in Unsorted : \A m \in Unsorted : n <= m
  <2>1. \A m \in Unsorted : m \in Nat
    OBVIOUS
  <2> HIDE DEF Unsorted
  <2> QED
    BY <2>1, Least
<1>2. PICK T : /\ T \subseteq Nat /\ IsFiniteSet(T) /\ Cardinality(T) = n
               /\ ~ \E s : IsSortOf(s, T)
  BY <1>1
<1>3. n \in Nat
  BY <1>1
<1>4. CASE T = {}
  <2>1. n = 0 /\ 1 .. 0 = {}
    BY <1>2, <1>4, FS_EmptySet
  <2>2. [i \in 1 .. 0 |-> 0] \in [1 .. Cardinality(T) -> T]
    BY <1>2, <2>1
  <2>3. IsSortOf([i \in 1 .. 0 |-> 0], T)
    BY <2>1, <2>2 DEF IsSortOf
  <2> QED
    BY <1>2, <2>3
<1>5. CASE T # {}
  <2>1. PICK a \in T : \A b \in T : a <= b
    BY <1>2, <1>5, Least
  <2> DEFINE U == T \ {a}
  <2>2. U \subseteq Nat /\ IsFiniteSet(U) /\ Cardinality(U) = n - 1 /\ n - 1 \in Nat
    <3>1. IsFiniteSet(U) /\ Cardinality(U) = n - 1
      BY <1>2, FS_RemoveElement
    <3>2. Cardinality(U) \in Nat
      BY <3>1, FS_CardinalityType
    <3> QED
      BY <1>2, <3>1, <3>2
  <2>3. PICK s : IsSortOf(s, U)
    <3>1. n - 1 \notin Unsorted
      BY <1>1, <1>3, <2>2
    <3> QED
      BY <2>2, <3>1
  <2>4. s \in [1 .. n - 1 -> U] /\ \A i, j \in 1 .. n - 1 : i < j => s[i] < s[j]
    BY <2>2, <2>3 DEF IsSortOf
  <2> DEFINE r == [i \in 1 .. n |-> IF i = 1 THEN a ELSE s[i - 1]]
  <2>5. \A i \in 1 .. n : i # 1 => i - 1 \in 1 .. n - 1 /\ r[i] = s[i - 1] /\ s[i - 1] \in U
    BY <1>3, <2>4
  <2>6. r \in [1 .. n -> T]
    BY <2>5
  <2>7. ASSUME NEW i \in 1 .. n, NEW j \in 1 .. n, i < j PROVE r[i] < r[j]
    <3>1. j # 1 /\ j - 1 \in 1 .. n - 1 /\ r[j] = s[j - 1] /\ s[j - 1] \in U
      BY <2>5, <2>7
    <3>2. CASE i = 1
      <4>1. a \in Nat /\ s[j - 1] \in Nat /\ s[j - 1] # a /\ a <= s[j - 1]
        BY <1>2, <2>1, <3>1
      <4>2. r[i] = a
        BY <3>2
      <4> QED
        BY <3>1, <4>1, <4>2
    <3>3. CASE i # 1
      <4>1. i - 1 \in 1 .. n - 1 /\ r[i] = s[i - 1] /\ i - 1 < j - 1
        BY <2>5, <2>7, <3>3
      <4> QED
        BY <2>4, <3>1, <4>1
    <3> QED
      BY <3>2, <3>3
  <2>8. IsSortOf(r, T)
    BY <1>2, <2>6, <2>7 DEF IsSortOf
  <2> QED
    BY <1>2, <2>8
<1> QED
  BY <1>4, <1>5

LEMMA SortedIs ==
  ASSUME NEW ids, ids \subseteq Nat, IsFiniteSet(ids)
  PROVE  /\ Sorted(ids) \in Seq(ids) /\ Len(Sorted(ids)) = Cardinality(ids)
         /\ \A i, j \in 1 .. Len(Sorted(ids)) : i < j => Sorted(ids)[i] < Sorted(ids)[j]
         /\ IsInjective(Sorted(ids)) /\ Range(Sorted(ids)) = ids
<1> DEFINE s == Sorted(ids)
           n == Cardinality(ids)
<1>1. IsSortOf(s, ids)
  BY SortedExists DEF Sorted, IsSortOf
<1>2. n \in Nat
  BY FS_CardinalityType
<1> HIDE DEF s
<1>3. s \in [1 .. n -> ids] /\ DOMAIN s = 1 .. n
      /\ \A i, j \in 1 .. n : i < j => s[i] < s[j]
  BY <1>1 DEF IsSortOf
<1> HIDE DEF n
<1>4. s \in Seq(ids) /\ Len(s) = n
  BY <1>2, <1>3
<1>5. ASSUME NEW i \in 1 .. n, NEW j \in 1 .. n, s[i] = s[j] PROVE i = j
  <2>1. s[i] \in Nat /\ s[j] \in Nat
    BY <1>3
  <2> QED
    BY <1>2, <1>3, <1>5, <2>1
<1>6. IsInjective(s)
  BY <1>3, <1>5 DEF IsInjective
<1>7. Range(s) = ids
  <2>1. s \in Injection(1 .. n, ids)
    BY <1>3, <1>5 DEF Injection, IsInjective
  <2>2. IsFiniteSet(1 .. n) /\ Cardinality(1 .. n) = n
    BY <1>2, FS_Interval
  <2>3. s \in Surjection(1 .. n, ids)
    BY <2>1, <2>2, FS_Injection DEF n
  <2> QED
    BY <1>3, <2>3 DEF Surjection, Range
<1>8. Len(s) = n /\ \A i, j \in 1 .. Len(s) : i < j => s[i] < s[j]
  BY <1>3, <1>4
<1> QED
  BY <1>4, <1>6, <1>7, <1>8 DEF s, n

(* m is o and then the first n of r.                                        *)
Extends(m, o, r, n, present) ==
  /\ m \in Seq(present) /\ Len(m) = Len(o) + n
  /\ \A i \in 1 .. Len(o) : m[i] = o[i]
  /\ \A i \in 1 .. n : m[Len(o) + i] = r[i]

(* Ids that are not placed yet are placed one behind the other.             *)
LEMMA BehindPlaced ==
  ASSUME NEW present, NEW o \in Seq(present), NEW r \in Seq(present),
         IsInjective(r), Range(r) \cap Range(o) = {}
  PROVE  PlaceAll(o, r, present) = o \o r
<1>0. Len(o) \in Nat /\ Len(r) \in Nat /\ DOMAIN o = 1 .. Len(o) /\ DOMAIN r = 1 .. Len(r)
  OBVIOUS
<1>a. PICK placed : PlacesAll(placed, o, r, present)
  BY <1>0, PlaceAllIsLoop
<1>1. /\ PlaceAll(o, r, present) = placed[Len(r)] /\ placed[0] = o
      /\ \A n \in 1 .. Len(r) : placed[n] = Placed(placed[n - 1], r[n], present)
  BY <1>a DEF PlacesAll
<1>2. ASSUME NEW n \in 1 .. Len(r), NEW m, Extends(m, o, r, n - 1, present)
      PROVE  Extends(Placed(m, r[n], present), o, r, n, present)
  <2> DEFINE b == Len(o)
             id == r[n]
  <2>1. /\ m \in Seq(present) /\ Len(m) = b + (n - 1) /\ DOMAIN m = 1 .. b + (n - 1)
        /\ \A i \in 1 .. b : m[i] = o[i]
        /\ \A i \in 1 .. n - 1 : m[b + i] = r[i]
    <3>1. /\ m \in Seq(present) /\ Len(m) = b + (n - 1)
          /\ \A i \in 1 .. b : m[i] = o[i]
          /\ \A i \in 1 .. n - 1 : m[b + i] = r[i]
      BY <1>2, Zenon DEF Extends
    <3>2. DOMAIN m = 1 .. Len(m)
      BY <3>1
    <3> QED
      BY <3>1, <3>2
  <2>2. b \in Nat /\ n \in Nat /\ n >= 1 /\ id \in present
    OBVIOUS
  <2> HIDE DEF b
  <2>3. ASSUME NEW i \in 1 .. b + (n - 1) PROVE m[i] # id
    <3>1. CASE i \in 1 .. b
      <4>1. o[i] \in Range(o) /\ id \in Range(r)
        BY <1>0, <3>1 DEF Range, b
      <4> QED
        BY <2>1, <3>1, <4>1
    <3>2. CASE i \notin 1 .. b
      <4>1. i - b \in 1 .. n - 1 /\ b + (i - b) = i
        BY <2>2, <3>2
      <4>2. m[i] = r[i - b]
        BY <2>1, <4>1
      <4>3. i - b \in DOMAIN r /\ n \in DOMAIN r /\ i - b # n
        BY <1>0, <2>2, <4>1
      <4> QED
        BY <4>2, <4>3 DEF IsInjective
    <3> QED
      BY <3>1, <3>2
  <2>4. id \notin Range(m)
    BY <2>1, <2>3 DEF Range
  <2>5. Placed(m, id, present) = Append(m, id)
    BY <2>2, <2>4 DEF Placed
  <2> DEFINE a == Append(m, id)
  <2> HIDE DEF id
  <2>6. /\ a \in Seq(present) /\ Len(a) = Len(m) + 1 /\ a[Len(m) + 1] = id
        /\ \A i \in 1 .. Len(m) : a[i] = m[i]
    BY <2>1, <2>2
  <2> HIDE DEF a
  <2>7. Len(a) = b + n /\ a[b + n] = id
    BY <2>1, <2>2, <2>6
  <2>8. ASSUME NEW i \in 1 .. b PROVE a[i] = o[i]
    <3>1. i \in 1 .. Len(m)
      BY <2>1, <2>2
    <3> QED
      BY <2>1, <2>6, <3>1
  <2>9. ASSUME NEW i \in 1 .. n PROVE a[b + i] = r[i]
    <3>1. CASE i = n
      BY <2>7, <3>1 DEF id
    <3>2. CASE i # n
      <4>1. i \in 1 .. n - 1 /\ b + i \in 1 .. Len(m)
        BY <2>1, <2>2, <3>2
      <4> QED
        BY <2>1, <2>6, <4>1
    <3> QED
      BY <3>1, <3>2
  <2>10. Extends(a, o, r, n, present)
    BY <2>6, <2>7, <2>8, <2>9 DEF Extends, b
  <2> QED
    BY <2>5, <2>10 DEF id, a
<1> DEFINE Wrong == {n \in 0 .. Len(r) : ~ Extends(placed[n], o, r, n, present)}
<1>3. Wrong = {}
  <2> SUFFICES ASSUME Wrong # {} PROVE FALSE
    OBVIOUS
  <2>1. PICK n \in Wrong : \A m \in Wrong : n <= m
    <3>1. \A m \in Wrong : m \in Nat
      OBVIOUS
    <3> HIDE DEF Wrong
    <3> QED
      BY <3>1, Least
  <2>2. n \in 0 .. Len(r) /\ ~ Extends(placed[n], o, r, n, present)
    BY <2>1
  <2>3. n # 0
    <3>1. Extends(o, o, r, 0, present)
      BY <1>0 DEF Extends
    <3> QED
      BY <1>1, <2>2, <3>1
  <2>4. n - 1 \in 0 .. Len(r) /\ n - 1 < n /\ n \in 1 .. Len(r)
    BY <1>0, <2>2, <2>3
  <2>5. Extends(placed[n - 1], o, r, n - 1, present)
    <3>1. n - 1 \notin Wrong
      BY <2>1, <2>2, <2>4
    <3> QED
      BY <2>4, <3>1
  <2> QED
    BY <1>1, <1>2, <2>2, <2>4, <2>5
<1>4. Len(r) \in 0 .. Len(r)
  BY <1>0
<1>5. Extends(placed[Len(r)], o, r, Len(r), present)
  BY <1>3, <1>4
<1> DEFINE m == placed[Len(r)]
<1>6. /\ m \in Seq(present) /\ Len(m) = Len(o) + Len(r)
      /\ \A i \in 1 .. Len(o) : m[i] = o[i]
      /\ \A i \in 1 .. Len(r) : m[Len(o) + i] = r[i]
  BY <1>5 DEF Extends
<1> HIDE DEF m
<1>7. m = o \o r
  <2>1. /\ o \o r \in Seq(present) /\ Len(o \o r) = Len(o) + Len(r)
        /\ \A i \in 1 .. Len(o) + Len(r) :
             (o \o r)[i] = IF i <= Len(o) THEN o[i] ELSE r[i - Len(o)]
    OBVIOUS
  <2>2. ASSUME NEW i \in 1 .. Len(m) PROVE m[i] = (o \o r)[i]
    <3>1. CASE i <= Len(o)
      <4>1. i \in 1 .. Len(o)
        BY <1>0, <3>1
      <4> QED
        BY <1>6, <2>1, <3>1, <4>1
    <3>2. CASE ~ (i <= Len(o))
      <4>1. i - Len(o) \in 1 .. Len(r) /\ Len(o) + (i - Len(o)) = i
        BY <1>0, <1>6, <3>2
      <4>2. m[i] = r[i - Len(o)]
        BY <1>6, <4>1
      <4> QED
        BY <1>6, <2>1, <3>2, <4>2
    <3> QED
      BY <3>1, <3>2
  <2> DEFINE c == o \o r
  <2>3. c \in Seq(present) /\ Len(c) = Len(m) /\ \A i \in 1 .. Len(m) : m[i] = c[i]
    BY <1>6, <2>1, <2>2
  <2> HIDE DEF c
  <2>4. m = c
    BY <1>6, <2>3, SeqEqual
  <2> QED
    BY <2>4 DEF c
<1> QED
  BY <1>1, <1>7 DEF m

(* The ids that are named, and then the others by age.                      *)
LEMMA NamedThenOthers ==
  ASSUME NEW S, NEW ids \in Seq(S), NEW present, present \subseteq Nat, IsFiniteSet(present),
         NEW o, FirstPlaced(o, ids, Len(ids), present)
  PROVE  /\ o \in Seq(present) /\ Rest(o, present) \in Seq(present)
         /\ PlaceAll(o, Rest(o, present), present) = o \o Rest(o, present)
         /\ IsOrderOf(o \o Rest(o, present), ids, present)
<1> DEFINE r == Rest(o, present)
           others == present \ Range(o)
           named == {id \in present : \E i \in 1 .. Len(ids) : ids[i] = id}
           m == o \o r
<1>1. /\ o \in Seq(present) /\ IsInjective(o) /\ Range(o) = named
      /\ \A i, j \in DOMAIN o : i < j => FirstAt(ids, o[i]) < FirstAt(ids, o[j])
  BY DEF FirstPlaced
<1>2. /\ r \in Seq(others) /\ IsInjective(r) /\ Range(r) = others
      /\ \A i, j \in 1 .. Len(r) : i < j => r[i] < r[j]
  <2>1. others \subseteq Nat /\ IsFiniteSet(others)
    BY FS_Subset
  <2>2. r = Sorted(others)
    BY DEF Rest
  <2> QED
    BY <2>1, <2>2, SortedIs
<1> HIDE DEF r
<1>3. /\ r \in Seq(present) /\ DOMAIN r = 1 .. Len(r) /\ DOMAIN o = 1 .. Len(o)
      /\ Len(r) \in Nat /\ Len(o) \in Nat /\ DOMAIN ids = 1 .. Len(ids)
  <2>1. r \in [1 .. Len(r) -> others] /\ Len(r) \in Nat
    BY <1>2
  <2> QED
    BY <1>1, <2>1
<1>4. Range(ids) \cap present = named
  BY <1>3 DEF Range
<1>5. PlaceAll(o, r, present) = m
  BY <1>1, <1>2, <1>3, BehindPlaced
<1>6. /\ m \in Seq(present) /\ Len(m) = Len(o) + Len(r)
      /\ \A i \in 1 .. Len(o) + Len(r) : m[i] = IF i <= Len(o) THEN o[i] ELSE r[i - Len(o)]
  BY <1>1, <1>3
<1> HIDE DEF m
<1>7. DOMAIN m = 1 .. Len(o) + Len(r)
  BY <1>6
<1>8. ASSUME NEW i \in DOMAIN m
      PROVE  \/ i \in 1 .. Len(o) /\ m[i] = o[i] /\ o[i] \in named /\ o[i] \in Range(ids)
             \/ /\ i - Len(o) \in 1 .. Len(r) /\ ~ (i <= Len(o))
                /\ m[i] = r[i - Len(o)] /\ r[i - Len(o)] \in others
                /\ r[i - Len(o)] \notin Range(ids) /\ r[i - Len(o)] \in Nat
  <2>1. CASE i <= Len(o)
    <3>1. i \in 1 .. Len(o) /\ m[i] = o[i]
      BY <1>3, <1>6, <1>7, <2>1
    <3>2. o[i] \in Range(o)
      BY <1>3, <3>1 DEF Range
    <3> QED
      BY <1>1, <1>4, <3>1, <3>2
  <2>2. CASE ~ (i <= Len(o))
    <3>1. i - Len(o) \in 1 .. Len(r) /\ m[i] = r[i - Len(o)]
      BY <1>3, <1>6, <1>7, <2>2
    <3>2. r[i - Len(o)] \in Range(r)
      BY <1>3, <3>1 DEF Range
    <3>3. r[i - Len(o)] \in others
      BY <1>2, <3>2
    <3>4. r[i - Len(o)] \notin named
      BY <1>1, <3>3
    <3>5. r[i - Len(o)] \notin Range(ids)
      BY <1>4, <3>3, <3>4
    <3> QED
      BY <2>2, <3>1, <3>3, <3>5
  <2> QED
    BY <2>1, <2>2
<1>9. Range(m) = present
  <2>1. ASSUME NEW v \in Range(m) PROVE v \in present
    <3>1. PICK i \in DOMAIN m : v = m[i]
      BY DEF Range
    <3> QED
      BY <1>8, <3>1
  <2>2. ASSUME NEW v \in present PROVE v \in Range(m)
    <3>1. CASE v \in Range(o)
      <4>1. PICK i \in 1 .. Len(o) : v = o[i]
        BY <1>3, <3>1 DEF Range
      <4>2. i \in DOMAIN m /\ m[i] = v
        BY <1>3, <1>6, <1>7, <4>1
      <4> QED
        BY <4>2 DEF Range
    <3>2. CASE v \notin Range(o)
      <4>1. v \in Range(r)
        BY <1>2, <3>2
      <4>2. PICK i \in 1 .. Len(r) : v = r[i]
        BY <1>3, <4>1 DEF Range
      <4>3. Len(o) + i \in 1 .. Len(o) + Len(r) /\ ~ (Len(o) + i <= Len(o))
            /\ (Len(o) + i) - Len(o) = i
        BY <1>3
      <4>4. Len(o) + i \in DOMAIN m /\ m[Len(o) + i] = v
        BY <1>6, <1>7, <4>2, <4>3
      <4> QED
        BY <4>4 DEF Range
    <3> QED
      BY <3>1, <3>2
  <2> QED
    BY <2>1, <2>2
<1>10. IsInjective(m)
  <2>1. ASSUME NEW i \in DOMAIN m, NEW j \in DOMAIN m, m[i] = m[j] PROVE i = j
    <3>1. CASE i \in 1 .. Len(o) /\ j \in 1 .. Len(o)
      BY <1>1, <1>3, <1>8, <2>1, <3>1 DEF IsInjective
    <3>2. CASE i - Len(o) \in 1 .. Len(r) /\ j - Len(o) \in 1 .. Len(r)
                /\ ~ (i <= Len(o)) /\ ~ (j <= Len(o))
      <4>1. m[i] = r[i - Len(o)] /\ m[j] = r[j - Len(o)]
        BY <1>6, <1>7, <3>2
      <4>2. i - Len(o) = j - Len(o)
        BY <1>2, <1>3, <2>1, <3>2, <4>1 DEF IsInjective
      <4> QED
        BY <1>3, <1>7, <4>2
    <3> QED
      BY <1>8, <2>1, <3>1, <3>2
  <2> QED
    BY <2>1 DEF IsInjective
<1>11. ASSUME NEW i \in DOMAIN m, NEW j \in DOMAIN m, i < j
       PROVE  Precedes(ids, m[i], m[j])
  <2>1. CASE i \in 1 .. Len(o) /\ m[i] = o[i] /\ o[i] \in Range(ids)
    <3>1. CASE j \in 1 .. Len(o) /\ m[j] = o[j] /\ o[j] \in Range(ids)
      BY <1>1, <1>3, <1>11, <2>1, <3>1 DEF Precedes
    <3>2. CASE m[j] \notin Range(ids)
      BY <2>1, <3>2 DEF Precedes
    <3> QED
      BY <1>8, <3>1, <3>2
  <2>2. CASE i - Len(o) \in 1 .. Len(r) /\ ~ (i <= Len(o)) /\ m[i] = r[i - Len(o)]
             /\ r[i - Len(o)] \notin Range(ids)
    <3>1. j \notin 1 .. Len(o)
      BY <1>3, <1>7, <1>11, <2>2
    <3>2. j - Len(o) \in 1 .. Len(r) /\ m[j] = r[j - Len(o)] /\ r[j - Len(o)] \notin Range(ids)
      BY <1>8, <3>1
    <3>3. i - Len(o) < j - Len(o)
      BY <1>3, <1>7, <1>11
    <3>4. r[i - Len(o)] < r[j - Len(o)]
      BY <1>2, <2>2, <3>2, <3>3
    <3> QED
      BY <2>2, <3>2, <3>4 DEF Precedes
  <2> QED
    BY <1>8, <2>1, <2>2
<1>12. IsOrderOf(m, ids, present)
  BY <1>9, <1>10, <1>11 DEF IsOrderOf
<1> QED
  BY <1>1, <1>3, <1>5, <1>12 DEF m, r

(* List: the ids of the document, once each, before the others.             *)
LEMMA ListingIsOrder ==
  ASSUME NEW S, NEW doc \in Seq(S), NEW items, items \subseteq Nat, IsFiniteSet(items)
  PROVE  IsOrderOf(Listing(items, doc), doc, items)
<1>1. FirstPlaced(PlaceAll(<<>>, doc, items), doc, 0 + Len(doc), items)
  BY NonePlaced, AllPlaced
<1>2. 0 + Len(doc) = Len(doc)
  OBVIOUS
<1> QED
  BY <1>1, <1>2, NamedThenOthers DEF Listing

(* mergeOrder: the requested ids before those of the document.              *)
LEMMA MergeIsOrder ==
  ASSUME NEW S, NEW front \in Seq(S), NEW current \in Seq(S), NEW present,
         present \subseteq Nat, IsFiniteSet(present)
  PROVE  /\ MergeOrder(front, current, present) \in Seq(present)
         /\ IsOrderOf(MergeOrder(front, current, present), front \o current, present)
<1> DEFINE all == front \o current
           one == PlaceAll(<<>>, front, present)
           two == PlaceAll(one, current, present)
<1>1. /\ all \in Seq(S) /\ Len(all) = Len(front) + Len(current)
      /\ Len(front) \in Nat /\ Len(current) \in Nat
      /\ \A i \in 1 .. Len(front) : all[i] = front[i]
      /\ \A i \in 1 .. Len(current) : all[Len(front) + i] = current[i]
  <2>1. /\ all \in Seq(S) /\ Len(all) = Len(front) + Len(current)
        /\ Len(front) \in Nat /\ Len(current) \in Nat
        /\ \A i \in 1 .. Len(front) + Len(current) :
             all[i] = IF i <= Len(front) THEN front[i] ELSE current[i - Len(front)]
    OBVIOUS
  <2> HIDE DEF all
  <2>2. ASSUME NEW i \in 1 .. Len(current) PROVE all[Len(front) + i] = current[i]
    <3>1. Len(front) + i \in 1 .. Len(front) + Len(current) /\ ~ (Len(front) + i <= Len(front))
          /\ (Len(front) + i) - Len(front) = i
      BY <2>1
    <3> QED
      BY <2>1, <3>1
  <2> QED
    BY <2>1, <2>2
<1> HIDE DEF all
<1>2. FirstPlaced(one, all, 0 + Len(front), present)
  <2>1. 0 + Len(front) <= Len(all) /\ \A n \in 1 .. Len(front) : all[0 + n] = front[n]
    BY <1>1
  <2> QED
    BY <1>1, <2>1, NonePlaced, AllPlaced
<1> HIDE DEF one
<1>3. FirstPlaced(two, all, Len(front) + Len(current), present)
  <2>1. 0 + Len(front) = Len(front) /\ Len(front) + Len(current) <= Len(all)
    BY <1>1
  <2> QED
    BY <1>1, <1>2, <2>1, AllPlaced
<1> HIDE DEF two
<1>4. /\ PlaceAll(two, Rest(two, present), present) = two \o Rest(two, present)
      /\ two \in Seq(present) /\ Rest(two, present) \in Seq(present)
      /\ IsOrderOf(two \o Rest(two, present), all, present)
  BY <1>1, <1>3, NamedThenOthers
<1>5. MergeOrder(front, current, present) = PlaceAll(two, Rest(two, present), present)
  BY DEF MergeOrder, two, one
<1>6. two \o Rest(two, present) \in Seq(present)
  BY <1>4
<1> QED
  BY <1>4, <1>5, <1>6 DEF all

(* The assumption OrderStore makes of its Merge, that what it yields is a   *)
(* document: mergeOrder meets it for any ids, requests and documents.       *)
THEOREM MergesAreDocuments ==
  ASSUME NEW ids, ids \subseteq Nat, IsFiniteSet(ids),
         NEW front \in Seq(ids), NEW current \in Docs(ids), NEW present \in SUBSET ids
  PROVE  MergeOrder(front, current, present) \in Docs(ids)
<1> DEFINE doc == MergeOrder(front, current, present)
           n == Len(doc)
<1>1. current \in Seq(ids)
  <2>1. PICK k \in 0 .. Cardinality(ids) : current \in Injection(1 .. k, ids)
    BY DEF Docs
  <2>2. k \in Nat /\ current \in [1 .. k -> ids]
    BY <2>1, FS_CardinalityType DEF Injection
  <2> QED
    BY <2>2
<1>2. present \subseteq Nat /\ IsFiniteSet(present)
  BY FS_Subset
<1>3. doc \in Seq(present) /\ IsOrderOf(doc, front \o current, present)
  BY <1>1, <1>2, MergeIsOrder
<1> HIDE DEF doc
<1>4. n \in Nat /\ DOMAIN doc = 1 .. n /\ doc \in [1 .. n -> present]
  BY <1>3
<1>5. doc \in [1 .. n -> ids] /\ IsInjective(doc)
  BY <1>3, <1>4 DEF IsOrderOf
<1>6. doc \in Injection(1 .. n, ids)
  BY <1>4, <1>5 DEF Injection, IsInjective
<1> HIDE DEF n
<1>7. Cardinality(1 .. n) <= Cardinality(ids)
  BY <1>6, FS_Injection
<1>8. Cardinality(1 .. n) = n
  BY <1>4, FS_Interval
<1>9. n \in 0 .. Cardinality(ids)
  BY <1>4, <1>7, <1>8, FS_CardinalityType
<1>10. doc \in Docs(ids)
  BY <1>6, <1>9 DEF Docs
<1> QED
  BY <1>10 DEF doc

LEMMA BoundedIsSeq ==
  ASSUME NEW ids \in BoundedSeq(Id, MaxNamed)
  PROVE  ids \in Seq(Id)
<1>1. PICK n \in 0 .. MaxNamed : ids \in [1 .. n -> Id]
  BY DEF BoundedSeq, SeqOf
<1>2. n \in Nat
  BY <1>1, IdAssumption
<1> QED
  BY <1>1, <1>2

OrderInv ==
  input.call = "order" =>
    /\ input.front \in BoundedSeq(Id, MaxNamed)
    /\ input.current \in BoundedSeq(Id, MaxNamed)
    /\ input.present \in SUBSET Id
    /\ \/ output = Waiting
       \/ output = [merged |-> MergeOrder(input.front, input.current, input.present),
                    listed |-> Listing(input.present, input.current)]

(* mergeOrder, List: whatever a request and a document name, how often and  *)
(* in which order, both show every item once, in the order they ask for.    *)
THEOREM OrdersAreRight == Spec => []EachOnceInOrder
<1>1. Init => OrderInv
  BY Called DEF OrderInv
<1>2. OrderInv /\ [Next]_vars => OrderInv'
  BY Answered DEF vars, OrderInv, OrderIds
<1>3. OrderInv => EachOnceInOrder
  <2> SUFFICES ASSUME OrderInv, Done("order")
               PROVE  /\ IsOrderOf(output.merged, input.front \o input.current, input.present)
                      /\ IsOrderOf(output.listed, input.current, input.present)
    BY DEF EachOnceInOrder
  <2>1. /\ input.front \in Seq(Id) /\ input.current \in Seq(Id)
        /\ input.present \subseteq Nat /\ IsFiniteSet(input.present)
        /\ output.merged = MergeOrder(input.front, input.current, input.present)
        /\ output.listed = Listing(input.present, input.current)
    <3>1. /\ input.front \in BoundedSeq(Id, MaxNamed)
          /\ input.current \in BoundedSeq(Id, MaxNamed)
          /\ input.present \subseteq Id
          /\ output.merged = MergeOrder(input.front, input.current, input.present)
          /\ output.listed = Listing(input.present, input.current)
      BY DEF OrderInv, Done
    <3>2. input.present \subseteq Nat /\ IsFiniteSet(input.present)
      BY <3>1, IdAssumption, FS_Subset
    <3> QED
      BY <3>1, <3>2, BoundedIsSeq
  <2> QED
    BY <2>1, MergeIsOrder, ListingIsOrder
<1> QED
  BY <1>1, <1>2, <1>3, PTL DEF Spec

-----------------------------------------------------------------------------
(* The directories of keys.                                                 *)

(* What the first n of seqs are, one behind the other.                      *)
Joins(f, seqs, n) ==
  f = [i \in 1 .. n |-> IF i = 1 THEN seqs[i] ELSE f[i - 1] \o seqs[i]]

LEMMA JoinsRun ==
  ASSUME NEW seqs, NEW k \in Nat
  PROVE  \E f : Joins(f, seqs, k)
<1> DEFINE Stuck == {n \in Nat : ~ \E f : Joins(f, seqs, n)}
<1> SUFFICES ASSUME Stuck # {} PROVE FALSE
  OBVIOUS
<1>1. PICK n \in Stuck : \A m \in Stuck : n <= m
  <2>1. Stuck \subseteq Nat
    OBVIOUS
  <2> QED
    BY <2>1, Least
<1>2. n \in Nat /\ ~ \E f : Joins(f, seqs, n)
  BY <1>1
<1>3. CASE n = 0
  <2> DEFINE f == [i \in 1 .. 0 |-> seqs[i]]
  <2>1. f = [i \in 1 .. 0 |-> IF i = 1 THEN seqs[i] ELSE f[i - 1] \o seqs[i]]
    OBVIOUS
  <2>2. Joins(f, seqs, 0)
    BY <2>1 DEF Joins
  <2> QED
    BY <1>2, <1>3, <2>2
<1>4. CASE n # 0
  <2>1. n - 1 \in Nat /\ n - 1 \notin Stuck
    BY <1>1, <1>2, <1>4
  <2>2. PICK f : Joins(f, seqs, n - 1)
    BY <2>1
  <2>3. f = [i \in 1 .. n - 1 |-> IF i = 1 THEN seqs[i] ELSE f[i - 1] \o seqs[i]]
    BY <2>2 DEF Joins
  <2> DEFINE last == IF n = 1 THEN seqs[n] ELSE f[n - 1] \o seqs[n]
             g == [i \in 1 .. n |-> IF i = n THEN last ELSE f[i]]
  <2>4. ASSUME NEW i \in 1 .. n
        PROVE  g[i] = IF i = 1 THEN seqs[i] ELSE g[i - 1] \o seqs[i]
    <3>1. CASE i = n
      <4>1. g[i] = last
        BY <3>1
      <4>2. n # 1 => g[n - 1] = f[n - 1]
        BY <1>2, <1>4
      <4> QED
        BY <3>1, <4>1, <4>2
    <3>2. CASE i # n
      <4>1. i \in 1 .. n - 1 /\ g[i] = f[i]
        BY <1>2, <3>2
      <4>2. i # 1 => g[i - 1] = f[i - 1]
        BY <1>2, <4>1
      <4>3. f[i] = IF i = 1 THEN seqs[i] ELSE f[i - 1] \o seqs[i]
        BY <2>3, <4>1
      <4> QED
        BY <4>1, <4>2, <4>3
    <3> QED
      BY <3>1, <3>2
  <2>5. g = [i \in 1 .. n |-> IF i = 1 THEN seqs[i] ELSE g[i - 1] \o seqs[i]]
    BY <2>4
  <2>6. Joins(g, seqs, n)
    BY <2>5 DEF Joins
  <2> QED
    BY <1>2, <2>6
<1> QED
  BY <1>3, <1>4

(* f is what the first of seqs are, one behind the other, from none to all. *)
Flattens(f, seqs) ==
  /\ f[0] = <<>>
  /\ \A i \in 1 .. Len(seqs) : f[i] = f[i - 1] \o seqs[i]

LEMMA FlattenIs ==
  ASSUME NEW S, NEW seqs \in Seq(Seq(S))
  PROVE  \E f : Flattens(f, seqs) /\ FlattenSeq(seqs) = f[Len(seqs)]
<1> DEFINE n == Len(seqs)
<1>0. n \in Nat
  OBVIOUS
<1>1. CASE n = 0
  <2> DEFINE f == [i \in 0 .. 0 |-> <<>>]
  <2>1. seqs = <<>> /\ FlattenSeq(seqs) = seqs
    BY <1>1 DEF FlattenSeq
  <2>2. Flattens(f, seqs)
    BY <1>1 DEF Flattens
  <2> QED
    BY <1>1, <2>1, <2>2
<1>2. CASE n # 0
  <2> DEFINE g == CHOOSE g : g = [i \in 1 .. n |-> IF i = 1 THEN seqs[i] ELSE g[i - 1] \o seqs[i]]
  <2>1. \E f : Joins(f, seqs, n)
    BY <1>0, JoinsRun
  <2>2. g = [i \in 1 .. n |-> IF i = 1 THEN seqs[i] ELSE g[i - 1] \o seqs[i]]
    BY <2>1 DEF Joins
  <2>3. FlattenSeq(seqs) = g[n]
    BY <1>2 DEF FlattenSeq
  <2> HIDE DEF g
  <2> DEFINE f == [i \in 0 .. n |-> IF i = 0 THEN <<>> ELSE g[i]]
  <2>4. ASSUME NEW i \in 1 .. n PROVE f[i] = f[i - 1] \o seqs[i]
    <3>0. i \in 0 .. n /\ i # 0
      BY <1>0
    <3>1. f[i] = g[i] /\ g[i] = IF i = 1 THEN seqs[i] ELSE g[i - 1] \o seqs[i]
      <4>1. f[i] = g[i]
        BY <3>0
      <4>2. g[i] = IF i = 1 THEN seqs[i] ELSE g[i - 1] \o seqs[i]
        BY <2>2
      <4> QED
        BY <4>1, <4>2
    <3>2. CASE i = 1
      <4>1. f[i - 1] = <<>> /\ f[i] = seqs[i]
        BY <1>0, <3>1, <3>2
      <4>2. seqs[i] \in Seq(S)
        OBVIOUS
      <4>3. <<>> \o seqs[i] = seqs[i]
        BY <4>2
      <4> QED
        BY <4>1, <4>3
    <3>3. CASE i # 1
      <4>1. f[i - 1] = g[i - 1]
        BY <1>0, <3>3
      <4> QED
        BY <3>1, <3>3, <4>1
    <3> QED
      BY <3>2, <3>3
  <2>5. Flattens(f, seqs)
    BY <2>4, SMTT(30) DEF Flattens
  <2>6. f[n] = g[n]
    BY <1>0, <1>2
  <2> QED
    BY <2>3, <2>5, <2>6
<1> QED
  BY <1>1, <1>2

(* A character of a name, and its kind.                                     *)
Kinds == {"small", "big", "digit", "composed", "decomposed", "mark"}

Character(text) == [of : text, kind : Kinds]

(* What a directory that EscapePath names is written with.                  *)
Lower(text) == [of : text \cup {"!"}, kind : {"small", "digit", "mark"}]

(* EscapePath, letter by letter.                                            *)
Code(c) == IF c.kind = "big" THEN <<Mark("!"), Char(c.of, "small")>> ELSE <<c>>

Codes(name) == [j \in DOMAIN name |-> Code(name[j])]

LEMMA CharacterIs ==
  ASSUME NEW text, NEW c \in Character(text)
  PROVE  c.kind \in Kinds /\ c.of \in text /\ c = [of |-> c.of, kind |-> c.kind]
BY DEF Character

LEMMA ConcatIs ==
  ASSUME NEW S, NEW p \in Seq(S), NEW c \in Seq(S)
  PROVE  /\ p \o c \in Seq(S) /\ Len(p \o c) = Len(p) + Len(c)
         /\ Len(p) \in Nat /\ Len(c) \in Nat
         /\ \A i \in 1 .. Len(p) : (p \o c)[i] = p[i]
         /\ \A i \in 1 .. Len(c) : (p \o c)[Len(p) + i] = c[i]
<1>1. /\ p \o c \in Seq(S) /\ Len(p \o c) = Len(p) + Len(c)
      /\ Len(p) \in Nat /\ Len(c) \in Nat
      /\ \A i \in 1 .. Len(p) + Len(c) :
           (p \o c)[i] = IF i <= Len(p) THEN p[i] ELSE c[i - Len(p)]
  BY ConcatProperties, LenProperties
<1>2. ASSUME NEW i \in 1 .. Len(p) PROVE (p \o c)[i] = p[i]
  <2>1. i \in 1 .. Len(p) + Len(c) /\ i <= Len(p)
    BY <1>1
  <2> QED
    BY <1>1, <2>1
<1>3. ASSUME NEW i \in 1 .. Len(c) PROVE (p \o c)[Len(p) + i] = c[i]
  <2>1. /\ Len(p) + i \in 1 .. Len(p) + Len(c) /\ ~ (Len(p) + i <= Len(p))
        /\ (Len(p) + i) - Len(p) = i
    BY <1>1
  <2> QED
    BY <1>1, <2>1
<1> QED
  BY <1>1, <1>2, <1>3

(* A letter is one character, or a mark and one; it does not end in a mark. *)
LEMMA CodeIs ==
  ASSUME NEW text, NEW name \in Seq(Character(text)), IsSafeSegment(name),
         NEW j \in 1 .. Len(name)
  PROVE  /\ Code(name[j]) \in Seq(Lower(text))
         /\ \/ /\ name[j].kind = "big" /\ Len(Code(name[j])) = 2
               /\ Code(name[j])[1] = Mark("!")
               /\ Code(name[j])[2] = Char(name[j].of, "small")
            \/ /\ name[j].kind # "big" /\ Len(Code(name[j])) = 1
               /\ Code(name[j])[1] = name[j] /\ name[j] # Mark("!")
<1> DEFINE c == name[j]
<1>1. /\ c \in Character(text) /\ c.kind \in Kinds /\ c.of \in text
      /\ c = [of |-> c.of, kind |-> c.kind]
  <2>1. c \in Character(text)
    OBVIOUS
  <2> HIDE DEF c
  <2> QED
    BY <2>1, CharacterIs
<1>2. c.kind \in {"small", "big", "digit"} \/ c \in {Mark(".git"), Mark("..")}
  BY DEF IsSafeSegment
<1>3. CASE c.kind = "big"
  <2>1. Code(c) = <<Mark("!"), Char(c.of, "small")>>
    BY <1>3 DEF Code
  <2>2. Mark("!") \in Lower(text) /\ Char(c.of, "small") \in Lower(text)
    BY <1>1 DEF Mark, Char, Lower
  <2> HIDE DEF c
  <2>3. /\ <<Mark("!"), Char(c.of, "small")>> \in Seq(Lower(text))
        /\ Len(<<Mark("!"), Char(c.of, "small")>>) = 2
    BY <2>2
  <2> QED
    BY <1>3, <2>1, <2>3 DEF c
<1>4. CASE c.kind # "big"
  <2>1. Code(c) = <<c>>
    BY <1>4 DEF Code
  <2>2. c \in Lower(text)
    BY <1>1, <1>2, <1>4 DEF Lower, Mark, Char
  <2>3. c # Mark("!")
    BY <1>2 DEF Mark, Char
  <2> HIDE DEF c
  <2>4. <<c>> \in Seq(Lower(text)) /\ Len(<<c>>) = 1
    BY <2>2
  <2> QED
    BY <1>4, <2>1, <2>3, <2>4 DEF c
<1> QED
  BY <1>3, <1>4

(* The escaped forms of the beginnings of a name.                           *)
LEMMA EscapedIs ==
  ASSUME NEW text, NEW name \in Seq(Character(text)), IsSafeSegment(name)
  PROVE  \E f : /\ Flattens(f, Codes(name)) /\ FlattenSeq(Codes(name)) = f[Len(name)]
                /\ \A i \in 0 .. Len(name) :
                     /\ f[i] \in Seq(Lower(text))
                     /\ f[i] # <<>> => f[i][Len(f[i])] # Mark("!")
<1> DEFINE codes == Codes(name)
<1>1. codes \in Seq(Seq(Lower(text))) /\ Len(codes) = Len(name)
      /\ \A j \in 1 .. Len(name) : codes[j] = Code(name[j])
  <2>1. codes = [j \in 1 .. Len(name) |-> Code(name[j])]
    BY DEF Codes
  <2>2. \A j \in 1 .. Len(name) : Code(name[j]) \in Seq(Lower(text))
    BY CodeIs
  <2>3. Len(name) \in Nat
    OBVIOUS
  <2> HIDE DEF codes
  <2> QED
    BY <2>1, <2>2, <2>3
<1> HIDE DEF codes
<1>2. PICK f : Flattens(f, codes) /\ FlattenSeq(codes) = f[Len(codes)]
  BY <1>1, FlattenIs
<1> DEFINE Good(i) == /\ f[i] \in Seq(Lower(text))
                      /\ f[i] # <<>> => f[i][Len(f[i])] # Mark("!")
           Bad == {i \in 0 .. Len(name) : ~ Good(i)}
<1>3. f[0] = <<>> /\ \A i \in 1 .. Len(name) : f[i] = f[i - 1] \o Code(name[i])
  BY <1>1, <1>2 DEF Flattens
<1>4. ASSUME NEW i \in 1 .. Len(name), f[i - 1] \in Seq(Lower(text)) PROVE Good(i)
  <2> DEFINE a == f[i - 1]
             b == Code(name[i])
             w == f[i]
  <2>1. /\ b \in Seq(Lower(text)) /\ Len(b) \in 1 .. 2 /\ b[Len(b)] # Mark("!")
    <3>1. \/ Len(b) = 2 /\ b[2] = Char(name[i].of, "small")
          \/ Len(b) = 1 /\ b[1] # Mark("!")
      BY CodeIs
    <3>2. Char(name[i].of, "small") # Mark("!")
      BY DEF Mark, Char
    <3>3. b \in Seq(Lower(text))
      BY CodeIs
    <3> HIDE DEF b
    <3> QED
      BY <3>1, <3>2, <3>3
  <2>2. a \in Seq(Lower(text)) /\ w = a \o b
    BY <1>3, <1>4
  <2> HIDE DEF a, b, w
  <2>3. w \in Seq(Lower(text)) /\ Len(w) = Len(a) + Len(b) /\ w[Len(a) + Len(b)] = b[Len(b)]
    BY <2>1, <2>2, ConcatIs
  <2>4. w # <<>> => w[Len(w)] # Mark("!")
    BY <2>1, <2>3
  <2> QED
    BY <2>3, <2>4 DEF w
<1>5. Bad = {}
  <2> SUFFICES ASSUME Bad # {} PROVE FALSE
    OBVIOUS
  <2>1. PICK i \in Bad : \A k \in Bad : i <= k
    <3>1. \A k \in Bad : k \in Nat
      OBVIOUS
    <3> HIDE DEF Bad
    <3> QED
      BY <3>1, Least
  <2>2. i \in 0 .. Len(name) /\ ~ Good(i)
    BY <2>1
  <2>3. i # 0
    <3>1. <<>> \in Seq(Lower(text))
      OBVIOUS
    <3>2. Good(0)
      BY <1>3, <3>1
    <3> QED
      BY <2>2, <3>2
  <2>4. i - 1 \in 0 .. Len(name) /\ i - 1 < i /\ i \in 1 .. Len(name)
    BY <2>2, <2>3
  <2>5. i - 1 \notin Bad
    BY <2>1, <2>2, <2>4
  <2>6. f[i - 1] \in Seq(Lower(text))
    BY <2>4, <2>5
  <2> HIDE DEF Good, Bad
  <2> QED
    BY <1>4, <2>2, <2>4, <2>6
<1>6. \A i \in 0 .. Len(name) : Good(i)
  BY <1>5
<1> QED
  BY <1>1, <1>2, <1>6 DEF codes

LEMMA EscapedIsLower ==
  ASSUME NEW text, NEW name \in Seq(Character(text)), IsSafeSegment(name)
  PROVE  FlattenSeq(Codes(name)) \in Seq(Lower(text))
<1>1. Len(name) \in 0 .. Len(name)
  OBVIOUS
<1> QED
  BY <1>1, EscapedIs

(* No volume takes what is written with Lower for anything else.            *)
LEMMA LowerIsSame ==
  ASSUME NEW text, NEW s \in Seq(Lower(text)), NEW t \in Seq(Lower(text)),
         NEW folds \in SUBSET Folds, SameName([folds |-> folds], s, t)
  PROVE  s = t
<1>1. /\ Len(s) = Len(t)
      /\ \A j \in DOMAIN s :
           s[j].of = t[j].of /\ (s[j].kind = t[j].kind \/ {s[j].kind, t[j].kind} \in folds)
  BY DEF SameName
<1>2. ASSUME NEW j \in 1 .. Len(s) PROVE s[j] = t[j]
  <2> DEFINE c == s[j]
             d == t[j]
  <2>1. c \in Lower(text) /\ d \in Lower(text) /\ j \in DOMAIN s
    BY <1>1
  <2>2. c.of = d.of /\ (c.kind = d.kind \/ {c.kind, d.kind} \in folds)
    BY <1>1, <2>1
  <2> HIDE DEF c, d
  <2>3. /\ c = [of |-> c.of, kind |-> c.kind] /\ d = [of |-> d.of, kind |-> d.kind]
        /\ c.kind \in {"small", "digit", "mark"} /\ d.kind \in {"small", "digit", "mark"}
    BY <2>1 DEF Lower
  <2>4. {c.kind, d.kind} \notin folds
    <3>1. "big" \notin {c.kind, d.kind} /\ "composed" \notin {c.kind, d.kind}
      BY <2>3
    <3>2. \A pair \in folds : "big" \in pair \/ "composed" \in pair
      BY DEF Folds
    <3> QED
      BY <3>1, <3>2
  <2> QED
    BY <2>2, <2>3, <2>4 DEF c, d
<1> QED
  BY <1>1, <1>2, SeqEqual

(* A sequence that ends with c.                                             *)
EndsWith(w, p, c) == w = p \o c

LEMMA FirstBehind ==
  ASSUME NEW S, NEW p \in Seq(S), NEW c \in Seq(S), Len(c) >= 1
  PROVE  (p \o c)[Len(p) + 1] = c[1]
<1>1. 1 \in 1 .. Len(c)
  BY LenProperties
<1> QED
  BY <1>1, ConcatIs

LEMMA EndsWithIs ==
  ASSUME NEW S, NEW p \in Seq(S), NEW c \in Seq(S), NEW w, EndsWith(w, p, c)
  PROVE  /\ Len(w) = Len(p) + Len(c)
         /\ \A i \in 1 .. Len(p) : w[i] = p[i]
         /\ \A i \in 1 .. Len(c) : w[Len(p) + i] = c[i]
         /\ Len(c) >= 1 => w[Len(p) + 1] = c[1]
<1>1. w = p \o c
  BY DEF EndsWith
<1> DEFINE v == p \o c
<1>2. /\ Len(v) = Len(p) + Len(c)
      /\ \A i \in 1 .. Len(p) : v[i] = p[i]
      /\ \A i \in 1 .. Len(c) : v[Len(p) + i] = c[i]
      /\ Len(c) >= 1 => v[Len(p) + 1] = c[1]
  BY ConcatIs, FirstBehind
<1>3. w = v
  BY <1>1
<1> HIDE DEF v
<1> QED
  BY <1>2, <1>3

(* Two ways to end a sequence.                                              *)
LEMMA EndsAreSame ==
  ASSUME NEW S, NEW p \in Seq(S), NEW q \in Seq(S), NEW c \in Seq(S), NEW d \in Seq(S),
         NEW w, EndsWith(w, p, c), EndsWith(w, q, d), Len(c) = Len(d)
  PROVE  p = q /\ c = d
<1>1. /\ Len(w) = Len(p) + Len(c)
      /\ \A i \in 1 .. Len(p) : w[i] = p[i]
      /\ \A i \in 1 .. Len(c) : w[Len(p) + i] = c[i]
  BY EndsWithIs
<1>2. /\ Len(w) = Len(q) + Len(d)
      /\ \A i \in 1 .. Len(q) : w[i] = q[i]
      /\ \A i \in 1 .. Len(d) : w[Len(q) + i] = d[i]
  BY EndsWithIs
<1>3. Len(p) = Len(q)
  BY <1>1, <1>2, LenProperties
<1>4. p = q
  BY <1>1, <1>2, <1>3, SeqEqual
<1>5. c = d
  BY <1>1, <1>2, <1>3, SeqEqual
<1> QED
  BY <1>4, <1>5

(* A mark belongs to the letter behind it.                                  *)
LEMMA MarkIsInside ==
  ASSUME NEW S, NEW p \in Seq(S), NEW q \in Seq(S), NEW c \in Seq(S), NEW d \in Seq(S),
         NEW w, EndsWith(w, p, c), EndsWith(w, q, d)
  PROVE  Len(c) = 2 /\ Len(d) = 1 => q # <<>> /\ q[Len(q)] = c[1]
<1>1. Len(w) = Len(p) + Len(c) /\ (Len(c) >= 1 => w[Len(p) + 1] = c[1])
  BY EndsWithIs
<1>2. Len(w) = Len(q) + Len(d) /\ \A i \in 1 .. Len(q) : w[i] = q[i]
  BY EndsWithIs
<1>3. Len(p) \in Nat /\ Len(q) \in Nat
  BY LenProperties
<1> HAVE Len(c) = 2 /\ Len(d) = 1
<1>4. Len(q) = Len(p) + 1 /\ Len(q) \in 1 .. Len(q)
  BY <1>1, <1>2, <1>3
<1> QED
  BY <1>1, <1>2, <1>4

(* No escaped beginning of one name is that of another name.                *)
LEMMA EscapesDiffer ==
  ASSUME NEW text, NEW a \in Seq(Character(text)), NEW b \in Seq(Character(text)),
         IsSafeSegment(a), IsSafeSegment(b), FlattenSeq(Codes(a)) = FlattenSeq(Codes(b))
  PROVE  a = b
<1>1. PICK f : /\ Flattens(f, Codes(a)) /\ FlattenSeq(Codes(a)) = f[Len(a)]
               /\ \A i \in 0 .. Len(a) :
                    /\ f[i] \in Seq(Lower(text))
                    /\ f[i] # <<>> => f[i][Len(f[i])] # Mark("!")
  BY EscapedIs
<1>2. PICK g : /\ Flattens(g, Codes(b)) /\ FlattenSeq(Codes(b)) = g[Len(b)]
               /\ \A i \in 0 .. Len(b) :
                    /\ g[i] \in Seq(Lower(text))
                    /\ g[i] # <<>> => g[i][Len(g[i])] # Mark("!")
  BY EscapedIs
<1>3. /\ f[0] = <<>> /\ \A i \in 1 .. Len(a) : f[i] = f[i - 1] \o Code(a[i])
      /\ g[0] = <<>> /\ \A i \in 1 .. Len(b) : g[i] = g[i - 1] \o Code(b[i])
  <2>1. DOMAIN a = 1 .. Len(a) /\ DOMAIN b = 1 .. Len(b) /\ Len(a) \in Nat /\ Len(b) \in Nat
    OBVIOUS
  <2>2. /\ Codes(a) = [j \in 1 .. Len(a) |-> Code(a[j])]
        /\ Codes(b) = [j \in 1 .. Len(b) |-> Code(b[j])]
    BY <2>1 DEF Codes
  <2>3. Len(Codes(a)) = Len(a) /\ Len(Codes(b)) = Len(b)
    BY <2>1, <2>2
  <2> QED
    BY <1>1, <1>2, <2>2, <2>3 DEF Flattens
<1> DEFINE Same(m, n) == m = n /\ \A j \in 1 .. m : a[j] = b[j]
           Bad == {m \in 0 .. Len(a) : \E n \in 0 .. Len(b) : f[m] = g[n] /\ ~ Same(m, n)}
<1>4. \A m \in 1 .. Len(a) : f[m] # <<>>
  <2> SUFFICES ASSUME NEW m \in 1 .. Len(a) PROVE f[m] # <<>>
    OBVIOUS
  <2> DEFINE p == f[m - 1]
             c == Code(a[m])
  <2>1. c \in Seq(Lower(text)) /\ Len(c) >= 1
    BY CodeIs
  <2>2. m - 1 \in 0 .. Len(a)
    OBVIOUS
  <2>3. p \in Seq(Lower(text)) /\ f[m] = p \o c
    BY <1>1, <1>3, <2>2
  <2> HIDE DEF p, c
  <2>4. Len(p \o c) >= 1
    BY <2>1, <2>3, ConcatIs
  <2> QED
    BY <2>3, <2>4
<1>5. \A n \in 1 .. Len(b) : g[n] # <<>>
  <2> SUFFICES ASSUME NEW n \in 1 .. Len(b) PROVE g[n] # <<>>
    OBVIOUS
  <2> DEFINE p == g[n - 1]
             c == Code(b[n])
  <2>1. c \in Seq(Lower(text)) /\ Len(c) >= 1
    BY CodeIs
  <2>2. n - 1 \in 0 .. Len(b)
    OBVIOUS
  <2>3. p \in Seq(Lower(text)) /\ g[n] = p \o c
    BY <1>2, <1>3, <2>2
  <2> HIDE DEF p, c
  <2>4. Len(p \o c) >= 1
    BY <2>1, <2>3, ConcatIs
  <2> QED
    BY <2>3, <2>4
<1>6. ASSUME NEW m \in 1 .. Len(a), NEW n \in 1 .. Len(b), f[m] = g[n]
      PROVE  a[m] = b[n] /\ f[m - 1] = g[n - 1]
  <2> DEFINE p == f[m - 1]
             q == g[n - 1]
             c == Code(a[m])
             d == Code(b[n])
  <2>1. /\ p \in Seq(Lower(text))
        /\ p # <<>> => p[Len(p)] # Mark("!")
        /\ q \in Seq(Lower(text))
        /\ q # <<>> => q[Len(q)] # Mark("!")
        /\ f[m] = p \o c
        /\ f[m] = q \o d
    <3>1. m - 1 \in 0 .. Len(a) /\ n - 1 \in 0 .. Len(b)
      OBVIOUS
    <3> QED
      BY <1>1, <1>2, <1>3, <1>6, <3>1
  <2>2. /\ c \in Seq(Lower(text)) /\ d \in Seq(Lower(text))
        /\ \/ /\ a[m].kind = "big" /\ Len(c) = 2 /\ c[1] = Mark("!")
              /\ c[2] = Char(a[m].of, "small")
           \/ a[m].kind # "big" /\ Len(c) = 1 /\ c[1] = a[m] /\ a[m] # Mark("!")
        /\ \/ /\ b[n].kind = "big" /\ Len(d) = 2 /\ d[1] = Mark("!")
              /\ d[2] = Char(b[n].of, "small")
           \/ b[n].kind # "big" /\ Len(d) = 1 /\ d[1] = b[n] /\ b[n] # Mark("!")
    BY CodeIs
  <2>3. /\ a[m] = [of |-> a[m].of, kind |-> a[m].kind]
        /\ b[n] = [of |-> b[n].of, kind |-> b[n].kind]
    <3>1. a[m] \in Character(text) /\ b[n] \in Character(text)
      OBVIOUS
    <3> QED
      BY <3>1, CharacterIs
  <2> HIDE DEF p, q, c, d
  <2>7. /\ p \in Seq(Lower(text)) /\ q \in Seq(Lower(text))
        /\ c \in Seq(Lower(text)) /\ d \in Seq(Lower(text))
        /\ EndsWith(f[m], p, c) /\ EndsWith(f[m], q, d)
    BY <2>1, <2>2 DEF EndsWith
  <2>4. Len(c) = Len(d)
    <3>1. CASE Len(c) = 2 /\ Len(d) = 1 /\ c[1] = Mark("!")
      <4>1. q # <<>> /\ q[Len(q)] = c[1]
        BY <2>7, <3>1, MarkIsInside
      <4> QED
        BY <2>1, <3>1, <4>1
    <3>2. CASE Len(d) = 2 /\ Len(c) = 1 /\ d[1] = Mark("!")
      <4>1. p # <<>> /\ p[Len(p)] = d[1]
        BY <2>7, <3>2, MarkIsInside
      <4> QED
        BY <2>1, <3>2, <4>1
    <3> QED
      BY <2>2, <3>1, <3>2
  <2>5. p = q /\ c = d
    BY <2>4, <2>7, EndsAreSame
  <2>6. a[m] = b[n]
    BY <2>2, <2>3, <2>4, <2>5 DEF Char
  <2> QED
    BY <2>5, <2>6 DEF p, q
<1>7. Bad = {}
  <2> SUFFICES ASSUME Bad # {} PROVE FALSE
    OBVIOUS
  <2>1. PICK m \in Bad : \A k \in Bad : m <= k
    <3>1. \A k \in Bad : k \in Nat
      OBVIOUS
    <3> HIDE DEF Bad
    <3> QED
      BY <3>1, Least
  <2>2. PICK n \in 0 .. Len(b) : f[m] = g[n] /\ ~ Same(m, n)
    BY <2>1
  <2>3. m \in 0 .. Len(a)
    BY <2>1
  <2>4. m # 0 /\ n # 0
    <3>1. (m = 0 <=> f[m] = <<>>) /\ (n = 0 <=> g[n] = <<>>)
      BY <1>3, <1>4, <1>5, <2>2, <2>3
    <3>2. Same(0, 0)
      OBVIOUS
    <3> HIDE DEF Same
    <3> QED
      BY <2>2, <3>1, <3>2
  <2>5. /\ m - 1 \in 0 .. Len(a) /\ m - 1 < m /\ m \in 1 .. Len(a)
        /\ n - 1 \in 0 .. Len(b) /\ n \in 1 .. Len(b)
    BY <2>2, <2>3, <2>4
  <2>6. a[m] = b[n] /\ f[m - 1] = g[n - 1]
    BY <1>6, <2>2, <2>5
  <2>7. Same(m - 1, n - 1)
    <3>1. m - 1 \notin Bad
      BY <2>1, <2>3, <2>5
    <3> HIDE DEF Same
    <3> QED
      BY <2>5, <2>6, <3>1
  <2>8. m = n /\ \A j \in 1 .. m : j \in 1 .. m - 1 \/ j = m
    BY <2>5, <2>7
  <2>9. \A j \in 1 .. m : a[j] = b[j]
    BY <2>6, <2>7, <2>8
  <2> QED
    BY <2>2, <2>8, <2>9
<1>8. Same(Len(a), Len(b))
  <2>1. Len(a) \in 0 .. Len(a) /\ Len(b) \in 0 .. Len(b) /\ f[Len(a)] = g[Len(b)]
    <3>1. Len(a) \in Nat /\ Len(b) \in Nat
      OBVIOUS
    <3>2. f[Len(a)] = g[Len(b)]
      BY <1>1, <1>2
    <3> QED
      BY <3>1, <3>2
  <2>2. Len(a) \notin Bad
    BY <1>7
  <2> HIDE DEF Same
  <2> QED
    BY <2>1, <2>2
<1> QED
  BY <1>8, SeqEqual

SafeKey(key, text) ==
  key \in Seq(Seq(Character(text))) /\ \A i \in DOMAIN key : IsSafeSegment(key[i])

SameDirectory(folds, key, other) ==
  /\ Len(EscapePath(key)) = Len(EscapePath(other))
  /\ \A i \in DOMAIN EscapePath(key) :
       SameName([folds |-> folds], EscapePath(key)[i], EscapePath(other)[i])

LEMMA OneDirectoryOneKey ==
  ASSUME NEW text, NEW key, NEW other, SafeKey(key, text), SafeKey(other, text),
         NEW folds, folds \in SUBSET Folds, SameDirectory(folds, key, other)
  PROVE  key = other
<1>0. /\ key \in Seq(Seq(Character(text))) /\ other \in Seq(Seq(Character(text)))
      /\ \A i \in DOMAIN key : IsSafeSegment(key[i])
      /\ \A i \in DOMAIN other : IsSafeSegment(other[i])
      /\ Len(EscapePath(key)) = Len(EscapePath(other))
      /\ \A i \in DOMAIN EscapePath(key) :
           SameName([folds |-> folds], EscapePath(key)[i], EscapePath(other)[i])
  BY DEF SafeKey, SameDirectory
<1>1. /\ DOMAIN key = 1 .. Len(key) /\ DOMAIN other = 1 .. Len(other)
      /\ Len(key) \in Nat /\ Len(other) \in Nat
  BY <1>0
<1>2. /\ EscapePath(key) = [i \in 1 .. Len(key) |-> FlattenSeq(Codes(key[i]))]
      /\ EscapePath(other) = [i \in 1 .. Len(other) |-> FlattenSeq(Codes(other[i]))]
  BY <1>1, Zenon DEF EscapePath, Codes, Code
<1>3. Len(key) = Len(other)
  BY <1>0, <1>1, <1>2
<1>4. ASSUME NEW i \in 1 .. Len(key) PROVE key[i] = other[i]
  <2> DEFINE s == FlattenSeq(Codes(key[i]))
             t == FlattenSeq(Codes(other[i]))
  <2>1. /\ key[i] \in Seq(Character(text)) /\ IsSafeSegment(key[i])
        /\ other[i] \in Seq(Character(text)) /\ IsSafeSegment(other[i])
    <3>1. i \in DOMAIN key /\ i \in DOMAIN other
      BY <1>1, <1>3
    <3> QED
      BY <1>0, <3>1, ElementOfSeq, <1>1
  <2>2. SameName([folds |-> folds], s, t)
    BY <1>0, <1>1, <1>2, <1>3
  <2>3. s \in Seq(Lower(text)) /\ t \in Seq(Lower(text))
    BY <2>1, EscapedIsLower
  <2> HIDE DEF s, t
  <2>4. s = t
    BY <2>2, <2>3, LowerIsSame
  <2> QED
    BY <2>1, <2>4, EscapesDiffer DEF s, t
<1> QED
  BY <1>0, <1>3, <1>4, SeqEqual

(* EscapePath: two keys whose directories have the same names on any volume *)
(* are one key, whether the volume folds case, accents, both or neither.    *)
THEOREM KeysStayApart ==
  ASSUME NEW text, NEW key \in Seq(Seq(Character(text))), NEW other \in Seq(Seq(Character(text))),
         \A i \in DOMAIN key : IsSafeSegment(key[i]),
         \A i \in DOMAIN other : IsSafeSegment(other[i]),
         NEW folds \in SUBSET Folds,
         Len(EscapePath(key)) = Len(EscapePath(other)),
         \A i \in DOMAIN EscapePath(key) :
           SameName([folds |-> folds], EscapePath(key)[i], EscapePath(other)[i])
  PROVE  key = other
<1>1. SafeKey(key, text) /\ SafeKey(other, text)
  BY DEF SafeKey
<1>2. SameDirectory(folds, key, other)
  BY DEF SameDirectory
<1>3. folds \in SUBSET Folds
  OBVIOUS
<1> QED
  BY <1>1, <1>2, <1>3, OneDirectoryOneKey

-----------------------------------------------------------------------------
(* The signing of a clone.                                                  *)

(* What a command may be.                                                   *)
Gits == {Ask("signers"), Ask("key"), Ask("sign"), Write("signers")}
          \cup {Write(s) : s \in Range(Settings)}

LEMMA SettingsAre ==
  /\ DOMAIN Settings = 1 .. 4 /\ Len(Settings) = 4
  /\ Settings[1] = "format" /\ Settings[2] = "key"
  /\ Settings[3] = "sign" /\ Settings[4] = "tags"
  /\ Range(Settings) = {"format", "key", "sign", "tags"}
<1>1. /\ DOMAIN Settings = 1 .. 4 /\ Len(Settings) = 4
      /\ Settings[1] = "format" /\ Settings[2] = "key"
      /\ Settings[3] = "sign" /\ Settings[4] = "tags"
  BY DEF Settings
<1>2. 1 .. 4 = {1, 2, 3, 4}
  OBVIOUS
<1> QED
  BY <1>1, <1>2 DEF Range

LEMMA OneOrNone ==
  ASSUME NEW S, NEW e \in S
  PROVE  <<e>> \in Seq(S) /\ <<>> \in Seq(S)
OBVIOUS

(* What is asked or written before the key is asked for, and from there.    *)
Prelude(machine) ==
  Asked(machine, "signers")
    \o (IF Resolves(machine, "signers") THEN <<Write("signers")>> ELSE <<>>)
    \o Asked(machine, "key")

Writes == [i \in DOMAIN Settings |-> Write(Settings[i])]

LEMMA WritesAre ==
  /\ Writes \in Seq(Gits) /\ Len(Writes) = 4
  /\ \A i \in 1 .. 4 : Writes[i] = Write(Settings[i])
<1>1. Writes = [i \in 1 .. 4 |-> Write(Settings[i])]
  BY SettingsAre DEF Writes
<1>2. \A i \in 1 .. 4 : Write(Settings[i]) \in Gits
  <2>1. \A i \in 1 .. 4 : Settings[i] \in Range(Settings)
    BY SettingsAre DEF Range
  <2> QED
    BY <2>1 DEF Gits
<1> QED
  BY <1>1, <1>2

LEMMA BeforeIs ==
  ASSUME NEW machine
  PROVE  /\ Prelude(machine) \in Seq(Gits)
         /\ \A i \in 1 .. Len(Prelude(machine)) :
              /\ Prelude(machine)[i] \notin {Write(s) : s \in Range(Settings)}
              /\ Prelude(machine)[i] = Write("signers") => Resolves(machine, "signers")
<1> DEFINE a == Asked(machine, "signers")
           b == IF Resolves(machine, "signers") THEN <<Write("signers")>> ELSE <<>>
           c == Asked(machine, "key")
           Fits(e) == /\ e \in Gits
                      /\ e \notin {Write(s) : s \in Range(Settings)}
                      /\ e = Write("signers") => Resolves(machine, "signers")
           F == {e \in Gits : Fits(e)}
<1>1. /\ Fits(Ask("signers")) /\ Fits(Ask("key"))
      /\ Resolves(machine, "signers") => Fits(Write("signers"))
  BY SettingsAre DEF Ask, Write, Gits
<1>2. a \in Seq(F) /\ b \in Seq(F) /\ c \in Seq(F)
  <2>1. /\ Ask("signers") \in F /\ Ask("key") \in F
        /\ Resolves(machine, "signers") => Write("signers") \in F
    BY <1>1
  <2> HIDE DEF F
  <2>2. a \in {<<>>, <<Ask("signers")>>} /\ c \in {<<>>, <<Ask("key")>>}
    BY DEF Asked
  <2>3. b = <<>> \/ (Resolves(machine, "signers") /\ b = <<Write("signers")>>)
    OBVIOUS
  <2> HIDE DEF a, b, c
  <2> QED
    BY <2>1, <2>2, <2>3, OneOrNone
<1> HIDE DEF a, b, c, F
<1>3. a \o b \in Seq(F)
  BY <1>2, ConcatIs
<1>4. (a \o b) \o c \in Seq(F)
  BY <1>2, <1>3, ConcatIs
<1>5. Prelude(machine) = (a \o b) \o c
  BY DEF Prelude, a, b, c
<1>6. Prelude(machine) \in Seq(F)
  BY <1>4, <1>5
<1>7. \A i \in 1 .. Len(Prelude(machine)) : Prelude(machine)[i] \in F
  BY <1>6
<1>8. F \subseteq Gits
  BY DEF F
<1>9. Prelude(machine) \in Seq(Gits)
  BY <1>6, <1>8
<1> QED
  BY <1>7, <1>9 DEF F

(* Where a setting is written: behind all that is before, in its turn, and  *)
(* only if there is a key.                                                  *)
LEMMA WrittenAt ==
  ASSUME NEW machine
  PROVE  \E p \in Nat :
           /\ Resolves(machine, "key") =>
                /\ Len(Commands(machine)) = p + 4
                /\ \A j \in 1 .. 4 : \A i \in 1 .. p + 4 :
                     Commands(machine)[i] = Write(Settings[j]) <=> i = p + j
           /\ ~ Resolves(machine, "key") =>
                /\ Len(Commands(machine)) = p + 1
                /\ \A j \in 1 .. 4 : \A i \in 1 .. p + 1 :
                     Commands(machine)[i] # Write(Settings[j])
           /\ \A i \in 1 .. Len(Commands(machine)) :
                Commands(machine)[i] = Write("signers") => Resolves(machine, "signers")
<1> DEFINE b == Prelude(machine)
           p == Len(b)
           d == IF Resolves(machine, "key") THEN Writes ELSE <<Ask("sign")>>
           c == b \o d
<1>1. Commands(machine) = c
  BY DEF Commands, Prelude, Writes
<1>2. /\ b \in Seq(Gits) /\ p \in Nat
      /\ \A i \in 1 .. p :
              /\ b[i] \notin {Write(s) : s \in Range(Settings)}
              /\ b[i] = Write("signers") => Resolves(machine, "signers")
  BY BeforeIs
<1>3. \A j \in 1 .. 4 : Write(Settings[j]) \in {Write(s) : s \in Range(Settings)}
  BY SettingsAre
<1>4. d \in Seq(Gits)
  <2>1. Ask("sign") \in Gits
    BY DEF Gits
  <2> QED
    BY <2>1, WritesAre, OneOrNone
<1>5. /\ Len(c) = p + Len(d)
      /\ \A i \in 1 .. p : c[i] = b[i]
      /\ \A i \in 1 .. Len(d) : c[p + i] = d[i]
  BY <1>2, <1>4, ConcatIs
<1>6. /\ \A j \in 1 .. 4 : Write(Settings[j]) # Ask("sign")
      /\ \A j \in 1 .. 4 : Write(Settings[j]) # Write("signers")
      /\ Write("signers") # Ask("sign")
      /\ \A j, k \in 1 .. 4 : Write(Settings[j]) = Write(Settings[k]) => j = k
  BY SettingsAre DEF Write, Ask
<1>7. Resolves(machine, "key") => Len(d) = 4 /\ \A i \in 1 .. 4 : d[i] = Write(Settings[i])
  BY WritesAre
<1>8. ~ Resolves(machine, "key") => Len(d) = 1 /\ d[1] = Ask("sign")
  OBVIOUS
<1> HIDE DEF b, p, c, d
<1>9. \A i \in 1 .. p : \A j \in 1 .. 4 : c[i] # Write(Settings[j])
  BY <1>2, <1>3, <1>5
<1>10. ASSUME Resolves(machine, "key")
       PROVE  /\ Len(c) = p + 4
              /\ \A j \in 1 .. 4 : \A i \in 1 .. p + 4 : c[i] = Write(Settings[j]) <=> i = p + j
              /\ \A i \in 1 .. Len(c) : c[i] = Write("signers") => Resolves(machine, "signers")
  <2>1. Len(c) = p + 4 /\ \A i \in 1 .. 4 : c[p + i] = Write(Settings[i])
    BY <1>10, <1>5, <1>7
  <2>2. \A i \in 1 .. p + 4 : i \in 1 .. p \/ \E k \in 1 .. 4 : i = p + k
    <3> SUFFICES ASSUME NEW i \in 1 .. p + 4, i \notin 1 .. p PROVE \E k \in 1 .. 4 : i = p + k
      OBVIOUS
    <3>1. i - p \in 1 .. 4 /\ i = p + (i - p)
      BY <1>2
    <3> QED
      BY <3>1
  <2>3. ASSUME NEW j \in 1 .. 4, NEW i \in 1 .. p + 4
        PROVE  c[i] = Write(Settings[j]) <=> i = p + j
    <3>1. CASE i \in 1 .. p
      BY <1>2, <1>9, <3>1
    <3>2. ASSUME NEW k \in 1 .. 4, i = p + k PROVE c[i] = Write(Settings[j]) <=> i = p + j
      <4>1. c[i] = Write(Settings[k])
        BY <2>1, <3>2
      <4>2. p + k = p + j <=> k = j
        BY <1>2
      <4> QED
        BY <1>6, <3>2, <4>1, <4>2
    <3> QED
      BY <2>2, <3>1, <3>2
  <2>4. ASSUME NEW i \in 1 .. p + 4, c[i] = Write("signers")
        PROVE  Resolves(machine, "signers")
    <3>1. CASE i \in 1 .. p
      BY <1>2, <1>5, <2>4, <3>1
    <3>2. ASSUME NEW k \in 1 .. 4, i = p + k PROVE FALSE
      BY <1>6, <2>1, <2>4, <3>2
    <3> QED
      BY <2>2, <3>1, <3>2
  <2> QED
    BY <2>1, <2>3, <2>4
<1>11. ASSUME ~ Resolves(machine, "key")
       PROVE  /\ Len(c) = p + 1
              /\ \A j \in 1 .. 4 : \A i \in 1 .. p + 1 : c[i] # Write(Settings[j])
              /\ \A i \in 1 .. Len(c) : c[i] = Write("signers") => Resolves(machine, "signers")
  <2>1. Len(c) = p + 1 /\ c[p + 1] = Ask("sign")
    <3>1. Len(d) = 1 /\ 1 \in 1 .. Len(d)
      BY <1>11, <1>8
    <3> QED
      BY <1>11, <1>5, <1>8, <3>1
  <2>2. \A i \in 1 .. p + 1 : i \in 1 .. p \/ i = p + 1
    BY <1>2
  <2> QED
    BY <1>2, <1>5, <1>6, <1>9, <2>1, <2>2
<1> QED
  BY <1>1, <1>2, <1>10, <1>11
(* A call of StampSigning, and its answer.                                  *)
SigningInv ==
  input.call = "sign" =>
    /\ input.machine \in Machines /\ input.n \in 0 .. Len(Commands(input.machine))
    /\ \/ output = Waiting
       \/ output = [stamp |-> StampSigning(input.machine, input.n),
                    told |-> Told(StampSigning(input.machine, input.n))]

(* What is left behind by the first n commands: of the settings a beginning,*)
(* and all of them only when nothing failed and there is a key.             *)
LEMMA StampIs ==
  ASSUME NEW machine \in Machines, NEW n \in 0 .. Len(Commands(machine))
  PROVE  LET stamp == StampSigning(machine, n)
             local == stamp.local
             signs == SignsCommits(machine, local)
         IN  /\ Told(stamp) = "warning" \/ (signs <=> Told(stamp) \in {"on", "inherited"})
             /\ Told(stamp) = "warning" \/ local \ {"signers"} \in {{}, Range(Settings)}
             /\ Told(stamp) = "on" => Range(Settings) \subseteq local
             /\ Told(stamp) = "inherited" => local \subseteq {"signers"}
             /\ {"sign", "tags"} \cap local # {} => {"format", "key"} \subseteq local
             /\ "signers" \in local => Resolves(machine, "signers")
<1> DEFINE c == Commands(machine)
           stamp == StampSigning(machine, n)
           local == {s \in Range(Settings) \cup {"signers"} : \E i \in 1 .. n : c[i] = Write(s)}
           failed == n < Len(c)
           stamped == ~ failed /\ Resolves(machine, "key")
           inherited == ~ failed /\ ~ stamped /\ SignsCommits(machine, local)
<1>1. /\ stamp.local = local /\ stamp.failed = failed /\ stamp.key = stamped
      /\ stamp.inherited = inherited
  BY DEF StampSigning
<1>2. PICK p \in Nat :
           /\ Resolves(machine, "key") =>
                /\ Len(c) = p + 4
                /\ \A j \in 1 .. 4 : \A i \in 1 .. p + 4 :
                     c[i] = Write(Settings[j]) <=> i = p + j
           /\ ~ Resolves(machine, "key") =>
                /\ Len(c) = p + 1
                /\ \A j \in 1 .. 4 : \A i \in 1 .. p + 1 : c[i] # Write(Settings[j])
           /\ \A i \in 1 .. Len(c) :
                c[i] = Write("signers") => Resolves(machine, "signers")
  BY WrittenAt
<1>3. local \subseteq {"format", "key", "sign", "tags", "signers"}
  BY SettingsAre
<1>4. "signers" \in local => Resolves(machine, "signers")
  <2>1. \A i \in 1 .. n : i \in 1 .. Len(c)
    BY <1>2
  <2> QED
    BY <1>2, <2>1
<1>5. Told(stamp) = IF failed THEN "warning" ELSE IF stamped THEN "on"
                    ELSE IF inherited THEN "inherited" ELSE "off"
  BY <1>1 DEF Told
<1>6. \A s \in {"format", "key", "sign", "tags"} :
         s \in local <=> \E i \in 1 .. n : c[i] = Write(s)
  BY SettingsAre
<1>7. CASE Resolves(machine, "key")
  <2>1. \A j \in 1 .. 4 : Settings[j] \in local <=> p + j <= n
    <3>1. \A j \in 1 .. 4 : Settings[j] \in {"format", "key", "sign", "tags"}
      BY SettingsAre
    <3>2. Len(c) = p + 4 /\ n \in 0 .. p + 4
      BY <1>2, <1>7
    <3>3. \A i \in 1 .. n : i \in 1 .. p + 4
      BY <3>2
    <3>4. \A j \in 1 .. 4 : p + j \in 1 .. p + 4 /\ (p + j <= n <=> p + j \in 1 .. n)
      BY <3>2
    <3>5. \A j \in 1 .. 4 : \A i \in 1 .. p + 4 : c[i] = Write(Settings[j]) <=> i = p + j
      BY <1>2, <1>7
    <3> HIDE DEF c, local
    <3>6. ASSUME NEW j \in 1 .. 4 PROVE Settings[j] \in local <=> p + j <= n
      <4>1. Settings[j] \in local <=> \E i \in 1 .. n : c[i] = Write(Settings[j])
        BY <1>6, <3>1
      <4>2. (\E i \in 1 .. n : c[i] = Write(Settings[j])) <=> p + j \in 1 .. n
        BY <3>3, <3>4, <3>5
      <4> QED
        BY <3>4, <4>1, <4>2
    <3> QED
      BY <3>6
  <2>2. /\ "format" \in local <=> p + 1 <= n
        /\ "key" \in local <=> p + 2 <= n
        /\ "sign" \in local <=> p + 3 <= n
        /\ "tags" \in local <=> p + 4 <= n
    BY <2>1, SettingsAre
  <2>3. failed <=> n < p + 4
    BY <1>2, <1>7
  <2> HIDE DEF c, stamp, local, failed
  <2>4. {"sign", "tags"} \cap local # {} => {"format", "key"} \subseteq local
    BY <2>2
  <2>5. ~ failed => {"format", "key", "sign", "tags"} \subseteq local
    BY <2>2, <2>3
  <2>6. Told(stamp) = IF failed THEN "warning" ELSE "on"
    BY <1>5, <1>7
  <2>7. ~ failed => local \ {"signers"} = {"format", "key", "sign", "tags"}
    BY <1>3, <2>5
  <2>8. /\ Told(stamp) = "warning" \/ ("sign" \in local /\ Told(stamp) = "on")
        /\ Told(stamp) = "warning" \/ local \ {"signers"} = Range(Settings)
        /\ Told(stamp) = "on" => Range(Settings) \subseteq local
        /\ Told(stamp) # "inherited"
    BY <2>5, <2>6, <2>7, SettingsAre
  <2> QED
    BY <1>1, <1>4, <2>4, <2>8 DEF SignsCommits, stamp
<1>8. CASE ~ Resolves(machine, "key")
  <2>1. \A s \in {"format", "key", "sign", "tags"} : s \notin local
    <3>1. Len(c) = p + 1 /\ n \in 0 .. p + 1
      BY <1>2, <1>8
    <3>2. \A i \in 1 .. n : i \in 1 .. p + 1
      BY <3>1
    <3>3. \A s \in {"format", "key", "sign", "tags"} : \E j \in 1 .. 4 : s = Settings[j]
      BY SettingsAre
    <3> HIDE DEF c, local
    <3> QED
      BY <1>2, <1>6, <1>8, <3>2, <3>3
  <2> HIDE DEF c, stamp, local, failed
  <2>2. local \subseteq {"signers"}
    BY <1>3, <2>1
  <2>3. Told(stamp) = IF failed THEN "warning"
                      ELSE IF SignsCommits(machine, local) THEN "inherited" ELSE "off"
    BY <1>5, <1>8
  <2>4. local \ {"signers"} = {} /\ {"sign", "tags"} \cap local = {}
    BY <2>1, <2>2
  <2> QED
    BY <1>1, <1>4, <2>2, <2>3, <2>4 DEF stamp
<1> QED
  BY <1>7, <1>8

(* StampSigning, reportSigning: on any machine, and whichever git command   *)
(* fails, a clone is said to sign if and only if it does, and it is never   *)
(* left signing without a format and a key.                                 *)
THEOREM SigningIsReported == Spec => []SigningIsTold
<1>1. Init => SigningInv
  BY Called DEF SigningInv
<1>2. SigningInv /\ [Next]_vars => SigningInv'
  BY Answered DEF vars, SigningInv, StampClone
<1>3. SigningInv => SigningIsTold
  <2> SUFFICES ASSUME SigningInv, Done("sign") PROVE SigningIsTold
    BY DEF SigningIsTold
  <2> DEFINE stamp == StampSigning(input.machine, input.n)
  <2>1. /\ input.machine \in Machines /\ input.n \in 0 .. Len(Commands(input.machine))
        /\ output.stamp = stamp /\ output.told = Told(stamp)
    BY DEF SigningInv, Done
  <2> HIDE DEF stamp
  <2> QED
    BY <2>1, StampIs DEF SigningIsTold, stamp
<1> QED
  BY <1>1, <1>2, <1>3, PTL DEF Spec

-----------------------------------------------------------------------------
(* Folds.  A fold over a sequence is defined over all sets of its places,   *)
(* of which it takes the first or the last away.  What it takes, and what   *)
(* it makes of it, are tables here, so that one lemma does for every fold.  *)
FoldEquation(iter, T, take, base, seq, sets) ==
  \A s \in sets :
    iter[s] = IF s = {} THEN base ELSE T[<<iter[s \ {take[s]}], seq[take[s]]>>]

FoldsOver(iter, D, T, take, base, seq, k) ==
  iter \in [SUBSET (1 .. k) -> D] /\ FoldEquation(iter, T, take, base, seq, SUBSET (1 .. k))

(* A fold whose values stay in D is defined, by recursion on the number of  *)
(* places.                                                                  *)
LEMMA FoldExists ==
  ASSUME NEW D, NEW E, NEW T \in [D \X E -> D], NEW base \in D, NEW seq, NEW k \in Nat,
         \A i \in 1 .. k : seq[i] \in E,
         NEW take, \A s \in SUBSET (1 .. k) : s # {} => take[s] \in s
  PROVE  \E iter : FoldsOver(iter, D, T, take, base, seq, k)
<1> DEFINE Sets(n) == {s \in SUBSET (1 .. k) : Cardinality(s) <= n}
           Is(n) == \E iter \in [Sets(n) -> D] :
                      FoldEquation(iter, T, take, base, seq, Sets(n))
           Stuck == {n \in Nat : ~ Is(n)}
<1>1. ASSUME NEW s \in SUBSET (1 .. k)
      PROVE  /\ Cardinality(s) \in 0 .. k
             /\ s # {} => /\ s \ {take[s]} \in SUBSET (1 .. k) /\ take[s] \in 1 .. k
                          /\ Cardinality(s \ {take[s]}) = Cardinality(s) - 1
             /\ Cardinality(s) <= 0 => s = {}
  <2>1. IsFiniteSet(1 .. k) /\ Cardinality(1 .. k) = k
    <3>1. 1 \in Int /\ k \in Int /\ (1 > k => k = 0) /\ k - 1 + 1 = k
      OBVIOUS
    <3> QED
      BY <3>1, FS_Interval
  <2>2. IsFiniteSet(s) /\ Cardinality(s) <= k
    <3>1. IsFiniteSet(s) /\ Cardinality(s) <= Cardinality(1 .. k)
      BY <2>1, FS_Subset, Zenon
    <3> QED
      BY <2>1, <3>1
  <2>3. Cardinality(s) \in Nat /\ (Cardinality(s) = 0 <=> s = {})
    BY <2>2, FS_CardinalityType, FS_EmptySet
  <2> HIDE DEF Sets
  <2>4. s # {} => take[s] \in s
    OBVIOUS
  <2>5. s # {} => Cardinality(s \ {take[s]}) = Cardinality(s) - 1
    BY <2>2, <2>4, FS_RemoveElement
  <2>6. Cardinality(s) <= 0 => s = {}
    BY <2>3
  <2>7. s # {} => s \ {take[s]} \in SUBSET (1 .. k) /\ take[s] \in 1 .. k
    BY <2>4
  <2> QED
    BY <2>2, <2>3, <2>5, <2>6, <2>7
<1>2. Is(0)
  <2> DEFINE iter == [s \in Sets(0) |-> base]
  <2>1. \A s \in Sets(0) : s = {}
    BY <1>1
  <2>2. FoldEquation(iter, T, take, base, seq, Sets(0))
    <3> SUFFICES ASSUME NEW s \in Sets(0) PROVE s = {} /\ iter[s] = base
      BY DEF FoldEquation
    <3> QED
      BY <2>1
  <2> QED
    BY <2>2
<1>3. ASSUME NEW n \in Nat, Is(n) PROVE Is(n + 1)
  <2>1. PICK old \in [Sets(n) -> D] : FoldEquation(old, T, take, base, seq, Sets(n))
    BY <1>3
  <2> DEFINE step(s) == IF s = {} THEN base ELSE T[<<old[s \ {take[s]}], seq[take[s]]>>]
             iter == [s \in Sets(n + 1) |-> step(s)]
  <2>2. ASSUME NEW s \in Sets(n + 1)
        PROVE  /\ step(s) \in D
               /\ s # {} => s \ {take[s]} \in Sets(n) /\ s \ {take[s]} \in Sets(n + 1)
    <3>1. s # {} => s \ {take[s]} \in Sets(n) /\ take[s] \in 1 .. k
      BY <1>1
    <3>2. s # {} => s \ {take[s]} \in Sets(n + 1)
      <4>1. \A r \in SUBSET (1 .. k) : Cardinality(r) \in 0 .. k
        BY <1>1, Zenon
      <4>2. \A r \in Sets(n) : r \in Sets(n + 1)
        BY <4>1
      <4> QED
        BY <3>1, <4>2
    <3>3. s # {} => old[s \ {take[s]}] \in D /\ seq[take[s]] \in E
      BY <2>1, <3>1
    <3> QED
      BY <3>1, <3>2, <3>3
  <2>3. iter \in [Sets(n + 1) -> D]
    BY <2>2
  <2>4. ASSUME NEW r \in Sets(n) PROVE r \in Sets(n + 1) /\ step(r) = old[r]
    BY <1>1, <2>1 DEF FoldEquation
  <2>5. \A s \in Sets(n + 1) : iter[s] = step(s)
    OBVIOUS
  <2> HIDE DEF iter
  <2>6. ASSUME NEW s \in Sets(n + 1)
        PROVE  iter[s] = IF s = {} THEN base ELSE T[<<iter[s \ {take[s]}], seq[take[s]]>>]
    <3>1. s # {} => iter[s \ {take[s]}] = old[s \ {take[s]}]
      BY <2>2, <2>4, <2>5, Zenon
    <3> QED
      BY <2>5, <3>1
  <2>7. FoldEquation(iter, T, take, base, seq, Sets(n + 1))
    BY <2>6, Zenon DEF FoldEquation
  <2> QED
    BY <2>3, <2>7
<1>4. Stuck = {}
  <2> SUFFICES ASSUME Stuck # {} PROVE FALSE
    OBVIOUS
  <2>1. PICK n \in Stuck : \A m \in Stuck : n <= m
    <3>1. \A m \in Stuck : m \in Nat
      OBVIOUS
    <3> HIDE DEF Stuck
    <3> QED
      BY <3>1, Least
  <2>2. n \in Nat /\ ~ Is(n)
    BY <2>1
  <2> HIDE DEF Is
  <2>3. n # 0
    BY <1>2, <2>2
  <2>4. n - 1 \in Nat /\ n - 1 < n /\ (n - 1) + 1 = n
    BY <2>2, <2>3
  <2>5. Is(n - 1)
    BY <2>1, <2>4
  <2> QED
    BY <1>3, <2>2, <2>4, <2>5
<1>5. Sets(k) = SUBSET (1 .. k)
  <2>1. \A s \in SUBSET (1 .. k) : Cardinality(s) \in 0 .. k
    BY <1>1, Zenon
  <2> QED
    BY <2>1
<1>6. Is(k)
  <2> HIDE DEF Is
  <2> QED
    BY <1>4
<1>7. PICK iter : iter \in [Sets(k) -> D] /\ FoldEquation(iter, T, take, base, seq, Sets(k))
  BY <1>6
<1> HIDE DEF Sets
<1>8. FoldsOver(iter, D, T, take, base, seq, k)
  BY <1>5, <1>7, Zenon DEF FoldsOver
<1> QED
  BY <1>8

(* What FoldLeft and FoldRight take.                                        *)
LEMMA TakeIs ==
  ASSUME NEW k \in Nat, NEW s \in SUBSET (1 .. k), s # {}
  PROVE  /\ Max(s) \in s /\ Min(s) \in s /\ Max(s) \in 1 .. k /\ Min(s) \in 1 .. k
         /\ s \ {Max(s)} \in SUBSET (1 .. k) /\ s \ {Min(s)} \in SUBSET (1 .. k)
<1>1. s \subseteq 0 .. k /\ s \subseteq Nat
  OBVIOUS
<1>2. Max(s) \in s
  BY <1>1, MaxIs
<1>3. Min(s) \in s
  BY <1>1, MinIs
<1> QED
  BY <1>2, <1>3

LEMMA TakeOfAll ==
  ASSUME NEW k \in Nat, NEW n \in 1 .. k
  PROVE  /\ 1 .. n \in SUBSET (1 .. k) /\ 1 .. n # {} /\ n .. k \in SUBSET (1 .. k) /\ n .. k # {}
         /\ Max(1 .. n) = n /\ (1 .. n) \ {n} = 1 .. n - 1
         /\ Min(n .. k) = n /\ (n .. k) \ {n} = n + 1 .. k
<1>1. /\ 1 .. n \in SUBSET (1 .. k) /\ n .. k \in SUBSET (1 .. k)
      /\ n \in 1 .. n /\ n \in n .. k
  OBVIOUS
<1>2. 1 .. n \subseteq 0 .. k /\ n .. k \subseteq Nat
  OBVIOUS
<1>3. Max(1 .. n) \in 1 .. n /\ \A m \in 1 .. n : m <= Max(1 .. n)
  BY <1>1, <1>2, MaxIs
<1>4. Min(n .. k) \in n .. k /\ \A m \in n .. k : Min(n .. k) <= m
  BY <1>1, <1>2, MinIs
<1>5. Max(1 .. n) = n
  BY <1>1, <1>3
<1>6. Min(n .. k) = n
  BY <1>1, <1>4
<1>7. (1 .. n) \ {n} = 1 .. n - 1 /\ (n .. k) \ {n} = n + 1 .. k
  OBVIOUS
<1> QED
  BY <1>1, <1>5, <1>6, <1>7

-----------------------------------------------------------------------------
(* filepath.Join.                                                           *)
JoinStep(path, n) ==
  CASE n = <<>>           -> path
    [] n = <<Mark("..")>> -> IF path = <<>> THEN path ELSE Front(path)
    [] OTHER              -> Append(path, n)

LEMMA JoinIsChosen ==
  ASSUME NEW base, NEW names
  PROVE  Join(base, names) =
           (CHOOSE iter : iter = [s \in SUBSET DOMAIN names |->
               IF s = {} THEN base ELSE JoinStep(iter[s \ {Max(s)}], names[Max(s)])])[DOMAIN names]
BY DEF Join, FoldLeft, MapThenFoldSet, JoinStep

(* The paths Join goes through.                                             *)
JoinedBy(path, base, names) ==
  /\ path[0] = base
  /\ \A n \in 1 .. Len(names) : path[n] = JoinStep(path[n - 1], names[n])
  /\ Join(base, names) = path[Len(names)]

LEMMA JoinStepIs ==
  ASSUME NEW S, NEW path \in Seq(S), NEW n \in S
  PROVE  JoinStep(path, n) \in Seq(S)
<1>1. CASE n = <<>>
  BY <1>1 DEF JoinStep
<1>2. CASE n # <<>> /\ n = <<Mark("..")>>
  <2>1. JoinStep(path, n) = IF path = <<>> THEN path ELSE SubSeq(path, 1, Len(path) - 1)
    BY <1>2 DEF JoinStep, Front
  <2>2. path # <<>> => SubSeq(path, 1, Len(path) - 1) \in Seq(S)
    <3> HAVE path # <<>>
    <3>1. \A i \in 1 .. Len(path) - 1 : path[i] \in S
      OBVIOUS
    <3>2. Len(path) - 1 \in Nat
      OBVIOUS
    <3> QED
      BY <3>1, <3>2, SubSeqProperties
  <2> QED
    BY <2>1, <2>2
<1>3. CASE n # <<>> /\ n # <<Mark("..")>>
  <2>1. JoinStep(path, n) = Append(path, n)
    BY <1>3 DEF JoinStep
  <2> QED
    BY <2>1
<1> QED
  BY <1>1, <1>2, <1>3

LEMMA JoinRuns ==
  ASSUME NEW S, NEW base \in Seq(S), NEW names \in Seq(S)
  PROVE  \E path : JoinedBy(path, base, names)
<1> DEFINE k == Len(names)
           D == Seq(S)
           T == [q \in D \X S |-> JoinStep(q[1], q[2])]
           take == [s \in SUBSET (1 .. k) |-> Max(s)]
           fold(g) == [s \in SUBSET DOMAIN names |->
                         IF s = {} THEN base ELSE JoinStep(g[s \ {Max(s)}], names[Max(s)])]
           iter == CHOOSE g : g = fold(g)
<1>1. k \in Nat /\ DOMAIN names = 1 .. k /\ \A i \in 1 .. k : names[i] \in S
  OBVIOUS
<1>2. T \in [D \X S -> D]
  BY JoinStepIs
<1>3. \E g : g = fold(g)
  <2> HIDE DEF T, D, k
  <2>1. base \in D
    BY DEF D
  <2>2. \A s \in SUBSET (1 .. k) : s # {} => take[s] \in s
    BY <1>1, TakeIs
  <2>3. PICK g : FoldsOver(g, D, T, take, base, names, k)
    <3> HIDE DEF take
    <3> QED
      BY <1>1, <1>2, <2>1, <2>2, FoldExists
  <2>4. ASSUME NEW s \in SUBSET (1 .. k) PROVE g[s] = fold(g)[s]
    <3>1. s # {} => g[s \ {Max(s)}] \in D /\ names[Max(s)] \in S
      BY <1>1, <2>3, TakeIs DEF FoldsOver
    <3>2. s # {} => T[<<g[s \ {Max(s)}], names[Max(s)]>>]
                      = JoinStep(g[s \ {Max(s)}], names[Max(s)])
      BY <3>1 DEF T
    <3>3. g[s] = IF s = {} THEN base ELSE T[<<g[s \ {Max(s)}], names[Max(s)]>>]
      BY <2>3 DEF FoldsOver, FoldEquation
    <3> QED
      BY <1>1, <3>2, <3>3
  <2>5. g = [s \in SUBSET (1 .. k) |-> g[s]]
    BY <2>3 DEF FoldsOver
  <2>6. g = fold(g)
    BY <1>1, <2>4, <2>5
  <2> QED
    BY <2>6
<1>4. iter = fold(iter)
  BY <1>3
<1>5. Join(base, names) = iter[DOMAIN names]
  BY JoinIsChosen
<1> HIDE DEF iter, k
<1> DEFINE path == [n \in 0 .. k |-> iter[1 .. n]]
<1>6. path[0] = base
  <2>1. 1 .. 0 = {} /\ 0 \in 0 .. k
    BY <1>1
  <2>2. iter[{}] = base
    BY <1>4
  <2> QED
    BY <2>1, <2>2
<1>7. ASSUME NEW n \in 1 .. k PROVE path[n] = JoinStep(path[n - 1], names[n])
  <2>1. n \in 0 .. k /\ n - 1 \in 0 .. k
    BY <1>1
  <2>2. iter[1 .. n] = JoinStep(iter[1 .. n - 1], names[n])
    <3>1. /\ 1 .. n \in SUBSET DOMAIN names /\ 1 .. n # {}
          /\ Max(1 .. n) = n /\ (1 .. n) \ {n} = 1 .. n - 1
      BY <1>1, TakeOfAll
    <3>2. \A s \in SUBSET DOMAIN names :
            iter[s] = IF s = {} THEN base ELSE JoinStep(iter[s \ {Max(s)}], names[Max(s)])
      BY <1>4
    <3>3. iter[1 .. n] = JoinStep(iter[(1 .. n) \ {Max(1 .. n)}], names[Max(1 .. n)])
      BY <3>1, <3>2, Zenon
    <3> QED
      BY <3>1, <3>3, Zenon
  <2> QED
    BY <2>1, <2>2
<1>8. path[k] = iter[DOMAIN names]
  BY <1>1
<1>9. JoinedBy(path, base, names)
  BY <1>5, <1>6, <1>7, <1>8 DEF JoinedBy, k
<1> QED
  BY <1>9

-----------------------------------------------------------------------------
(* Names that Join does not clean away.                                     *)
Kept(names) == \A i \in DOMAIN names : names[i] # <<>> /\ names[i] # <<Mark("..")>>

(* Join appends them.                                                       *)
LEMMA JoinAppends ==
  ASSUME NEW S, NEW base \in Seq(S), NEW names \in Seq(S), Kept(names)
  PROVE  Join(base, names) = base \o names
<1>0. /\ Len(names) \in Nat /\ DOMAIN names = 1 .. Len(names) /\ Len(base) \in Nat
      /\ \A i \in 1 .. Len(names) : names[i] \in S
  OBVIOUS
<1>1. PICK path : JoinedBy(path, base, names)
  BY JoinRuns
<1>2. /\ path[0] = base /\ Join(base, names) = path[Len(names)]
      /\ \A n \in 1 .. Len(names) : path[n] = JoinStep(path[n - 1], names[n])
  BY <1>1 DEF JoinedBy
<1>3. \A n \in 1 .. Len(names) : path[n] = Append(path[n - 1], names[n])
  <2> SUFFICES ASSUME NEW n \in 1 .. Len(names) PROVE path[n] = Append(path[n - 1], names[n])
    OBVIOUS
  <2>1. names[n] # <<>> /\ names[n] # <<Mark("..")>>
    BY <1>0 DEF Kept
  <2>2. JoinStep(path[n - 1], names[n]) = Append(path[n - 1], names[n])
    BY <2>1 DEF JoinStep
  <2> QED
    BY <1>2, <2>2
<1> DEFINE Wrong == {n \in 0 .. Len(names) : ~ Extends(path[n], base, names, n, S)}
<1>4. Wrong = {}
  <2> SUFFICES ASSUME Wrong # {} PROVE FALSE
    OBVIOUS
  <2>1. PICK n \in Wrong : \A m \in Wrong : n <= m
    <3>1. \A m \in Wrong : m \in Nat
      OBVIOUS
    <3> HIDE DEF Wrong
    <3> QED
      BY <3>1, Least
  <2>2. n \in 0 .. Len(names) /\ ~ Extends(path[n], base, names, n, S)
    BY <2>1
  <2>3. n # 0
    <3>1. Extends(base, base, names, 0, S)
      BY <1>0 DEF Extends
    <3> QED
      BY <1>2, <2>2, <3>1
  <2>4. n - 1 \in 0 .. Len(names) /\ n - 1 < n /\ n \in 1 .. Len(names)
    BY <2>2, <2>3
  <2>5. Extends(path[n - 1], base, names, n - 1, S)
    BY <2>1, <2>4
  <2> DEFINE m == path[n - 1]
  <2>6. /\ m \in Seq(S) /\ Len(m) = Len(base) + (n - 1)
        /\ \A i \in 1 .. Len(base) : m[i] = base[i]
        /\ \A i \in 1 .. n - 1 : m[Len(base) + i] = names[i]
    BY <2>5 DEF Extends
  <2>7. path[n] = Append(m, names[n]) /\ names[n] \in S
    BY <1>0, <1>3, <2>4
  <2> HIDE DEF m
  <2>8. /\ Append(m, names[n]) \in Seq(S) /\ Len(Append(m, names[n])) = Len(m) + 1
        /\ \A i \in 1 .. Len(m) : Append(m, names[n])[i] = m[i]
        /\ Append(m, names[n])[Len(m) + 1] = names[n]
    BY <2>6, <2>7, AppendProperties
  <2>9. /\ \A i \in 1 .. Len(base) : i \in 1 .. Len(m)
        /\ \A i \in 1 .. n - 1 : Len(base) + i \in 1 .. Len(m)
        /\ Len(m) + 1 = Len(base) + n
        /\ \A i \in 1 .. n : i \in 1 .. n - 1 \/ i = n
    BY <1>0, <2>4, <2>6
  <2>10. Extends(path[n], base, names, n, S)
    BY <2>6, <2>7, <2>8, <2>9 DEF Extends
  <2> QED
    BY <2>2, <2>10
<1>5. Extends(path[Len(names)], base, names, Len(names), S)
  <2>1. Len(names) \in 0 .. Len(names)
    BY <1>0
  <2> QED
    BY <1>4, <2>1
<1> DEFINE p == path[Len(names)]
           c == base \o names
<1>6. /\ p \in Seq(S) /\ Len(p) = Len(base) + Len(names)
      /\ \A i \in 1 .. Len(base) : p[i] = base[i]
      /\ \A i \in 1 .. Len(names) : p[Len(base) + i] = names[i]
  BY <1>5 DEF Extends
<1>7. /\ c \in Seq(S) /\ Len(c) = Len(base) + Len(names)
      /\ \A i \in 1 .. Len(base) : c[i] = base[i]
      /\ \A i \in 1 .. Len(names) : c[Len(base) + i] = names[i]
  BY ConcatIs
<1> HIDE DEF p, c
<1>8. ASSUME NEW i \in 1 .. Len(p) PROVE p[i] = c[i]
  <2>1. CASE i \in 1 .. Len(base)
    BY <1>6, <1>7, <2>1
  <2>2. CASE i \notin 1 .. Len(base)
    <3>1. i - Len(base) \in 1 .. Len(names) /\ Len(base) + (i - Len(base)) = i
      BY <1>0, <1>6, <2>2
    <3> QED
      BY <1>6, <1>7, <3>1
  <2> QED
    BY <2>1, <2>2
<1>9. p = c
  BY <1>6, <1>7, <1>8, SeqEqual
<1> QED
  BY <1>2, <1>9 DEF p, c

(* The first n of a sequence.                                               *)
FrontOf(s, n) ==
  /\ SubSeq(s, 1, n) \in Seq(Range(s)) /\ Len(SubSeq(s, 1, n)) = n
  /\ \A i \in 1 .. n : SubSeq(s, 1, n)[i] = s[i]

LEMMA FrontIs ==
  ASSUME NEW S, NEW s \in Seq(S), NEW n \in 0 .. Len(s)
  PROVE  FrontOf(s, n)
<1>1. /\ SubSeq(s, 1, n) = [i \in 1 .. n |-> s[i]] /\ n \in Nat
      /\ \A i \in 1 .. n : i \in DOMAIN s
  OBVIOUS
<1> QED
  BY <1>1 DEF FrontOf, Range

(* What is in front is a prefix.                                            *)
LEMMA FrontIsPrefix ==
  ASSUME NEW S, NEW p \in Seq(S), NEW c \in Seq(S), c # <<>>
  PROVE  IsStrictPrefix(p, p \o c)
<1> DEFINE w == p \o c
<1>1. /\ w \in Seq(S) /\ Len(w) = Len(p) + Len(c) /\ Len(p) \in Nat /\ Len(c) \in Nat
      /\ \A i \in 1 .. Len(p) : w[i] = p[i]
  BY ConcatIs
<1>2. Len(c) # 0
  OBVIOUS
<1> HIDE DEF w
<1>3. Len(p) <= Len(w) /\ Len(p) # Len(w)
  BY <1>1, <1>2
<1>4. SubSeq(p, 1, Len(p)) = SubSeq(w, 1, Len(p))
  <2>1. FrontOf(p, Len(p)) /\ FrontOf(w, Len(p))
    BY <1>1, <1>3, FrontIs
  <2> QED
    BY <1>1, <1>3, <2>1, SeqEqual DEF FrontOf
<1> QED
  BY <1>3, <1>4 DEF IsStrictPrefix, IsPrefix, w

-----------------------------------------------------------------------------
(* What names of directories are written with here.                         *)
Glyph ==
  [of : {"x", "/", "..", ":", "src", "docker-sbx", "envs", "-env"}, kind : {"small", "big", "mark"}]

Word == Seq(Glyph)

LEMMA WordsAre ==
  /\ Envs \in Word /\ Envs # <<>> /\ Envs # <<Mark("..")>>
  /\ EnvsRepoName \in Word /\ EnvsRepoName # <<>> /\ EnvsRepoName # <<Mark("..")>>
  /\ Env \in Word /\ Len(Env) = 1
  /\ <<x>> \in Word /\ <<X>> \in Word /\ <<Char("src", "small")>> \in Word /\ <<x, X>> \in Word
BY DEF Word, Glyph, Envs, EnvsRepoName, Env, Mark, Char, x, X

LEMMA NamedEnv ==
  ASSUME NEW n \in Word, n # <<>>
  PROVE  n \o Env \in Word /\ n \o Env # <<>> /\ n \o Env # <<Mark("..")>>
<1>1. n \o Env \in Word /\ Len(n \o Env) = Len(n) + 1 /\ Len(n) \in Nat /\ Len(n) # 0
  <2>1. Env \in Word /\ Len(Env) = 1
    BY WordsAre
  <2>2. Len(n) \in Nat /\ Len(n) # 0
    BY DEF Word
  <2> QED
    BY <2>1, <2>2, ConcatIs DEF Word
<1> QED
  BY <1>1

(* Of two names, the environments are two.                                  *)
LEMMA NamedApart ==
  ASSUME NEW a \in Word, NEW b \in Word, a \o Env = b \o Env
  PROVE  a = b
<1> DEFINE w == a \o Env
<1>1. EndsWith(w, a, Env) /\ EndsWith(w, b, Env)
  BY DEF EndsWith
<1> HIDE DEF w
<1> QED
  BY <1>1, WordsAre, EndsAreSame DEF Word

LEMMA FrontAndMore ==
  ASSUME NEW S, NEW s \in Seq(S), s # <<>>, NEW e \in S
  PROVE  LET t == Append(Front(s), e) IN
           /\ t \in Seq(S) /\ Len(t) = Len(s) /\ t[Len(s)] = e
           /\ \A i \in 1 .. Len(s) - 1 : t[i] = s[i]
<1>1. Len(s) \in Nat /\ Len(s) # 0 /\ Len(s) - 1 \in 0 .. Len(s)
  OBVIOUS
<1>2. FrontOf(s, Len(s) - 1)
  BY <1>1, FrontIs
<1> DEFINE f == Front(s)
<1>3. f \in Seq(S) /\ Len(f) = Len(s) - 1 /\ \A i \in 1 .. Len(s) - 1 : f[i] = s[i]
  <2>1. \A v \in Range(s) : v \in S
    BY DEF Range
  <2>2. Seq(Range(s)) \subseteq Seq(S)
    BY <2>1
  <2> QED
    BY <1>2, <2>2 DEF Front, FrontOf
<1> HIDE DEF f
<1>4. /\ Append(f, e) \in Seq(S) /\ Len(Append(f, e)) = Len(f) + 1
      /\ \A i \in 1 .. Len(f) : Append(f, e)[i] = f[i]
      /\ Append(f, e)[Len(f) + 1] = e
  BY <1>3, AppendProperties
<1>5. Len(f) + 1 = Len(s) /\ \A i \in 1 .. Len(s) - 1 : i \in 1 .. Len(f)
  BY <1>1, <1>3
<1> QED
  BY <1>1, <1>3, <1>4, <1>5 DEF f

LEMMA MoreIs ==
  ASSUME NEW S, NEW s \in Seq(S), NEW e \in S
  PROVE  LET t == Append(s, e) IN
           /\ t \in Seq(S) /\ t # <<>> /\ Len(t) = Len(s) + 1 /\ t[Len(s) + 1] = e
           /\ \A i \in 1 .. Len(s) : t[i] = s[i]
BY AppendProperties

(* The directories of the environments, and of one, name by name.           *)
RootAt(root, base, path) ==
  /\ root \in Seq(Word) /\ Len(root) = Len(base) + Len(path) + 1
  /\ \A i \in 1 .. Len(base) : root[i] = base[i]
  /\ \A i \in 1 .. Len(path) : root[Len(base) + i] = path[i]
  /\ root[Len(base) + Len(path) + 1] = Envs

EnvAt(env, root, tail) ==
  /\ env \in Seq(Word) /\ Len(env) = Len(root) + Len(tail)
  /\ \A i \in 1 .. Len(root) : env[i] = root[i]
  /\ \A i \in 1 .. Len(tail) - 1 : env[Len(root) + i] = tail[i]
  /\ env[Len(root) + Len(tail)] = tail[Len(tail)] \o Env

LEMMA RootIs ==
  ASSUME NEW base \in Seq(Word), NEW tail, NEW raw, EnvsRepoPath(tail, raw) \in Seq(Word),
         Kept(EnvsRepoPath(tail, raw))
  PROVE  /\ RootAt(EnvsRoot(base, tail, raw), base, EnvsRepoPath(tail, raw))
         /\ IsStrictPrefix(base, EnvsRoot(base, tail, raw))
<1> DEFINE path == EnvsRepoPath(tail, raw)
           more == Append(path, Envs)
           root == base \o more
<1>1. /\ more \in Seq(Word) /\ more # <<>> /\ Len(more) = Len(path) + 1
      /\ more[Len(path) + 1] = Envs /\ \A i \in 1 .. Len(path) : more[i] = path[i]
  BY WordsAre, MoreIs
<1>2. Len(path) \in Nat /\ DOMAIN path = 1 .. Len(path) /\ DOMAIN more = 1 .. Len(more)
  BY <1>1, LenProperties
<1>3. Kept(more)
  <2> HIDE DEF more, path
  <2>1. \A i \in 1 .. Len(more) : i \in 1 .. Len(path) \/ i = Len(path) + 1
    BY <1>1, <1>2
  <2>2. Kept(path)
    BY DEF path
  <2> QED
    BY <1>1, <1>2, <2>1, <2>2, WordsAre DEF Kept
<1>4. EnvsRoot(base, tail, raw) = root
  <2>1. EnvsRoot(base, tail, raw) = Join(base, more)
    BY DEF EnvsRoot
  <2> HIDE DEF more
  <2> QED
    BY <1>1, <1>3, <2>1, JoinAppends
<1> HIDE DEF path, more
<1>a. more \in Seq(Word)
  BY <1>1
<1>5. /\ root \in Seq(Word) /\ Len(root) = Len(base) + Len(more) /\ Len(base) \in Nat
      /\ \A i \in 1 .. Len(base) : root[i] = base[i]
      /\ \A i \in 1 .. Len(more) : root[Len(base) + i] = more[i]
  BY <1>a, ConcatIs
<1>6. IsStrictPrefix(base, root)
  BY <1>1, FrontIsPrefix
<1> HIDE DEF root
<1>7. RootAt(root, base, path)
  <2>1. Len(root) = Len(base) + Len(path) + 1
    BY <1>1, <1>2, <1>5
  <2>2. /\ \A i \in 1 .. Len(path) : i \in 1 .. Len(more)
        /\ Len(path) + 1 \in 1 .. Len(more)
        /\ Len(base) + (Len(path) + 1) = Len(base) + Len(path) + 1
    BY <1>1, <1>2, <1>5
  <2>3. ASSUME NEW i \in 1 .. Len(path) PROVE root[Len(base) + i] = path[i]
    <3>1. root[Len(base) + i] = more[i]
      BY <1>5, <2>2
    <3>2. more[i] = path[i]
      BY <1>1
    <3> QED
      BY <3>1, <3>2
  <2>4. root[Len(base) + Len(path) + 1] = Envs
    <3>1. root[Len(base) + (Len(path) + 1)] = more[Len(path) + 1]
      BY <1>5, <2>2
    <3>2. more[Len(path) + 1] = Envs
      BY <1>1
    <3> QED
      BY <2>2, <3>1, <3>2
  <2> QED
    BY <1>5, <2>1, <2>3, <2>4 DEF RootAt
<1> QED
  BY <1>4, <1>6, <1>7 DEF path

LEMMA EnvIs ==
  ASSUME NEW base, NEW tail \in Seq(Word), tail # <<>>, Kept(tail), NEW raw,
         EnvsRoot(base, tail, raw) \in Seq(Word)
  PROVE  /\ EnvAt(EnvDir(base, tail, raw), EnvsRoot(base, tail, raw), tail)
         /\ IsStrictPrefix(EnvsRoot(base, tail, raw), EnvDir(base, tail, raw))
<1> DEFINE root == EnvsRoot(base, tail, raw)
           k == Len(tail)
           last == tail[k] \o Env
           more == Append(Front(tail), last)
           env == root \o more
<1>1. k \in Nat /\ k # 0 /\ DOMAIN tail = 1 .. k /\ k \in 1 .. k
  OBVIOUS
<1>2. tail[k] \in Word /\ tail[k] # <<>>
  <2>1. tail[k] \in Word
    BY <1>1, ElementOfSeq
  <2> QED
    BY <1>1, <2>1 DEF Kept
<1>3. last \in Word /\ last # <<>> /\ last # <<Mark("..")>>
  BY <1>2, NamedEnv
<1> HIDE DEF last
<1>4. /\ more \in Seq(Word) /\ Len(more) = k /\ more[k] = last
      /\ \A i \in 1 .. k - 1 : more[i] = tail[i]
  BY <1>3, FrontAndMore
<1>5. EnvDir(base, tail, raw) = Join(root, more)
  BY DEF EnvDir, Last, last
<1> HIDE DEF more, k, root
<1>6. Kept(more)
  <2>1. DOMAIN more = 1 .. k /\ \A i \in 1 .. k : i \in 1 .. k - 1 \/ i = k
    BY <1>1, <1>4
  <2>2. \A i \in 1 .. k - 1 : i \in DOMAIN tail
    BY <1>1
  <2> QED
    BY <1>3, <1>4, <2>1, <2>2 DEF Kept
<1>7. EnvDir(base, tail, raw) = env /\ root \in Seq(Word)
  <2>1. root \in Seq(Word)
    BY DEF root
  <2> QED
    BY <1>4, <1>5, <1>6, <2>1, JoinAppends
<1>8. /\ env \in Seq(Word) /\ Len(env) = Len(root) + Len(more)
      /\ \A i \in 1 .. Len(root) : env[i] = root[i]
      /\ \A i \in 1 .. Len(more) : env[Len(root) + i] = more[i]
  <2>1. more \in Seq(Word) /\ root \in Seq(Word)
    BY <1>4, <1>7
  <2> QED
    BY <2>1, ConcatIs
<1>9. IsStrictPrefix(root, env)
  <2>1. more # <<>>
    BY <1>1, <1>4
  <2> QED
    BY <1>4, <1>7, <2>1, FrontIsPrefix
<1> HIDE DEF env
<1>10. EnvAt(env, root, tail)
  <2>1. \A i \in 1 .. k - 1 : i \in 1 .. Len(more)
    BY <1>1, <1>4
  <2>2. k = Len(tail) /\ last = tail[Len(tail)] \o Env
    BY DEF k, last
  <2>3. Len(more) = k /\ k \in 1 .. Len(more)
    BY <1>1, <1>4
  <2> QED
    BY <1>4, <1>8, <2>1, <2>2, <2>3 DEF EnvAt
<1> QED
  BY <1>7, <1>9, <1>10 DEF root

-----------------------------------------------------------------------------
(* strings.Split at "/".                                                    *)
SegmentsStep(parts, c) ==
  IF c = Mark("/") THEN Append(parts, <<>>)
  ELSE [parts EXCEPT ![Len(parts)] = Append(@, c)]

LEMMA SegmentsIsChosen ==
  ASSUME NEW text
  PROVE  Segments(text) =
           (CHOOSE iter : iter = [s \in SUBSET DOMAIN text |->
               IF s = {} THEN << <<>> >>
               ELSE SegmentsStep(iter[s \ {Max(s)}], text[Max(s)])])[DOMAIN text]
BY DEF Segments, FoldLeft, MapThenFoldSet, SegmentsStep

(* The names Split goes through.                                            *)
SegmentedBy(parts, text) ==
  /\ parts[0] = << <<>> >>
  /\ \A n \in 1 .. Len(text) : parts[n] = SegmentsStep(parts[n - 1], text[n])
  /\ Segments(text) = parts[Len(text)]

LEMMA StartsEmpty ==
  ASSUME NEW C
  PROVE  << <<>> >> \in Seq(Seq(C)) \ {<<>>}
<1> DEFINE W == Seq(C)
<1>1. <<>> \in W
  OBVIOUS
<1> HIDE DEF W
<1>2. << <<>> >> \in Seq(W) \ {<<>>}
  BY <1>1
<1> QED
  BY <1>2 DEF W

LEMMA SegmentsStepIs ==
  ASSUME NEW C, NEW parts \in Seq(Seq(C)) \ {<<>>}, NEW c \in C
  PROVE  /\ SegmentsStep(parts, c) \in Seq(Seq(C)) \ {<<>>}
<1> DEFINE W == Seq(C)
           last == parts[Len(parts)]
<1>1. /\ parts \in Seq(W) /\ parts # <<>> /\ Len(parts) \in Nat /\ Len(parts) # 0
      /\ <<>> \in W
  OBVIOUS
<1>2. Append(last, c) \in W
  <2>1. last \in W
    <3> HIDE DEF W
    <3>1. Len(parts) \in 1 .. Len(parts)
      BY <1>1
    <3> QED
      BY <1>1, <3>1, ElementOfSeq
  <2> HIDE DEF last
  <2> QED
    BY <2>1
<1> DEFINE more == Append(last, c)
<1> HIDE DEF W, more
<1>3. CASE c = Mark("/")
  <2>1. SegmentsStep(parts, c) = Append(parts, <<>>)
    BY <1>3 DEF SegmentsStep
  <2>2. Append(parts, <<>>) \in Seq(W) /\ Append(parts, <<>>) # <<>>
    BY <1>1, MoreIs
  <2> QED
    BY <2>1, <2>2 DEF W
<1>4. CASE c # Mark("/")
  <2>1. SegmentsStep(parts, c) = [parts EXCEPT ![Len(parts)] = more]
    BY <1>4 DEF SegmentsStep, more
  <2>2. more \in W
    BY <1>2 DEF more
  <2>3. parts \in [1 .. Len(parts) -> W]
    BY <1>1
  <2>4. /\ [parts EXCEPT ![Len(parts)] = more] \in [1 .. Len(parts) -> W]
    BY <2>2, <2>3
  <2>5. \A q : q \in [1 .. Len(parts) -> W] => q \in Seq(W) /\ q # <<>>
    BY <1>1
  <2> QED
    BY <2>1, <2>4, <2>5 DEF W
<1> QED
  BY <1>3, <1>4

LEMMA SegmentsRun ==
  ASSUME NEW C, NEW text \in Seq(C)
  PROVE  \E parts : SegmentedBy(parts, text)
<1> DEFINE k == Len(text)
           D == Seq(Seq(C)) \ {<<>>}
           T == [q \in D \X C |-> SegmentsStep(q[1], q[2])]
           take == [s \in SUBSET (1 .. k) |-> Max(s)]
           fold(g) == [s \in SUBSET DOMAIN text |->
                         IF s = {} THEN << <<>> >> ELSE SegmentsStep(g[s \ {Max(s)}], text[Max(s)])]
           iter == CHOOSE g : g = fold(g)
<1>1. k \in Nat /\ DOMAIN text = 1 .. k /\ \A i \in 1 .. k : text[i] \in C
  OBVIOUS
<1>2. T \in [D \X C -> D]
  BY SegmentsStepIs
<1>3. \E g : g = fold(g)
  <2> HIDE DEF T, D, k
  <2>1. << <<>> >> \in D
    BY StartsEmpty DEF D
  <2>2. \A s \in SUBSET (1 .. k) : s # {} => take[s] \in s
    BY <1>1, TakeIs
  <2>3. PICK g : FoldsOver(g, D, T, take, << <<>> >>, text, k)
    <3> HIDE DEF take
    <3> QED
      BY <1>1, <1>2, <2>1, <2>2, FoldExists
  <2>4. ASSUME NEW s \in SUBSET (1 .. k) PROVE g[s] = fold(g)[s]
    <3>1. s # {} => g[s \ {Max(s)}] \in D /\ text[Max(s)] \in C
      BY <1>1, <2>3, TakeIs DEF FoldsOver
    <3>2. s # {} => T[<<g[s \ {Max(s)}], text[Max(s)]>>]
                      = SegmentsStep(g[s \ {Max(s)}], text[Max(s)])
      BY <3>1 DEF T
    <3>3. g[s] = IF s = {} THEN << <<>> >> ELSE T[<<g[s \ {Max(s)}], text[Max(s)]>>]
      BY <2>3 DEF FoldsOver, FoldEquation
    <3> QED
      BY <1>1, <3>2, <3>3
  <2>5. g = [s \in SUBSET (1 .. k) |-> g[s]]
    BY <2>3 DEF FoldsOver
  <2>6. g = fold(g)
    BY <1>1, <2>4, <2>5
  <2> QED
    BY <2>6
<1>4. iter = fold(iter)
  BY <1>3
<1>5. Segments(text) = iter[DOMAIN text]
  BY SegmentsIsChosen
<1> HIDE DEF iter, k
<1> DEFINE parts == [n \in 0 .. k |-> iter[1 .. n]]
<1>6. parts[0] = << <<>> >>
  <2>1. 1 .. 0 = {} /\ 0 \in 0 .. k
    BY <1>1
  <2>2. iter[{}] = << <<>> >>
    BY <1>4
  <2> QED
    BY <2>1, <2>2
<1>7. ASSUME NEW n \in 1 .. k PROVE parts[n] = SegmentsStep(parts[n - 1], text[n])
  <2>1. n \in 0 .. k /\ n - 1 \in 0 .. k
    BY <1>1
  <2>2. iter[1 .. n] = SegmentsStep(iter[1 .. n - 1], text[n])
    <3>1. /\ 1 .. n \in SUBSET DOMAIN text /\ 1 .. n # {}
          /\ Max(1 .. n) = n /\ (1 .. n) \ {n} = 1 .. n - 1
      BY <1>1, TakeOfAll
    <3>2. \A s \in SUBSET DOMAIN text :
            iter[s] = IF s = {} THEN << <<>> >> ELSE SegmentsStep(iter[s \ {Max(s)}], text[Max(s)])
      BY <1>4
    <3>3. iter[1 .. n] = SegmentsStep(iter[(1 .. n) \ {Max(1 .. n)}], text[Max(1 .. n)])
      BY <3>1, <3>2, Zenon
    <3> QED
      BY <3>1, <3>3, Zenon
  <2> QED
    BY <2>1, <2>2
<1>8. parts[k] = iter[DOMAIN text]
  BY <1>1
<1>9. SegmentedBy(parts, text)
  BY <1>5, <1>6, <1>7, <1>8 DEF SegmentedBy, k
<1> QED
  BY <1>9

-----------------------------------------------------------------------------
(* strings.TrimRight at "/".                                                *)
TrimStep(c, kept) == IF kept = <<>> /\ c = Mark("/") THEN kept ELSE <<c>> \o kept

LEMMA TrimIsChosen ==
  ASSUME NEW value
  PROVE  TrimSlashes(value) =
           (CHOOSE iter : iter = [s \in SUBSET DOMAIN value |->
               IF s = {} THEN <<>>
               ELSE TrimStep(value[Min(s)], iter[s \ {Min(s)}])])[DOMAIN value]
BY DEF TrimSlashes, FoldRight, MapThenFoldSet, TrimStep

LEMMA TrimStepIs ==
  ASSUME NEW C, NEW c \in C, NEW kept \in Seq(C)
  PROVE  TrimStep(c, kept) \in Seq(C)
<1>1. <<c>> \in Seq(C)
  OBVIOUS
<1>2. <<c>> \o kept \in Seq(C)
  BY <1>1, ConcatIs
<1> QED
  BY <1>2 DEF TrimStep

(* What TrimRight keeps, from the end.                                      *)
TrimmedBy(kept, value) ==
  /\ kept[Len(value)] = <<>>
  /\ \A n \in 1 .. Len(value) : kept[n - 1] = TrimStep(value[n], kept[n])
  /\ TrimSlashes(value) = kept[0]

LEMMA TrimRuns ==
  ASSUME NEW C, NEW value \in Seq(C)
  PROVE  \E kept : TrimmedBy(kept, value)
<1> DEFINE k == Len(value)
           D == Seq(C)
           T == [q \in D \X C |-> TrimStep(q[2], q[1])]
           take == [s \in SUBSET (1 .. k) |-> Min(s)]
           fold(g) == [s \in SUBSET DOMAIN value |->
                         IF s = {} THEN <<>> ELSE TrimStep(value[Min(s)], g[s \ {Min(s)}])]
           iter == CHOOSE g : g = fold(g)
<1>1. k \in Nat /\ DOMAIN value = 1 .. k /\ \A i \in 1 .. k : value[i] \in C
  OBVIOUS
<1>2. T \in [D \X C -> D]
  BY TrimStepIs
<1>3. \E g : g = fold(g)
  <2> HIDE DEF T, D, k
  <2>1. <<>> \in D
    BY DEF D
  <2>2. \A s \in SUBSET (1 .. k) : s # {} => take[s] \in s
    BY <1>1, TakeIs
  <2>3. PICK g : FoldsOver(g, D, T, take, <<>>, value, k)
    <3> HIDE DEF take
    <3> QED
      BY <1>1, <1>2, <2>1, <2>2, FoldExists
  <2>4. ASSUME NEW s \in SUBSET (1 .. k) PROVE g[s] = fold(g)[s]
    <3>1. s # {} => g[s \ {Min(s)}] \in D /\ value[Min(s)] \in C
      BY <1>1, <2>3, TakeIs DEF FoldsOver
    <3>2. s # {} => T[<<g[s \ {Min(s)}], value[Min(s)]>>]
                      = TrimStep(value[Min(s)], g[s \ {Min(s)}])
      BY <3>1 DEF T
    <3>3. g[s] = IF s = {} THEN <<>> ELSE T[<<g[s \ {Min(s)}], value[Min(s)]>>]
      BY <2>3 DEF FoldsOver, FoldEquation
    <3> QED
      BY <1>1, <3>2, <3>3
  <2>5. g = [s \in SUBSET (1 .. k) |-> g[s]]
    BY <2>3 DEF FoldsOver
  <2>6. g = fold(g)
    BY <1>1, <2>4, <2>5
  <2> QED
    BY <2>6
<1>4. iter = fold(iter)
  BY <1>3
<1>5. TrimSlashes(value) = iter[DOMAIN value]
  BY TrimIsChosen
<1> HIDE DEF iter, k
<1> DEFINE kept == [n \in 0 .. k |-> iter[n + 1 .. k]]
<1>6. kept[k] = <<>>
  <2>1. k + 1 .. k = {} /\ k \in 0 .. k
    BY <1>1
  <2>2. iter[{}] = <<>>
    BY <1>4
  <2> QED
    BY <2>1, <2>2
<1>7. ASSUME NEW n \in 1 .. k PROVE kept[n - 1] = TrimStep(value[n], kept[n])
  <2>1. n \in 0 .. k /\ n - 1 \in 0 .. k /\ (n - 1) + 1 = n
    BY <1>1
  <2>2. iter[n .. k] = TrimStep(value[n], iter[n + 1 .. k])
    <3>1. /\ n .. k \in SUBSET DOMAIN value /\ n .. k # {}
          /\ Min(n .. k) = n /\ (n .. k) \ {n} = n + 1 .. k
      BY <1>1, TakeOfAll
    <3>2. \A s \in SUBSET DOMAIN value :
            iter[s] = IF s = {} THEN <<>> ELSE TrimStep(value[Min(s)], iter[s \ {Min(s)}])
      BY <1>4
    <3>3. iter[n .. k] = TrimStep(value[Min(n .. k)], iter[(n .. k) \ {Min(n .. k)}])
      BY <3>1, <3>2, Zenon
    <3> QED
      BY <3>1, <3>3, Zenon
  <2> QED
    BY <2>1, <2>2
<1>8. kept[0] = iter[DOMAIN value]
  BY <1>1
<1>9. TrimmedBy(kept, value)
  BY <1>5, <1>6, <1>7, <1>8 DEF TrimmedBy, k
<1> QED
  BY <1>9

(* What is left of text is text.                                            *)
LEMMA TrimIsSeq ==
  ASSUME NEW C, NEW value \in Seq(C)
  PROVE  TrimSlashes(value) \in Seq(C)
<1>1. PICK kept : TrimmedBy(kept, value)
  BY TrimRuns
<1> DEFINE k == Len(value)
           Wrong == {n \in 0 .. k : kept[k - n] \notin Seq(C)}
<1>2. k \in Nat /\ \A n \in 1 .. k : value[n] \in C
  OBVIOUS
<1>3. /\ kept[k] = <<>> /\ TrimSlashes(value) = kept[0]
      /\ \A n \in 1 .. k : kept[n - 1] = TrimStep(value[n], kept[n])
  BY <1>1 DEF TrimmedBy
<1>4. Wrong = {}
  <2> SUFFICES ASSUME Wrong # {} PROVE FALSE
    OBVIOUS
  <2>1. PICK n \in Wrong : \A m \in Wrong : n <= m
    <3>1. \A m \in Wrong : m \in Nat
      OBVIOUS
    <3> HIDE DEF Wrong
    <3> QED
      BY <3>1, Least
  <2>2. n \in 0 .. k /\ kept[k - n] \notin Seq(C)
    BY <2>1
  <2> HIDE DEF k
  <2>3. n # 0
    <3>1. k - 0 = k /\ <<>> \in Seq(C)
      BY <1>2
    <3> QED
      BY <1>3, <2>2, <3>1
  <2>4. /\ n - 1 \in 0 .. k /\ n - 1 < n
        /\ (k - n) + 1 = k - (n - 1) /\ (k - n) + 1 \in 1 .. k /\ ((k - n) + 1) - 1 = k - n
    BY <1>2, <2>2, <2>3
  <2>5. kept[k - (n - 1)] \in Seq(C)
    BY <2>1, <2>4
  <2>6. kept[k - n] = TrimStep(value[(k - n) + 1], kept[(k - n) + 1])
    BY <1>3, <2>4
  <2> QED
    BY <1>2, <2>2, <2>4, <2>5, <2>6, TrimStepIs
<1>5. kept[0] \in Seq(C)
  <2>1. k \in 0 .. k /\ k - k = 0
    BY <1>2
  <2> QED
    BY <1>4, <2>1
<1> QED
  BY <1>3, <1>5

(* What Split makes of text is names, and at least one.                     *)
LEMMA SegmentsAreNames ==
  ASSUME NEW C, NEW text \in Seq(C)
  PROVE  Segments(text) \in Seq(Seq(C)) \ {<<>>}
<1>1. PICK parts : SegmentedBy(parts, text)
  BY SegmentsRun
<1> DEFINE k == Len(text)
           D == Seq(Seq(C)) \ {<<>>}
           Wrong == {n \in 0 .. k : parts[n] \notin D}
<1>2. k \in Nat /\ \A n \in 1 .. k : text[n] \in C
  OBVIOUS
<1>3. /\ parts[0] = << <<>> >> /\ Segments(text) = parts[k]
      /\ \A n \in 1 .. k : parts[n] = SegmentsStep(parts[n - 1], text[n])
  BY <1>1 DEF SegmentedBy
<1>4. << <<>> >> \in D /\ \A p \in D, c \in C : SegmentsStep(p, c) \in D
  BY StartsEmpty, SegmentsStepIs
<1> HIDE DEF D, k
<1>5. Wrong = {}
  <2> SUFFICES ASSUME Wrong # {} PROVE FALSE
    OBVIOUS
  <2>1. PICK n \in Wrong : \A m \in Wrong : n <= m
    <3>1. \A m \in Wrong : m \in Nat
      BY <1>2
    <3> HIDE DEF Wrong
    <3> QED
      BY <3>1, Least
  <2>2. n \in 0 .. k /\ parts[n] \notin D
    BY <2>1
  <2>3. n # 0
    BY <1>3, <1>4, <2>2
  <2>4. n - 1 \in 0 .. k /\ n - 1 < n /\ n \in 1 .. k
    BY <1>2, <2>2, <2>3
  <2>5. parts[n - 1] \in D
    BY <2>1, <2>4
  <2> QED
    BY <1>2, <1>3, <1>4, <2>2, <2>4, <2>5
<1>6. parts[k] \in D
  <2>1. k \in 0 .. k
    BY <1>2
  <2> QED
    BY <1>5, <2>1
<1> QED
  BY <1>3, <1>6 DEF D

-----------------------------------------------------------------------------
(* Prefixes, place by place.                                                *)
LEMMA PrefixIs ==
  ASSUME NEW S, NEW p \in Seq(S), NEW w \in Seq(S)
  PROVE  /\ IsPrefix(p, w) <=> Len(p) <= Len(w) /\ \A i \in 1 .. Len(p) : p[i] = w[i]
         /\ IsStrictPrefix(p, w) <=> Len(p) < Len(w) /\ \A i \in 1 .. Len(p) : p[i] = w[i]
<1>1. Len(p) \in Nat /\ Len(w) \in Nat
  OBVIOUS
<1>2. ASSUME Len(p) <= Len(w)
      PROVE  SubSeq(p, 1, Len(p)) = SubSeq(w, 1, Len(p)) <=> \A i \in 1 .. Len(p) : p[i] = w[i]
  <2> DEFINE u == SubSeq(p, 1, Len(p))
             v == SubSeq(w, 1, Len(p))
  <2>1. FrontOf(p, Len(p)) /\ FrontOf(w, Len(p))
    BY <1>1, <1>2, FrontIs
  <2>2. /\ Len(u) = Len(p) /\ Len(v) = Len(p) /\ u \in Seq(Range(p)) /\ v \in Seq(Range(w))
        /\ \A i \in 1 .. Len(p) : u[i] = p[i] /\ v[i] = w[i]
    BY <2>1 DEF FrontOf
  <2> HIDE DEF u, v
  <2>3. (\A i \in 1 .. Len(p) : u[i] = v[i]) => u = v
    BY <2>2, SeqEqual
  <2>4. u = v <=> \A i \in 1 .. Len(p) : p[i] = w[i]
    BY <2>2, <2>3
  <2> QED
    BY <2>4 DEF u, v
<1>3. IsPrefix(p, w) <=> Len(p) <= Len(w) /\ \A i \in 1 .. Len(p) : p[i] = w[i]
  BY <1>2 DEF IsPrefix
<1>4. Len(p) = Len(w) /\ (\A i \in 1 .. Len(p) : p[i] = w[i]) => p = w
  BY SeqEqual
<1>5. p = w => ~ (Len(p) < Len(w))
  BY <1>1
<1>6. Len(p) <= Len(w) <=> Len(p) < Len(w) \/ Len(p) = Len(w)
  BY <1>1
<1> QED
  BY <1>3, <1>4, <1>5, <1>6 DEF IsStrictPrefix

(* envsRepoPath: what is not refused is a path of names that are kept.      *)
LEMMA EnvsPathIs ==
  ASSUME NEW tail \in Seq(Word), tail # <<>>, Kept(tail), NEW raw \in Word,
         EnvsRepoPath(tail, raw) # Refused
  PROVE  EnvsRepoPath(tail, raw) \in Seq(Word) /\ Kept(EnvsRepoPath(tail, raw))
<1>1. CASE raw = <<>>
  <2> DEFINE path == Append(Front(tail), EnvsRepoName)
  <2>1. EnvsRepoPath(tail, raw) = path
    BY <1>1 DEF EnvsRepoPath
  <2>2. /\ path \in Seq(Word) /\ Len(path) = Len(tail) /\ path[Len(tail)] = EnvsRepoName
        /\ \A i \in 1 .. Len(tail) - 1 : path[i] = tail[i]
    BY WordsAre, FrontAndMore
  <2> HIDE DEF path
  <2>3. /\ DOMAIN path = 1 .. Len(tail) /\ DOMAIN tail = 1 .. Len(tail)
        /\ \A i \in 1 .. Len(tail) : i \in 1 .. Len(tail) - 1 \/ i = Len(tail)
    BY <2>2
  <2>4. Kept(path)
    BY <2>2, <2>3, WordsAre DEF Kept
  <2> QED
    BY <2>1, <2>2, <2>4
<1>2. CASE raw # <<>>
  <2> DEFINE names == Segments(TrimSlashes(raw))
  <2>1. EnvsRepoPath(tail, raw) = names /\ \A i \in DOMAIN names : IsSafeSegment(names[i])
    BY <1>2 DEF EnvsRepoPath
  <2>2. names \in Seq(Word)
    BY TrimIsSeq, SegmentsAreNames DEF Word
  <2>3. Kept(names)
    BY <2>1 DEF Kept, IsSafeSegment
  <2> QED
    BY <2>1, <2>2, <2>3
<1> QED
  BY <1>1, <1>2

(* How long the path to the repository of the environments is.              *)
LEMMA EnvsPathLength ==
  ASSUME NEW tail \in Seq(Word), tail # <<>>, NEW raw
  PROVE  /\ raw = <<>> => /\ Len(EnvsRepoPath(tail, raw)) = Len(tail)
                          /\ EnvsRepoPath(tail, raw)[Len(tail)] = EnvsRepoName
                          /\ EnvsRepoPath(tail, raw) # Refused
         /\ raw # <<>> => \A other : EnvsRepoPath(tail, raw) = EnvsRepoPath(other, raw)
<1>1. CASE raw = <<>>
  <2> DEFINE path == Append(Front(tail), EnvsRepoName)
  <2>1. EnvsRepoPath(tail, raw) = path
    BY <1>1 DEF EnvsRepoPath
  <2>2. path \in Seq(Word) /\ Len(path) = Len(tail) /\ path[Len(tail)] = EnvsRepoName
    BY WordsAre, FrontAndMore
  <2> HIDE DEF path
  <2>3. Len(tail) # 0 /\ Len(<<>>) = 0
    OBVIOUS
  <2> QED
    BY <1>1, <2>1, <2>2, <2>3 DEF Refused
<1>2. CASE raw # <<>>
  BY <1>2 DEF EnvsRepoPath
<1> QED
  BY <1>1, <1>2

(* No two repositories have one environment.                                *)
LEMMA EnvsApart ==
  ASSUME NEW base \in Seq(Word), NEW raw \in Word,
         NEW tail \in Seq(Word), tail # <<>>, Kept(tail), EnvsRepoPath(tail, raw) # Refused,
         NEW other \in Seq(Word), other # <<>>, Kept(other),
         EnvDir(base, other, raw) = EnvDir(base, tail, raw)
  PROVE  other = tail
<1> DEFINE p == EnvsRepoPath(tail, raw)
           q == EnvsRepoPath(other, raw)
           root == EnvsRoot(base, tail, raw)
           side == EnvsRoot(base, other, raw)
           env == EnvDir(base, tail, raw)
<1>1. \/ Len(p) = Len(q)
      \/ Len(p) = Len(tail) /\ Len(q) = Len(other)
  BY EnvsPathLength
<1>2. q # Refused
  BY EnvsPathLength
<1>3. /\ p \in Seq(Word) /\ Kept(p) /\ q \in Seq(Word) /\ Kept(q)
  BY <1>2, EnvsPathIs
<1>4. RootAt(root, base, p) /\ RootAt(side, base, q)
  BY <1>3, RootIs
<1>5. root \in Seq(Word) /\ side \in Seq(Word)
  BY <1>4 DEF RootAt
<1>6. EnvAt(env, root, tail) /\ EnvAt(env, side, other)
  <2>1. EnvAt(EnvDir(base, other, raw), side, other) /\ EnvAt(env, root, tail)
    BY <1>5, EnvIs
  <2> QED
    BY <2>1
<1> HIDE DEF p, q, root, side, env
<1>7. /\ Len(root) = Len(base) + Len(p) + 1 /\ Len(side) = Len(base) + Len(q) + 1
      /\ Len(env) = Len(root) + Len(tail) /\ Len(env) = Len(side) + Len(other)
      /\ \A i \in 1 .. Len(tail) - 1 : env[Len(root) + i] = tail[i]
      /\ \A i \in 1 .. Len(other) - 1 : env[Len(side) + i] = other[i]
      /\ env[Len(root) + Len(tail)] = tail[Len(tail)] \o Env
      /\ env[Len(side) + Len(other)] = other[Len(other)] \o Env
  BY <1>4, <1>6 DEF RootAt, EnvAt
<1>8. /\ Len(p) \in Nat /\ Len(q) \in Nat /\ Len(tail) \in Nat /\ Len(other) \in Nat
      /\ Len(base) \in Nat /\ Len(tail) # 0 /\ Len(other) # 0
  BY <1>3, LenProperties, EmptySeq
<1>9. Len(tail) = Len(other) /\ Len(root) = Len(side)
  <2>1. /\ Len(root) = Len(base) + Len(p) + 1 /\ Len(side) = Len(base) + Len(q) + 1
        /\ Len(root) + Len(tail) = Len(side) + Len(other)
    BY <1>7
  <2>2. CASE Len(p) = Len(q)
    BY <1>8, <2>1, <2>2
  <2>3. CASE Len(p) = Len(tail) /\ Len(q) = Len(other)
    BY <1>8, <2>1, <2>3
  <2> QED
    BY <1>1, <2>2, <2>3
<1>10. \A i \in 1 .. Len(tail) - 1 : tail[i] = other[i]
  BY <1>7, <1>9
<1>11. tail[Len(tail)] = other[Len(tail)]
  <2>1. Len(tail) \in 1 .. Len(tail) /\ Len(other) \in 1 .. Len(other)
    BY <1>8
  <2>2. tail[Len(tail)] \in Word /\ other[Len(other)] \in Word
    BY <2>1, ElementOfSeq
  <2>3. tail[Len(tail)] \o Env = other[Len(other)] \o Env
    BY <1>7, <1>9
  <2> QED
    BY <1>9, <2>2, <2>3, NamedApart
<1>12. \A i \in 1 .. Len(tail) : i \in 1 .. Len(tail) - 1 \/ i = Len(tail)
  BY <1>8
<1>13. \A i \in 1 .. Len(tail) : tail[i] = other[i]
  BY <1>10, <1>11, <1>12
<1> QED
  BY <1>9, <1>13, SeqEqual

(* Without a value, only the repository of the environments is around its   *)
(* own environment.                                                         *)
LEMMA CloneIsNotAround ==
  ASSUME NEW base \in Seq(Word), NEW tail \in Seq(Word), tail # <<>>, Kept(tail),
         Last(tail) # EnvsRepoName
  PROVE  ~ IsPrefix(Join(base, tail), EnvDir(base, tail, <<>>))
<1> DEFINE p == EnvsRepoPath(tail, <<>>)
           root == EnvsRoot(base, tail, <<>>)
           env == EnvDir(base, tail, <<>>)
           clone == base \o tail
           k == Len(tail)
<1>1. p # Refused /\ Len(p) = k /\ p[k] = EnvsRepoName
  BY EnvsPathLength
<1>2. p \in Seq(Word) /\ Kept(p)
  <2>1. <<>> \in Word
    BY DEF Word
  <2> QED
    BY <1>1, <2>1, EnvsPathIs
<1>3. RootAt(root, base, p)
  BY <1>2, RootIs
<1>4. EnvAt(env, root, tail)
  <2>1. root \in Seq(Word)
    BY <1>3 DEF RootAt
  <2> QED
    BY <2>1, EnvIs
<1>5. Join(base, tail) = clone
  BY JoinAppends
<1>6. /\ clone \in Seq(Word) /\ Len(clone) = Len(base) + Len(tail)
      /\ Len(base) \in Nat /\ Len(tail) \in Nat
      /\ \A i \in 1 .. Len(tail) : clone[Len(base) + i] = tail[i]
  BY ConcatIs
<1> HIDE DEF p, root, env, clone
<1>7. /\ root \in Seq(Word) /\ Len(root) = Len(base) + Len(p) + 1
      /\ \A i \in 1 .. Len(p) : root[Len(base) + i] = p[i]
      /\ env \in Seq(Word) /\ \A i \in 1 .. Len(root) : env[i] = root[i]
  BY <1>3, <1>4 DEF RootAt, EnvAt
<1>8. Len(tail) # 0
  OBVIOUS
<1>9. /\ k \in 1 .. Len(tail) /\ Len(base) + k \in 1 .. Len(clone)
      /\ Len(base) + k \in 1 .. Len(root) /\ k \in 1 .. Len(p)
  BY <1>1, <1>6, <1>7, <1>8
<1>10. clone[Len(base) + k] = tail[k] /\ env[Len(base) + k] = EnvsRepoName
  BY <1>1, <1>6, <1>7, <1>9
<1>11. IsPrefix(clone, env) => clone[Len(base) + k] = env[Len(base) + k]
  <2>1. clone \in Seq(Word) /\ env \in Seq(Word)
    BY <1>6, <1>7
  <2>2. IsPrefix(clone, env) => \A i \in 1 .. Len(clone) : clone[i] = env[i]
    BY <2>1, PrefixIs
  <2> QED
    BY <1>9, <2>2
<1> QED
  BY <1>5, <1>10, <1>11 DEF Last, env

-----------------------------------------------------------------------------
(* Where a link leads: the first name may be another, and nothing else.     *)
PhysicalAt(q, links, path, S) ==
  /\ q \in Seq(S) /\ Len(q) = Len(path)
  /\ q[1] = IF path[1] \in DOMAIN links THEN links[path[1]] ELSE path[1]
  /\ \A i \in 2 .. Len(path) : q[i] = path[i]

LEMMA PhysicalIs ==
  ASSUME NEW S, NEW path \in Seq(S), path # <<>>, NEW links
  PROVE  PhysicalAt(Physical(links, path), links, path, S \cup {links[path[1]]})
<1> DEFINE first == links[path[1]]
           more == Tail(path)
           q == <<first>> \o more
<1>1. CASE path[1] \in DOMAIN links
  <2>1. Physical(links, path) = q
    BY <1>1 DEF Physical
  <2>2. /\ more \in Seq(S) /\ Len(more) = Len(path) - 1
        /\ \A i \in 1 .. Len(more) : more[i] = path[i + 1]
    OBVIOUS
  <2>3. Len(path) \in Nat /\ Len(path) # 0
    OBVIOUS
  <2> HIDE DEF more, first
  <2>4. more \in Seq(S \cup {first}) /\ <<first>> \in Seq(S \cup {first})
    <3>1. <<first>> \in Seq({first})
      OBVIOUS
    <3> QED
      BY <2>2, <3>1
  <2>5. /\ q \in Seq(S \cup {first}) /\ Len(q) = Len(<<first>>) + Len(more)
        /\ \A i \in 1 .. Len(<<first>>) : q[i] = <<first>>[i]
        /\ \A i \in 1 .. Len(more) : q[Len(<<first>>) + i] = more[i]
    BY <2>4, ConcatIs
  <2>6. Len(<<first>>) = 1 /\ <<first>>[1] = first
    OBVIOUS
  <2> HIDE DEF q
  <2>7. q[1] = first /\ Len(q) = Len(path)
    BY <2>2, <2>3, <2>5, <2>6
  <2>8. ASSUME NEW i \in 2 .. Len(path) PROVE q[i] = path[i]
    <3>1. i - 1 \in 1 .. Len(more) /\ 1 + (i - 1) = i /\ (i - 1) + 1 = i
      BY <2>2, <2>3
    <3> QED
      BY <2>2, <2>5, <2>6, <3>1
  <2> QED
    BY <1>1, <2>1, <2>5, <2>7, <2>8 DEF PhysicalAt, first
<1>2. CASE path[1] \notin DOMAIN links
  <2>1. Physical(links, path) = path
    BY <1>2 DEF Physical
  <2>2. path \in Seq(S \cup {first})
    OBVIOUS
  <2> QED
    BY <1>2, <2>1, <2>2 DEF PhysicalAt
<1> QED
  BY <1>1, <1>2

(* What is below a directory is below it where the links lead.              *)
LEMMA PhysicalIsBelow ==
  ASSUME NEW S, NEW p \in Seq(S), p # <<>>, NEW w \in Seq(S), IsStrictPrefix(p, w), NEW links
  PROVE  \E D : /\ Physical(links, p) \in Seq(D) /\ Physical(links, w) \in Seq(D)
                /\ Len(Physical(links, p)) = Len(p)
                /\ IsStrictPrefix(Physical(links, p), Physical(links, w))
<1> DEFINE D == S \cup {links[p[1]]}
           c == Physical(links, p)
           d == Physical(links, w)
<1>1. Len(p) < Len(w) /\ \A i \in 1 .. Len(p) : p[i] = w[i]
  BY PrefixIs
<1>2. Len(p) \in Nat /\ Len(w) \in Nat /\ Len(p) # 0
  OBVIOUS
<1>3. w # <<>> /\ 1 \in 1 .. Len(p) /\ p[1] = w[1]
  <2>1. Len(w) # 0 /\ 1 \in 1 .. Len(p)
    BY <1>1, <1>2
  <2> QED
    BY <1>1, <2>1
<1>4. PhysicalAt(c, links, p, D)
  BY PhysicalIs
<1>5. PhysicalAt(d, links, w, D)
  <2>1. PhysicalAt(d, links, w, S \cup {links[w[1]]})
    BY <1>3, PhysicalIs
  <2> QED
    BY <1>3, <2>1
<1> HIDE DEF c, d, D
<1>6. /\ c \in Seq(D) /\ d \in Seq(D) /\ Len(c) = Len(p) /\ Len(d) = Len(w)
      /\ c[1] = d[1]
      /\ \A i \in 2 .. Len(p) : c[i] = p[i]
      /\ \A i \in 2 .. Len(w) : d[i] = w[i]
  BY <1>3, <1>4, <1>5 DEF PhysicalAt
<1>7. ASSUME NEW i \in 1 .. Len(c) PROVE c[i] = d[i]
  <2>1. CASE i = 1
    BY <1>6, <2>1
  <2>2. CASE i # 1
    <3>1. i \in 2 .. Len(p) /\ i \in 2 .. Len(w) /\ i \in 1 .. Len(p)
      BY <1>1, <1>2, <1>6, <2>2
    <3> QED
      BY <1>1, <1>6, <3>1
  <2> QED
    BY <2>1, <2>2
<1>8. IsStrictPrefix(c, d)
  <2>1. Len(c) < Len(d)
    BY <1>1, <1>6
  <2>2. c \in Seq(D) /\ d \in Seq(D)
    BY <1>6
  <2> QED
    BY <1>7, <2>1, <2>2, PrefixIs
<1> QED
  BY <1>6, <1>8 DEF c, d

(* gitCeilingEnv: the ceiling is there, and none that was there is lost.    *)
LEMMA CeilingIsAdded ==
  ASSUME NEW root, root # <<>>, NEW E, NEW inherited \in Seq(E), NEW links
  PROVE  LET entries == GitCeilingEnv(root, inherited) IN
           /\ Physical(links, root) \in Ceilings(links, entries)
           /\ Ceilings(links, inherited) \subseteq Ceilings(links, entries)
<1> DEFINE entries == GitCeilingEnv(root, inherited)
           marked(list, i) == \E k \in 1 .. i : list[k] = Marker
           found(list, i) == IF marked(list, i) THEN list[i].path
                             ELSE Physical(links, list[i].path)
<1>1. \A list : Ceilings(links, list) = {found(list, i) : i \in {j \in DOMAIN list : list[j] # Marker}}
  BY DEF Ceilings
<1>2. CASE \E entry \in BeforeMarker(inherited) : entry.path = root
  <2>1. entries = inherited
    BY <1>2 DEF GitCeilingEnv
  <2>2. PICK i \in DOMAIN inherited :
          (\A k \in 1 .. i : inherited[k] # Marker) /\ inherited[i].path = root
    BY <1>2 DEF BeforeMarker
  <2>3. inherited[i] # Marker
    <3>1. i \in 1 .. i
      OBVIOUS
    <3> QED
      BY <2>2, <3>1
  <2>4. found(inherited, i) = Physical(links, root)
    BY <2>2
  <2> HIDE DEF found
  <2>5. Physical(links, root) \in Ceilings(links, inherited)
    BY <1>1, <2>3, <2>4
  <2> QED
    BY <2>1, <2>5
<1>3. CASE ~ \E entry \in BeforeMarker(inherited) : entry.path = root
  <2> DEFINE first == Ceiling(root, FALSE)
             list == <<first>> \o inherited
             F == E \cup {first}
  <2>1. entries = list
    BY <1>3 DEF GitCeilingEnv
  <2>2. first # Marker /\ first.path = root
    BY DEF Ceiling, Marker
  <2>3. <<first>> \in Seq(F) /\ inherited \in Seq(F)
    <3>1. first \in F
      OBVIOUS
    <3> HIDE DEF first
    <3> QED
      BY <3>1, OneOrNone
  <2> HIDE DEF first, F
  <2>4. /\ list \in Seq(F) /\ Len(list) = Len(<<first>>) + Len(inherited)
        /\ \A i \in 1 .. Len(<<first>>) : list[i] = <<first>>[i]
        /\ \A i \in 1 .. Len(inherited) : list[Len(<<first>>) + i] = inherited[i]
    BY <2>3, ConcatIs
  <2>5. Len(<<first>>) = 1 /\ <<first>>[1] = first
    OBVIOUS
  <2> HIDE DEF list
  <2>6. /\ list[1] = first /\ DOMAIN list = 1 .. 1 + Len(inherited) /\ Len(inherited) \in Nat
        /\ DOMAIN inherited = 1 .. Len(inherited)
        /\ \A i \in 1 .. Len(inherited) : list[i + 1] = inherited[i]
    <3>1. \A i \in 1 .. Len(inherited) : 1 + i = i + 1
      OBVIOUS
    <3> QED
      BY <2>4, <2>5, <3>1
  <2>7. Physical(links, root) \in Ceilings(links, list)
    <3>1. 1 \in DOMAIN list /\ list[1] # Marker /\ list[1].path = root
      BY <2>2, <2>6
    <3>2. ~ marked(list, 1)
      BY <3>1
    <3>3. found(list, 1) = Physical(links, root)
      BY <3>1, <3>2
    <3> HIDE DEF found
    <3> QED
      BY <1>1, <3>1, <3>3
  <2>8. ASSUME NEW i \in DOMAIN inherited, inherited[i] # Marker
        PROVE  found(inherited, i) \in Ceilings(links, list)
    <3>1. i + 1 \in DOMAIN list /\ list[i + 1] = inherited[i]
      BY <2>6
    <3>2. marked(list, i + 1) <=> marked(inherited, i)
      <4>1. ASSUME NEW k \in 1 .. i, inherited[k] = Marker PROVE marked(list, i + 1)
        <5>1. k + 1 \in 1 .. i + 1 /\ list[k + 1] = Marker
          BY <2>6, <4>1
        <5> QED
          BY <5>1
      <4>2. ASSUME NEW k \in 1 .. i + 1, list[k] = Marker PROVE marked(inherited, i)
        <5>1. k # 1
          BY <2>2, <2>6, <4>2
        <5>2. k - 1 \in 1 .. i /\ k - 1 \in 1 .. Len(inherited) /\ (k - 1) + 1 = k
          BY <2>6, <5>1
        <5>3. inherited[k - 1] = Marker
          BY <2>6, <4>2, <5>2
        <5> QED
          BY <5>2, <5>3
      <4> QED
        BY <4>1, <4>2
    <3>3. found(list, i + 1) = found(inherited, i)
      BY <3>1, <3>2
    <3>4. list[i + 1] # Marker
      BY <2>8, <3>1
    <3> HIDE DEF found, marked
    <3> QED
      BY <1>1, <3>1, <3>3, <3>4
  <2>9. Ceilings(links, inherited) \subseteq Ceilings(links, list)
    <3> HIDE DEF found
    <3> QED
      BY <1>1, <2>8
  <2> QED
    BY <2>1, <2>7, <2>9
<1> QED
  BY <1>2, <1>3

(* git looks for a repository below the ceiling only.                       *)
LEMMA SearchedBelow ==
  ASSUME NEW S, NEW root \in Seq(S), root # <<>>, NEW dir \in Seq(S),
         IsStrictPrefix(root, dir), NEW links, NEW entries,
         Physical(links, root) \in Ceilings(links, entries),
         NEW d \in Searched(links, entries, dir)
  PROVE  IsStrictPrefix(Physical(links, root), d)
<1> DEFINE here == Physical(links, dir)
           c == Physical(links, root)
<1>1. PICK D : c \in Seq(D) /\ here \in Seq(D) /\ IsStrictPrefix(c, here)
  BY PhysicalIsBelow
<1>2. PICK n \in 0 .. Len(here) : n > Len(c) /\ d = SubSeq(here, 1, n)
  BY <1>1 DEF Searched
<1> HIDE DEF here, c
<1>3. /\ d \in Seq(Range(here)) /\ Len(d) = n /\ \A i \in 1 .. n : d[i] = here[i]
  BY <1>1, <1>2, FrontIs DEF FrontOf
<1>4. d \in Seq(D)
  <2>1. Range(here) \subseteq D
    BY <1>1 DEF Range
  <2> QED
    BY <1>3, <2>1
<1>5. Len(c) < Len(here) /\ \A i \in 1 .. Len(c) : c[i] = here[i]
  BY <1>1, PrefixIs
<1>6. /\ Len(c) < Len(d) /\ \A i \in 1 .. Len(c) : i \in 1 .. n
  <2>1. Len(c) \in Nat
    BY <1>1
  <2> QED
    BY <1>2, <1>3, <2>1
<1>7. \A i \in 1 .. Len(c) : c[i] = d[i]
  BY <1>3, <1>5, <1>6
<1>8. IsStrictPrefix(c, d)
  BY <1>1, <1>4, <1>6, <1>7, PrefixIs
<1> QED
  BY <1>8 DEF c

-----------------------------------------------------------------------------
LEMMA BoundedAreSeqs ==
  ASSUME NEW S, NEW n \in Nat, NEW s \in BoundedSeq(S, n)
  PROVE  s \in Seq(S)
<1>1. PICK m \in 0 .. n : s \in [1 .. m -> S]
  BY DEF BoundedSeq, SeqOf
<1> QED
  BY <1>1

LEMMA RepositoriesAre ==
  ASSUME NEW tail \in Repositories
  PROVE  tail \in Seq(Word) /\ tail # <<>> /\ Kept(tail)
<1> DEFINE R == {<<x>>, <<X>>, EnvsRepoName, <<x>> \o Env}
<1>1. \A r \in R : r \in Word /\ r # <<>> /\ r # <<Mark("..")>>
  <2>1. <<x>> # <<Mark("..")>> /\ <<X>> # <<Mark("..")>>
    BY DEF x, X, Mark, Char
  <2>2. <<x>> # <<>>
    OBVIOUS
  <2>3. <<x>> \o Env \in Word /\ <<x>> \o Env # <<>> /\ <<x>> \o Env # <<Mark("..")>>
    BY <2>2, WordsAre, NamedEnv
  <2>4. /\ <<x>> \in Word /\ <<x>> # <<>> /\ <<X>> \in Word /\ <<X>> # <<>>
        /\ EnvsRepoName \in Word /\ EnvsRepoName # <<>> /\ EnvsRepoName # <<Mark("..")>>
    BY <2>2, WordsAre
  <2> SUFFICES ASSUME NEW r \in R PROVE r \in Word /\ r # <<>> /\ r # <<Mark("..")>>
    OBVIOUS
  <2>5. r = <<x>> \/ r = <<X>> \/ r = EnvsRepoName \/ r = <<x>> \o Env
    OBVIOUS
  <2> HIDE DEF R
  <2> QED
    BY <2>1, <2>3, <2>4, <2>5, Zenon
<1>2. PICK n \in 2 .. 3 : \E path \in [1 .. n -> R] : tail = << <<x>> >> \o path
  BY DEF Repositories
<1>9. PICK path \in [1 .. n -> R] : tail = << <<x>> >> \o path
  BY <1>2
<1> HIDE DEF R
<1>3. << <<x>> >> \in Seq(R) /\ path \in Seq(R)
  <2>1. <<x>> \in R
    BY DEF R
  <2>2. n \in Nat
    BY <1>2
  <2> QED
    BY <1>9, <2>1, <2>2, OneOrNone
<1>4. tail \in Seq(R) /\ Len(tail) = Len(<< <<x>> >>) + Len(path)
  BY <1>9, <1>3, ConcatIs
<1>5. tail # <<>>
  <2>1. Len(<< <<x>> >>) = 1 /\ Len(path) \in Nat
    BY <1>3
  <2> QED
    BY <1>4, <2>1
<1>6. tail \in Seq(Word) /\ Kept(tail)
  <2>1. \A i \in DOMAIN tail : tail[i] \in R
    BY <1>4
  <2>2. R \subseteq Word
    BY <1>1
  <2> QED
    BY <1>1, <1>4, <2>1, <2>2 DEF Kept
<1> QED
  BY <1>5, <1>6

LEMMA PathsAre ==
  /\ Base \in Seq(Word) /\ Base # <<>>
  /\ Widget \in Seq(Word) /\ Widget # <<>> /\ Kept(Widget)
<1>1. Base \in Seq(Word) /\ Base # <<>>
  BY WordsAre DEF Base
<1>2. Widget \in Seq(Word) /\ Widget # <<>>
  BY WordsAre DEF Widget
<1>3. Kept(Widget)
  <2>1. DOMAIN Widget = 1 .. 3 /\ Widget[1] = <<x>> /\ Widget[2] = <<x, X>> /\ Widget[3] = <<X>>
    BY DEF Widget
  <2>2. \A i \in 1 .. 3 : i = 1 \/ i = 2 \/ i = 3
    OBVIOUS
  <2>3. /\ <<x>> # <<>> /\ <<x>> # <<Mark("..")>> /\ <<X>> # <<>> /\ <<X>> # <<Mark("..")>>
        /\ <<x, X>> # <<>> /\ <<x, X>> # <<Mark("..")>>
    BY DEF x, X, Mark, Char
  <2> QED
    BY <2>1, <2>2, <2>3 DEF Kept
<1> QED
  BY <1>1, <1>2, <1>3

(* A call for a workspace or for a ceiling, and its answer.                 *)
PanesInv ==
  /\ input.call = "workspace" =>
       /\ input.tail \in Repositories /\ input.raw \in RawValues
       /\ LET dirs == {Join(Base, input.tail), EnvDir(Base, input.tail, input.raw)} IN
            \/ output = Waiting
            \/ \E lacks \in SUBSET dirs :
                 output = [panes |-> PanesOf(Base, input.tail, input.raw, dirs \ lacks),
                           lacks |-> lacks]
  /\ input.call = "ceiling" =>
       /\ input.inherited \in Inherited
       /\ \/ output = Waiting
          \/ output = [entries |-> GitCeilingEnv(EnvsRoot(Base, Widget, <<>>), input.inherited)]

(* Resolve, gitCeilingEnv, for any base, repository, value and links: the   *)
(* environment is below the base and below its ceiling, no two repositories *)
(* have one, and without a value only the repository of the environments is *)
(* around its own; git does not look at the ceiling or above it, and keeps  *)
(* the ceilings it had.                                                     *)
THEOREM WorkspacesAreApart ==
  ASSUME NEW base \in Seq(Word), base # <<>>, NEW raw \in Word,
         NEW tail \in Seq(Word), tail # <<>>, Kept(tail), EnvsRepoPath(tail, raw) # Refused,
         NEW E, NEW inherited \in Seq(E), NEW links
  PROVE  LET root    == EnvsRoot(base, tail, raw)
             env     == EnvDir(base, tail, raw)
             entries == GitCeilingEnv(root, inherited)
         IN  /\ IsStrictPrefix(base, env) /\ IsStrictPrefix(root, env)
             /\ \A other \in Seq(Word) :
                  /\ other # <<>> /\ Kept(other)
                  /\ EnvDir(base, other, raw) = env
                  => other = tail
             /\ raw = <<>> /\ Last(tail) # EnvsRepoName => ~ IsPrefix(Join(base, tail), env)
             /\ \A dir \in Searched(links, entries, env) :
                  IsStrictPrefix(Physical(links, root), dir)
             /\ Ceilings(links, inherited) \subseteq Ceilings(links, entries)
<1> DEFINE root == EnvsRoot(base, tail, raw)
           env == EnvDir(base, tail, raw)
           entries == GitCeilingEnv(root, inherited)
<1>1. RootAt(root, base, EnvsRepoPath(tail, raw)) /\ IsStrictPrefix(base, root)
  BY EnvsPathIs, RootIs
<1>2. root \in Seq(Word)
  BY <1>1 DEF RootAt
<1>3. EnvAt(env, root, tail) /\ IsStrictPrefix(root, env)
  BY <1>2, EnvIs
<1>4. env \in Seq(Word)
  BY <1>3 DEF EnvAt
<1>5. \A other \in Seq(Word) : other # <<>> /\ Kept(other) /\ EnvDir(base, other, raw) = env
        => other = tail
  BY EnvsApart
<1>6. raw = <<>> /\ Last(tail) # EnvsRepoName => ~ IsPrefix(Join(base, tail), env)
  BY CloneIsNotAround
<1> HIDE DEF root, env
<1>7. Len(base) < Len(root) /\ \A i \in 1 .. Len(base) : base[i] = root[i]
  BY <1>1, <1>2, PrefixIs
<1>8. Len(root) < Len(env) /\ \A i \in 1 .. Len(root) : root[i] = env[i]
  BY <1>2, <1>3, <1>4, PrefixIs
<1>9. Len(base) \in Nat /\ Len(root) \in Nat /\ Len(env) \in Nat
  BY <1>2, <1>4, LenProperties
<1>10. IsStrictPrefix(base, env)
  <2>1. Len(base) < Len(env) /\ \A i \in 1 .. Len(base) : i \in 1 .. Len(root)
    BY <1>7, <1>8, <1>9
  <2>2. \A i \in 1 .. Len(base) : base[i] = env[i]
    BY <1>7, <1>8, <2>1
  <2> QED
    BY <1>4, <2>1, <2>2, PrefixIs
<1>11. root # <<>>
  <2>1. Len(root) # 0
    BY <1>7, <1>9
  <2> QED
    BY <2>1
<1>12. /\ Physical(links, root) \in Ceilings(links, entries)
       /\ Ceilings(links, inherited) \subseteq Ceilings(links, entries)
  BY <1>11, CeilingIsAdded
<1> HIDE DEF entries
<1>13. \A dir \in Searched(links, entries, env) : IsStrictPrefix(Physical(links, root), dir)
  BY <1>2, <1>3, <1>4, <1>11, <1>12, SearchedBelow
<1> QED
  BY <1>3, <1>5, <1>6, <1>10, <1>12, <1>13 DEF root, env, entries

(* Resolve, gitCeilingEnv: an environment that is opened is there, below    *)
(* the base and its ceiling, and of one repository only; git stops above it *)
(* and keeps the ceilings it had.                                           *)
THEOREM PanesStayApart == Spec => []PanesAreApart
<1>1. Init => PanesInv
  BY Called DEF PanesInv
<1>2. PanesInv /\ [Next]_vars => PanesInv'
  <2> SUFFICES ASSUME PanesInv, [Next]_vars PROVE PanesInv'
    OBVIOUS
  <2>1. CASE UNCHANGED vars
    BY <2>1 DEF vars, PanesInv
  <2>2. CASE Next
    <3>1. input' = input
      BY <2>2, Answered
    <3>2. input.call = "workspace" => OpenWorkspace
      BY <2>2, Answered
    <3>3. input.call = "ceiling" => GuardPane
      BY <2>2, Answered
    <3> QED
      BY <3>1, <3>2, <3>3 DEF PanesInv, OpenWorkspace, GuardPane
  <2> QED
    BY <2>1, <2>2
<1>3. PanesInv => PanesAreApart
  <2> SUFFICES ASSUME PanesInv PROVE PanesAreApart
    OBVIOUS
  <2>1. ASSUME Done("workspace"), output.panes # Refused
        PROVE  LET panes == output.panes IN
                 /\ output.lacks = {}
                 /\ IsStrictPrefix(Base, panes.env) /\ IsStrictPrefix(panes.ceiling, panes.env)
                 /\ \A other \in Repositories :
                      EnvDir(Base, other, input.raw) = panes.env => other = input.tail
                 /\ input.raw = <<>> /\ Last(input.tail) # EnvsRepoName
                      => ~ IsPrefix(panes.clone, panes.env)
    <3> DEFINE tail == input.tail
               raw == input.raw
               clone == Join(Base, tail)
               env == EnvDir(Base, tail, raw)
               root == EnvsRoot(Base, tail, raw)
    <3>1. /\ tail \in Repositories /\ raw \in RawValues
          /\ \E lacks \in SUBSET {clone, env} :
               output = [panes |-> PanesOf(Base, tail, raw, {clone, env} \ lacks),
                         lacks |-> lacks]
      BY <2>1 DEF PanesInv, Done
    <3>2. PICK lacks \in SUBSET {clone, env} :
            output = [panes |-> PanesOf(Base, tail, raw, {clone, env} \ lacks), lacks |-> lacks]
      BY <3>1
    <3>3. /\ EnvsRepoPath(tail, raw) # Refused /\ {clone, env} \subseteq {clone, env} \ lacks
          /\ output.panes = [clone |-> clone, env |-> env, ceiling |-> root]
      BY <2>1, <3>2 DEF PanesOf
    <3>4. output.lacks = {}
      BY <3>2, <3>3
    <3>5. tail \in Seq(Word) /\ tail # <<>> /\ Kept(tail)
      BY <3>1, RepositoriesAre
    <3>6. raw \in Word
      <4>1. RawValues \subseteq Seq({x, Mark("/"), Mark(".."), Mark(":")})
        BY BoundedAreSeqs DEF RawValues
      <4>2. {x, Mark("/"), Mark(".."), Mark(":")} \subseteq Glyph
        BY DEF x, Mark, Char, Glyph
      <4> QED
        BY <3>1, <4>1, <4>2 DEF Word
    <3>7. <<>> \in Seq({})
      OBVIOUS
    <3>8. /\ IsStrictPrefix(Base, env) /\ IsStrictPrefix(root, env)
          /\ \A other \in Seq(Word) :
                  /\ other # <<>> /\ Kept(other)
                  /\ EnvDir(Base, other, raw) = env
                  => other = tail
          /\ raw = <<>> /\ Last(tail) # EnvsRepoName => ~ IsPrefix(clone, env)
      BY <3>3, <3>5, <3>6, <3>7, PathsAre, WorkspacesAreApart
    <3> HIDE DEF tail, raw, clone, env, root
    <3>9. /\ output.panes.env = env /\ output.panes.ceiling = root /\ output.panes.clone = clone
      BY <3>3
    <3>10. \A other \in Repositories : EnvDir(Base, other, raw) = env => other = tail
      BY <3>8, RepositoriesAre
    <3> QED
      BY <3>4, <3>8, <3>9, <3>10 DEF tail, raw
  <2>2. ASSUME Done("ceiling")
        PROVE  LET root == EnvsRoot(Base, Widget, <<>>)
                   found == Searched(input.links, output.entries, EnvDir(Base, Widget, <<>>))
               IN  /\ \A dir \in found : IsStrictPrefix(Physical(input.links, root), dir)
                   /\ Ceilings(input.links, input.inherited)
                        \subseteq Ceilings(input.links, output.entries)
    <3> DEFINE root == EnvsRoot(Base, Widget, <<>>)
               env == EnvDir(Base, Widget, <<>>)
    <3>1. /\ input.inherited \in Inherited
          /\ output.entries = GitCeilingEnv(root, input.inherited)
      BY <2>2 DEF PanesInv, Done
    <3>2. PICK E : input.inherited \in Seq(E)
      <4>1. \E E : Inherited \subseteq BoundedSeq(E, 3)
        BY DEF Inherited
      <4> QED
        BY <3>1, <4>1, BoundedAreSeqs
    <3>3. <<>> \in Word
      BY DEF Word
    <3>4. EnvsRepoPath(Widget, <<>>) # Refused
      BY PathsAre, EnvsPathLength
    <3>5. /\ \A dir \in Searched(input.links, GitCeilingEnv(root, input.inherited), env) :
                IsStrictPrefix(Physical(input.links, root), dir)
          /\ Ceilings(input.links, input.inherited)
               \subseteq Ceilings(input.links, GitCeilingEnv(root, input.inherited))
      BY <3>2, <3>3, <3>4, PathsAre, WorkspacesAreApart
    <3> QED
      BY <3>1, <3>5
  <2> QED
    BY <2>1, <2>2 DEF PanesAreApart
<1> QED
  BY <1>1, <1>2, <1>3, PTL DEF Spec

-----------------------------------------------------------------------------
(* The location of a working tree.                                          *)

(* canonical, one name.                                                     *)
CanonicalStep(disk, dir, name) == IF dir = Nowhere THEN Nowhere ELSE OnDisk(disk, dir, name)

LEMMA CanonicalIsChosen ==
  ASSUME NEW disk, NEW path
  PROVE  Canonical(disk, path) =
           (CHOOSE iter : iter = [s \in SUBSET DOMAIN path |->
               IF s = {} THEN <<>>
               ELSE CanonicalStep(disk, iter[s \ {Max(s)}], path[Max(s)])])[DOMAIN path]
BY DEF Canonical, FoldLeft, MapThenFoldSet, CanonicalStep

(* The directories canonical goes through.                                  *)
CanonicalBy(dirs, disk, path) ==
  /\ dirs[0] = <<>>
  /\ \A n \in 1 .. Len(path) : dirs[n] = CanonicalStep(disk, dirs[n - 1], path[n])
  /\ Canonical(disk, path) = dirs[Len(path)]

(* The names that are stored are in N, and so is the one of Nowhere.        *)
StoredIn(disk, N) ==
  /\ <<Mark("?")>> \in N
  /\ \A dir \in DOMAIN disk.names : disk.names[dir] \subseteq N

LEMMA CanonicalStepIs ==
  ASSUME NEW N, NEW disk, StoredIn(disk, N), NEW dir \in Seq(N), NEW name \in N
  PROVE  CanonicalStep(disk, dir, name) \in Seq(N)
<1>1. Nowhere \in Seq(N)
  BY DEF Nowhere, StoredIn
<1>2. Append(dir, name) \in Seq(N)
  OBVIOUS
<1>3. CASE dir = Nowhere \/ dir \notin DOMAIN disk.names \/ Found(disk, dir, name) = {}
  BY <1>1, <1>3 DEF CanonicalStep, OnDisk
<1>4. CASE ~ (dir = Nowhere \/ dir \notin DOMAIN disk.names \/ Found(disk, dir, name) = {})
  <2> DEFINE s == CHOOSE n \in Found(disk, dir, name) : TRUE
  <2>1. s \in Found(disk, dir, name)
    BY <1>4
  <2>2. s \in N
    BY <1>4, <2>1 DEF Found, StoredIn
  <2>3. \/ CanonicalStep(disk, dir, name) = Nowhere
        \/ CanonicalStep(disk, dir, name) = Append(dir, name)
        \/ CanonicalStep(disk, dir, name) = Append(dir, s)
    BY <1>4 DEF CanonicalStep, OnDisk
  <2> HIDE DEF s
  <2>4. Append(dir, s) \in Seq(N)
    BY <2>2
  <2> QED
    BY <1>1, <1>2, <2>3, <2>4
<1> QED
  BY <1>3, <1>4

LEMMA CanonicalRuns ==
  ASSUME NEW N, NEW disk, StoredIn(disk, N), NEW path \in Seq(N)
  PROVE  \E dirs : CanonicalBy(dirs, disk, path)
<1> DEFINE k == Len(path)
           D == Seq(N)
           T == [q \in D \X N |-> CanonicalStep(disk, q[1], q[2])]
           take == [s \in SUBSET (1 .. k) |-> Max(s)]
           fold(g) == [s \in SUBSET DOMAIN path |->
                         IF s = {} THEN <<>> ELSE CanonicalStep(disk, g[s \ {Max(s)}], path[Max(s)])]
           iter == CHOOSE g : g = fold(g)
<1>1. k \in Nat /\ DOMAIN path = 1 .. k /\ \A i \in 1 .. k : path[i] \in N
  OBVIOUS
<1>2. T \in [D \X N -> D]
  BY CanonicalStepIs
<1>3. \E g : g = fold(g)
  <2> HIDE DEF T, D, k
  <2>1. <<>> \in D
    BY DEF D
  <2>2. \A s \in SUBSET (1 .. k) : s # {} => take[s] \in s
    BY <1>1, TakeIs
  <2>3. PICK g : FoldsOver(g, D, T, take, <<>>, path, k)
    <3> HIDE DEF take
    <3> QED
      BY <1>1, <1>2, <2>1, <2>2, FoldExists
  <2>4. ASSUME NEW s \in SUBSET (1 .. k) PROVE g[s] = fold(g)[s]
    <3>1. s # {} => g[s \ {Max(s)}] \in D /\ path[Max(s)] \in N
      BY <1>1, <2>3, TakeIs DEF FoldsOver
    <3>2. s # {} => T[<<g[s \ {Max(s)}], path[Max(s)]>>]
                      = CanonicalStep(disk, g[s \ {Max(s)}], path[Max(s)])
      BY <3>1 DEF T
    <3>3. g[s] = IF s = {} THEN <<>> ELSE T[<<g[s \ {Max(s)}], path[Max(s)]>>]
      BY <2>3 DEF FoldsOver, FoldEquation
    <3> QED
      BY <1>1, <3>2, <3>3
  <2>5. g = [s \in SUBSET (1 .. k) |-> g[s]]
    BY <2>3 DEF FoldsOver
  <2>6. g = fold(g)
    BY <1>1, <2>4, <2>5
  <2> QED
    BY <2>6
<1>4. iter = fold(iter)
  BY <1>3
<1>5. Canonical(disk, path) = iter[DOMAIN path]
  BY CanonicalIsChosen
<1> HIDE DEF iter, k
<1> DEFINE dirs == [n \in 0 .. k |-> iter[1 .. n]]
<1>6. dirs[0] = <<>>
  <2>1. 1 .. 0 = {} /\ 0 \in 0 .. k
    BY <1>1
  <2>2. iter[{}] = <<>>
    BY <1>4
  <2> QED
    BY <2>1, <2>2
<1>7. ASSUME NEW n \in 1 .. k PROVE dirs[n] = CanonicalStep(disk, dirs[n - 1], path[n])
  <2>1. n \in 0 .. k /\ n - 1 \in 0 .. k
    BY <1>1
  <2>2. iter[1 .. n] = CanonicalStep(disk, iter[1 .. n - 1], path[n])
    <3>1. /\ 1 .. n \in SUBSET DOMAIN path /\ 1 .. n # {}
          /\ Max(1 .. n) = n /\ (1 .. n) \ {n} = 1 .. n - 1
      BY <1>1, TakeOfAll
    <3>2. \A s \in SUBSET DOMAIN path :
            iter[s] = IF s = {} THEN <<>> ELSE CanonicalStep(disk, iter[s \ {Max(s)}], path[Max(s)])
      BY <1>4
    <3>3. iter[1 .. n] = CanonicalStep(disk, iter[(1 .. n) \ {Max(1 .. n)}], path[Max(1 .. n)])
      BY <3>1, <3>2, Zenon
    <3> QED
      BY <3>1, <3>3, Zenon
  <2> QED
    BY <2>1, <2>2
<1>8. dirs[k] = iter[DOMAIN path]
  BY <1>1
<1>9. CanonicalBy(dirs, disk, path)
  BY <1>5, <1>6, <1>7, <1>8 DEF CanonicalBy, k
<1> QED
  BY <1>9

(* A volume takes names for the same that it takes for the same as one.     *)
LEMMA KindsFold ==
  ASSUME NEW folds \in SUBSET Folds, NEW a, NEW b, NEW c,
         a = b \/ {a, b} \in folds, b = c \/ {b, c} \in folds
  PROVE  a = c \/ {a, c} \in folds
<1>1. \A pair \in folds : pair = {"small", "big"} \/ pair = {"composed", "decomposed"}
  BY DEF Folds
<1>2. CASE {a, b} \in folds /\ {b, c} \in folds
  <2>1. a = c \/ {a, c} = {a, b}
    BY <1>1, <1>2
  <2> QED
    BY <1>2, <2>1
<1> QED
  BY <1>2

LEMMA SameNameIs ==
  ASSUME NEW C, NEW disk, disk.folds \in SUBSET Folds,
         NEW a \in Seq(C), NEW b \in Seq(C), NEW c \in Seq(C)
  PROVE  /\ SameName(disk, a, a)
         /\ SameName(disk, a, b) => SameName(disk, b, a)
         /\ SameName(disk, a, b) /\ SameName(disk, b, c) => SameName(disk, a, c)
<1>1. DOMAIN a = 1 .. Len(a) /\ DOMAIN b = 1 .. Len(b) /\ DOMAIN c = 1 .. Len(c)
  OBVIOUS
<1>2. SameName(disk, a, a)
  BY DEF SameName
<1>3. ASSUME SameName(disk, a, b) PROVE SameName(disk, b, a)
  <2>1. Len(a) = Len(b) /\ DOMAIN b = DOMAIN a
    BY <1>1, <1>3 DEF SameName
  <2>2. ASSUME NEW i \in DOMAIN b
        PROVE  b[i].of = a[i].of /\ (b[i].kind = a[i].kind \/ {b[i].kind, a[i].kind} \in disk.folds)
    <3>1. {b[i].kind, a[i].kind} = {a[i].kind, b[i].kind}
      OBVIOUS
    <3> QED
      BY <1>3, <2>1, <3>1 DEF SameName
  <2> QED
    BY <2>1, <2>2 DEF SameName
<1>4. ASSUME SameName(disk, a, b), SameName(disk, b, c) PROVE SameName(disk, a, c)
  <2>1. Len(a) = Len(c) /\ DOMAIN b = DOMAIN a
    BY <1>1, <1>4 DEF SameName
  <2>2. ASSUME NEW i \in DOMAIN a
        PROVE  a[i].of = c[i].of /\ (a[i].kind = c[i].kind \/ {a[i].kind, c[i].kind} \in disk.folds)
    <3>1. /\ a[i].of = b[i].of /\ b[i].of = c[i].of
          /\ a[i].kind = b[i].kind \/ {a[i].kind, b[i].kind} \in disk.folds
          /\ b[i].kind = c[i].kind \/ {b[i].kind, c[i].kind} \in disk.folds
      BY <1>4, <2>1, <2>2 DEF SameName
    <3> QED
      BY <3>1, KindsFold
  <2> QED
    BY <2>1, <2>2 DEF SameName
<1> QED
  BY <1>2, <1>3, <1>4

(* Where there are no two names that are the same to the volume, at most    *)
(* one is what was typed.                                                   *)
Unlike(disk, names) == \A a, b \in names : a # b => ~ SameName(disk, a, b)

Stores(disk, dir, text) ==
  /\ disk.folds \in SUBSET Folds
  /\ disk.names[dir] \subseteq Seq(Character(text))
  /\ Unlike(disk, disk.names[dir])

LEMMA OneIsFound ==
  ASSUME NEW text, NEW disk, NEW dir, Stores(disk, dir, text),
         NEW name \in Seq(Character(text)), NEW s \in Found(disk, dir, name)
  PROVE  Found(disk, dir, name) = {s}
<1> DEFINE W == Seq(Character(text))
<1>1. s \in disk.names[dir] /\ SameName(disk, s, name) /\ s \in W
  BY DEF Found, Stores
<1>2. ASSUME NEW n \in Found(disk, dir, name) PROVE n = s
  <2>1. n \in disk.names[dir] /\ SameName(disk, n, name) /\ n \in W
    BY DEF Found, Stores
  <2>2. SameName(disk, n, s)
    BY <1>1, <2>1, SameNameIs DEF Stores
  <2> QED
    BY <1>1, <2>1, <2>2 DEF Unlike, Stores
<1> QED
  BY <1>2

(* The other case of a name.                                                *)
LEMMA FlipCaseIs ==
  ASSUME NEW text, NEW name \in Seq(Character(text))
  PROVE  /\ FlipCase(name) \in Seq(Character(text))
         /\ FlipCase(name) = name => \A i \in DOMAIN name : name[i].kind \notin {"small", "big"}
         /\ \A disk : {"small", "big"} \in disk.folds => SameName(disk, FlipCase(name), name)
<1> DEFINE f == FlipCase(name)
<1>1. /\ DOMAIN name = 1 .. Len(name) /\ Len(name) \in Nat
      /\ DOMAIN f = 1 .. Len(name)
  BY DEF FlipCase
<1>2. ASSUME NEW i \in 1 .. Len(name)
      PROVE  /\ f[i] \in Character(text) /\ f[i].of = name[i].of
             /\ name[i].kind \in {"small", "big"}
                  => f[i].kind # name[i].kind /\ {f[i].kind, name[i].kind} = {"small", "big"}
             /\ name[i].kind \notin {"small", "big"} => f[i].kind = name[i].kind
  <2> DEFINE c == name[i]
  <2>1. c \in Character(text)
    OBVIOUS
  <2>2. f[i] = Char(c.of, CASE c.kind = "big" -> "small"
                        [] c.kind = "small" -> "big"
                        [] OTHER -> c.kind)
    BY <1>1 DEF FlipCase
  <2> HIDE DEF c, f
  <2>3. c.of \in text /\ c.kind \in Kinds
    BY <2>1 DEF Character
  <2>4. CASE c.kind = "big"
    <3>1. f[i] = Char(c.of, "small")
      BY <2>2, <2>4
    <3> QED
      BY <2>3, <2>4, <3>1 DEF Char, Character, Kinds, c
  <2>5. CASE c.kind = "small"
    <3>1. f[i] = Char(c.of, "big")
      BY <2>2, <2>5
    <3> QED
      BY <2>3, <2>5, <3>1 DEF Char, Character, Kinds, c
  <2>6. CASE c.kind \notin {"small", "big"}
    <3>1. f[i] = Char(c.of, c.kind)
      BY <2>2, <2>6
    <3> QED
      BY <2>3, <2>6, <3>1 DEF Char, Character, Kinds, c
  <2> QED
    BY <2>4, <2>5, <2>6
<1>3. f \in Seq(Character(text)) /\ Len(f) = Len(name)
  <2>1. f = [i \in 1 .. Len(name) |-> f[i]]
    BY <1>1 DEF FlipCase
  <2> HIDE DEF f
  <2>2. f \in [1 .. Len(name) -> Character(text)]
    BY <1>2, <2>1
  <2> QED
    BY <1>1, <2>2
<1> HIDE DEF f
<1>4. f = name => \A i \in DOMAIN name : name[i].kind \notin {"small", "big"}
  BY <1>1, <1>2
<1>5. ASSUME NEW disk, {"small", "big"} \in disk.folds PROVE SameName(disk, f, name)
  BY <1>1, <1>2, <1>3, <1>5 DEF SameName
<1> QED
  BY <1>3, <1>4, <1>5 DEF f

(* onDisk: what need not be listed is stored as it was typed.               *)
LEMMA TypedIsFound ==
  ASSUME NEW text, NEW disk, NEW dir, Stores(disk, dir, text),
         NEW name \in Seq(Character(text)), NEW s \in Found(disk, dir, name),
         KnownAsTyped(disk, dir, name)
  PROVE  s = name
<1> DEFINE W == Seq(Character(text))
           flip == FlipCase(name)
<1>1. /\ s \in disk.names[dir] /\ SameName(disk, s, name) /\ s \in W
      /\ disk.folds \in SUBSET Folds /\ disk.names[dir] \subseteq W
  BY DEF Found, Stores
<1>2. /\ flip \in W
      /\ flip = name => \A i \in DOMAIN name : name[i].kind \notin {"small", "big"}
      /\ {"small", "big"} \in disk.folds => SameName(disk, flip, name)
  BY FlipCaseIs
<1>3. \A i \in DOMAIN name : name[i].kind \notin {"composed", "decomposed"}
  BY DEF KnownAsTyped, IsASCII
<1>4. {"small", "big"} \in disk.folds => flip = name
  <2> HAVE {"small", "big"} \in disk.folds
  <2>1. SameName(disk, flip, name)
    BY <1>2
  <2> HIDE DEF flip
  <2>2. SameName(disk, name, flip)
    BY <1>1, <1>2, <2>1, SameNameIs
  <2>3. ASSUME NEW n \in disk.names[dir]
        PROVE  SameName(disk, n, flip) <=> SameName(disk, n, name)
    <3>1. n \in W
      BY <1>1
    <3> QED
      BY <1>1, <1>2, <2>1, <2>2, <3>1, SameNameIs
  <2>4. Found(disk, dir, flip) = Found(disk, dir, name)
    BY <2>3 DEF Found
  <2> QED
    BY <2>4 DEF KnownAsTyped, flip
<1> HIDE DEF flip
<1>5. ASSUME NEW i \in 1 .. Len(name) PROVE s[i] = name[i]
  <2> DEFINE a == s[i]
             b == name[i]
  <2>1. /\ a.of = b.of /\ (a.kind = b.kind \/ {a.kind, b.kind} \in disk.folds)
        /\ i \in DOMAIN name /\ a \in Character(text) /\ b \in Character(text)
    <3>1. Len(s) = Len(name)
      BY <1>1 DEF SameName
    <3>2. i \in DOMAIN s /\ i \in DOMAIN name
      BY <1>1, <3>1
    <3>3. a.of = b.of /\ (a.kind = b.kind \/ {a.kind, b.kind} \in disk.folds)
      BY <1>1, <3>2 DEF SameName
    <3>4. a \in Character(text) /\ b \in Character(text)
      BY <1>1, <3>2
    <3> QED
      BY <3>2, <3>3, <3>4
  <2>2. b.kind \notin {"composed", "decomposed"}
    BY <1>3, <2>1
  <2>3. {"small", "big"} \in disk.folds => b.kind \notin {"small", "big"}
    BY <1>2, <1>4, <2>1
  <2> HIDE DEF a, b
  <2>4. {a.kind, b.kind} \notin disk.folds
    <3> SUFFICES ASSUME {a.kind, b.kind} \in disk.folds PROVE FALSE
      OBVIOUS
    <3>1. {a.kind, b.kind} = {"small", "big"} \/ {a.kind, b.kind} = {"composed", "decomposed"}
      BY <1>1 DEF Folds
    <3>2. b.kind \in {a.kind, b.kind}
      OBVIOUS
    <3>3. {a.kind, b.kind} = {"small", "big"}
      BY <2>2, <3>1, <3>2
    <3> QED
      BY <2>3, <3>2, <3>3
  <2>5. a = [of |-> a.of, kind |-> a.kind] /\ b = [of |-> b.of, kind |-> b.kind]
    BY <2>1, CharacterIs
  <2>6. a = b
    BY <2>1, <2>4, <2>5
  <2> QED
    BY <2>6 DEF a, b
<1>6. Len(s) = Len(name)
  BY <1>1 DEF SameName
<1> QED
  BY <1>1, <1>5, <1>6, SeqEqual

(* onDisk: the name as it is stored, or nothing if it has to be looked for  *)
(* where nothing can be listed.                                             *)
LEMMA OnDiskIs ==
  ASSUME NEW text, NEW disk, NEW dir \in DOMAIN disk.names, Stores(disk, dir, text),
         NEW name \in Seq(Character(text)), NEW s \in Found(disk, dir, name)
  PROVE  /\ OnDisk(disk, dir, name) \in {Nowhere, Append(dir, s)}
         /\ dir \in disk.readable => OnDisk(disk, dir, name) = Append(dir, s)
<1>1. Found(disk, dir, name) = {s}
  BY OneIsFound
<1>2. (CHOOSE n \in Found(disk, dir, name) : TRUE) = s
  BY <1>1
<1>3. KnownAsTyped(disk, dir, name) => s = name
  BY TypedIsFound
<1> QED
  BY <1>1, <1>2, <1>3 DEF OnDisk

-----------------------------------------------------------------------------
(* A disk whose names are written with text.                                *)
DiskOf(disk, text) ==
  /\ "?" \notin text
  /\ \A dir \in DOMAIN disk.names : Stores(disk, dir, text)

LEMMA DiskStores ==
  ASSUME NEW text, NEW disk, DiskOf(disk, text)
  PROVE  /\ StoredIn(disk, Seq(Character(text)) \cup {<<Mark("?")>>})
         /\ \A s \in Seq(Character(text)) : s # <<Mark("?")>>
<1>1. \A dir \in DOMAIN disk.names : disk.names[dir] \subseteq Seq(Character(text))
  BY DEF DiskOf, Stores
<1>2. ASSUME NEW s \in Seq(Character(text)), s = <<Mark("?")>> PROVE FALSE
  <2>1. 1 \in 1 .. Len(s) /\ s[1] = Mark("?")
    BY <1>2
  <2>2. s[1] \in Character(text)
    BY <2>1, ElementOfSeq
  <2> QED
    BY <2>1, <2>2 DEF Character, Mark, Char, DiskOf
<1> HIDE DEF Character
<1> QED
  BY <1>1, <1>2 DEF StoredIn

(* Paths of one name and of two.                                            *)
LEMMA ShortPaths ==
  ASSUME NEW a, NEW s, NEW r
  PROVE  /\ Append(<<s>>, r) = <<s, r>>
         /\ SubSeq(<<s, r>>, 2, 2) = <<r>>
         /\ IsStrictPrefix(<<a>>, <<s, r>>) <=> s = a
<1> DEFINE T == {a, s, r}
<1>1. /\ <<a>> \in Seq(T) /\ <<s, r>> \in Seq(T) /\ <<s>> \in Seq(T) /\ r \in T
      /\ Len(<<a>>) = 1 /\ Len(<<s, r>>) = 2 /\ <<a>>[1] = a /\ <<s, r>>[1] = s /\ <<s, r>>[2] = r
  OBVIOUS
<1>2. SubSeq(<<s, r>>, 2, 2) = <<r>>
  <2> DEFINE w == <<s, r>>
             c == SubSeq(w, 2, 2)
             d == <<r>>
  <2>1. w[2] = r /\ d \in Seq(T) /\ Len(d) = 1 /\ d[1] = r /\ r \in T
    OBVIOUS
  <2> HIDE DEF w, T, d
  <2>2. \A i \in 2 .. 2 : w[i] \in T
    BY <2>1
  <2>3. c \in Seq(T) /\ Len(c) = 1 /\ c[1] = w[2]
    <3>1. /\ c \in Seq(T) /\ Len(c) = IF 2 <= 2 THEN 2 - 2 + 1 ELSE 0
          /\ \A i \in 1 .. 2 - 2 + 1 : c[i] = w[2 + i - 1]
      BY <2>2, SubSeqProperties
    <3> QED
      BY <3>1
  <2> HIDE DEF c
  <2>4. c = d
    BY <2>1, <2>3, SeqEqual
  <2> QED
    BY <2>4 DEF c, d, w
<1>3. Append(<<s>>, r) = <<s, r>>
  <2> DEFINE p == <<s>>
             c == Append(p, r)
             d == <<s, r>>
  <2>1. p \in Seq(T) /\ Len(p) = 1 /\ p[1] = s /\ d \in Seq(T) /\ Len(d) = 2
        /\ d[1] = s /\ d[2] = r /\ r \in T
    OBVIOUS
  <2> HIDE DEF p, T, d
  <2>2. c \in Seq(T) /\ Len(c) = 2 /\ c[1] = s /\ c[2] = r
    BY <2>1, AppendProperties, SMTT(30)
  <2> HIDE DEF c
  <2>3. c = d
    BY <2>1, <2>2, SeqEqual
  <2> QED
    BY <2>3 DEF c, d, p
<1> HIDE DEF T
<1> DEFINE p == <<a>>
           w == <<s, r>>
<1>4. IsStrictPrefix(p, w) <=> Len(p) < Len(w) /\ \A i \in 1 .. Len(p) : p[i] = w[i]
  <2>1. p \in Seq(T) /\ w \in Seq(T)
    BY <1>1
  <2> HIDE DEF p, w
  <2> QED
    BY <2>1, PrefixIs
<1>5. IsStrictPrefix(p, w) <=> a = s
  <2>1. Len(p) = 1 /\ Len(w) = 2 /\ p[1] = a /\ w[1] = s
    BY <1>1
  <2> HIDE DEF p, w
  <2> QED
    BY <1>4, <2>1
<1> QED
  BY <1>2, <1>3, <1>5

(* canonical, of one name and of two.                                       *)
LEMMA CanonicalOfOne ==
  ASSUME NEW text, NEW disk, DiskOf(disk, text), <<>> \in DOMAIN disk.names,
         NEW n \in Seq(Character(text)), NEW s \in Found(disk, <<>>, n)
  PROVE  /\ Canonical(disk, <<n>>) \in {Nowhere, <<s>>}
         /\ <<>> \in disk.readable => Canonical(disk, <<n>>) = <<s>>
<1> DEFINE N == Seq(Character(text)) \cup {<<Mark("?")>>}
<1>1. StoredIn(disk, N) /\ n \in N
  BY DiskStores
<1> HIDE DEF N
<1>2. <<n>> \in Seq(N) /\ Len(<<n>>) = 1 /\ <<n>>[1] = n
  BY <1>1
<1>3. PICK dirs : CanonicalBy(dirs, disk, <<n>>)
  BY <1>1, <1>2, CanonicalRuns
<1>4. Canonical(disk, <<n>>) = CanonicalStep(disk, <<>>, n)
  <2>1. dirs[0] = <<>> /\ dirs[1] = CanonicalStep(disk, dirs[1 - 1], <<n>>[1])
        /\ Canonical(disk, <<n>>) = dirs[1]
    BY <1>2, <1>3 DEF CanonicalBy
  <2> QED
    BY <1>2, <2>1
<1>5. <<>> # Nowhere
  BY DEF Nowhere
<1>6. CanonicalStep(disk, <<>>, n) = OnDisk(disk, <<>>, n)
  BY <1>5 DEF CanonicalStep
<1>7. Append(<<>>, s) = <<s>>
  OBVIOUS
<1>8. Stores(disk, <<>>, text)
  BY DEF DiskOf
<1> QED
  BY <1>4, <1>6, <1>7, <1>8, OnDiskIs

LEMMA CanonicalOfTwo ==
  ASSUME NEW text, NEW disk, DiskOf(disk, text), <<>> \in DOMAIN disk.names,
         NEW n \in Seq(Character(text)), NEW s \in Found(disk, <<>>, n),
         <<s>> \in DOMAIN disk.names,
         NEW m \in Seq(Character(text)), NEW r \in Found(disk, <<s>>, m)
  PROVE  /\ Canonical(disk, <<n, m>>) \in {Nowhere, <<s, r>>}
         /\ <<>> \in disk.readable /\ <<s>> \in disk.readable => Canonical(disk, <<n, m>>) = <<s, r>>
<1> DEFINE N == Seq(Character(text)) \cup {<<Mark("?")>>}
<1>1. StoredIn(disk, N) /\ n \in N /\ m \in N
  BY DiskStores
<1>2. s # <<Mark("?")>>
  <2>1. Found(disk, <<>>, n) \subseteq Seq(Character(text))
    BY DEF Found, DiskOf, Stores
  <2> QED
    BY <2>1, DiskStores
<1> HIDE DEF N
<1>3. <<n, m>> \in Seq(N) /\ Len(<<n, m>>) = 2 /\ <<n, m>>[1] = n /\ <<n, m>>[2] = m
  BY <1>1
<1>4. PICK dirs : CanonicalBy(dirs, disk, <<n, m>>)
  BY <1>1, <1>3, CanonicalRuns
<1> DEFINE first == CanonicalStep(disk, <<>>, n)
<1>5. Canonical(disk, <<n, m>>) = CanonicalStep(disk, first, m)
  <2>1. /\ dirs[0] = <<>> /\ dirs[1] = CanonicalStep(disk, dirs[1 - 1], <<n, m>>[1])
        /\ dirs[2] = CanonicalStep(disk, dirs[2 - 1], <<n, m>>[2])
        /\ Canonical(disk, <<n, m>>) = dirs[2]
    BY <1>3, <1>4 DEF CanonicalBy
  <2> QED
    BY <1>3, <2>1
<1>6. <<>> # Nowhere /\ <<s>> # Nowhere
  BY <1>2 DEF Nowhere
<1>7. /\ first \in {Nowhere, <<s>>}
      /\ <<>> \in disk.readable => first = <<s>>
  <2>1. first = OnDisk(disk, <<>>, n)
    BY <1>6 DEF CanonicalStep
  <2>2. Append(<<>>, s) = <<s>>
    OBVIOUS
  <2>3. Stores(disk, <<>>, text)
    BY DEF DiskOf
  <2> QED
    BY <2>1, <2>2, <2>3, OnDiskIs
<1>8. /\ CanonicalStep(disk, <<s>>, m) \in {Nowhere, <<s, r>>}
      /\ <<s>> \in disk.readable => CanonicalStep(disk, <<s>>, m) = <<s, r>>
  <2>1. CanonicalStep(disk, <<s>>, m) = OnDisk(disk, <<s>>, m)
    BY <1>6 DEF CanonicalStep
  <2>2. Append(<<s>>, r) = <<s, r>>
    BY ShortPaths
  <2>3. Stores(disk, <<s>>, text)
    BY DEF DiskOf
  <2>4. /\ OnDisk(disk, <<s>>, m) \in {Nowhere, Append(<<s>>, r)}
        /\ <<s>> \in disk.readable => OnDisk(disk, <<s>>, m) = Append(<<s>>, r)
    <3> DEFINE d == <<s>>
    <3>1. d \in DOMAIN disk.names /\ Stores(disk, d, text) /\ r \in Found(disk, d, m)
      BY <2>3
    <3> HIDE DEF d
    <3>2. /\ OnDisk(disk, d, m) \in {Nowhere, Append(d, r)}
          /\ d \in disk.readable => OnDisk(disk, d, m) = Append(d, r)
      BY <3>1, OnDiskIs
    <3> QED
      BY <3>2 DEF d
  <2> QED
    BY <2>1, <2>2, <2>4
<1>9. CanonicalStep(disk, Nowhere, m) = Nowhere
  BY DEF CanonicalStep
<1> QED
  BY <1>5, <1>7, <1>8, <1>9

(* PathUnder: of a directory in one that is in the root.                    *)
KeyOfNames(key, disk, base, s, r) ==
  /\ key # Refused => s = base /\ key = <<r>>
  /\ {<<>>, <<base>>} \subseteq disk.readable
       => key = IF s = base /\ IsSafeSegment(r) /\ ~ IsReservedSegment(r)
                THEN <<r>> ELSE Refused

LEMMA KeyUnder ==
  ASSUME NEW text, NEW disk, DiskOf(disk, text), <<>> \in DOMAIN disk.names,
         NEW b \in Seq(Character(text)), NEW base \in Found(disk, <<>>, b),
         NEW n \in Seq(Character(text)), NEW s \in Found(disk, <<>>, n),
         <<s>> \in DOMAIN disk.names,
         NEW m \in Seq(Character(text)), NEW r \in Found(disk, <<s>>, m)
  PROVE  KeyOfNames(PathUnder(disk, <<b>>, <<n, m>>), disk, base, s, r)
<1> DEFINE key == PathUnder(disk, <<b>>, <<n, m>>)
           realBase == Canonical(disk, <<b>>)
           realTop == Canonical(disk, <<n, m>>)
           below == SubSeq(realTop, Len(realBase) + 1, Len(realTop))
<1>1. /\ realBase \in {Nowhere, <<base>>}
      /\ <<>> \in disk.readable => realBase = <<base>>
  BY CanonicalOfOne
<1>2. /\ realTop \in {Nowhere, <<s, r>>}
      /\ <<>> \in disk.readable /\ <<s>> \in disk.readable => realTop = <<s, r>>
  BY CanonicalOfTwo
<1>3. <<base>> # Nowhere /\ <<s, r>> # Nowhere
  <2>1. Found(disk, <<>>, b) \subseteq Seq(Character(text))
    BY DEF Found, DiskOf, Stores
  <2>2. base # <<Mark("?")>>
    BY <2>1, DiskStores
  <2> QED
    BY <2>2 DEF Nowhere
<1>4. key = IF /\ realBase # Nowhere /\ realTop # Nowhere
               /\ IsStrictPrefix(realBase, realTop)
               /\ \A i \in DOMAIN below : IsSafeSegment(below[i]) /\ ~ IsReservedSegment(below[i])
            THEN below ELSE Refused
  BY DEF PathUnder
<1> HIDE DEF key, realBase, realTop
<1>5. realBase = <<base>> /\ realTop = <<s, r>>
        => IsStrictPrefix(realBase, realTop) <=> s = base
  BY ShortPaths
<1>6. realBase = <<base>> /\ realTop = <<s, r>>
        => /\ below = <<r>>
           /\ (\A i \in DOMAIN below : IsSafeSegment(below[i]) /\ ~ IsReservedSegment(below[i]))
                <=> IsSafeSegment(r) /\ ~ IsReservedSegment(r)
  <2>1. SubSeq(<<s, r>>, 2, 2) = <<r>> /\ Len(<<base>>) + 1 = 2 /\ Len(<<s, r>>) = 2
    BY ShortPaths
  <2>2. DOMAIN <<r>> = {1} /\ <<r>>[1] = r
    OBVIOUS
  <2> QED
    BY <2>1, <2>2
<1> HIDE DEF below
<1>7. key # Refused => s = base /\ key = <<r>>
  BY <1>1, <1>2, <1>4, <1>5, <1>6
<1>8. {<<>>, <<base>>} \subseteq disk.readable
         => key = IF s = base /\ IsSafeSegment(r) /\ ~ IsReservedSegment(r)
                  THEN <<r>> ELSE Refused
  <2> HAVE {<<>>, <<base>>} \subseteq disk.readable
  <2>1. realBase = <<base>>
    BY <1>1
  <2>2. CASE s = base
    <3>1. realTop = <<s, r>>
      BY <1>2, <2>2
    <3> QED
      BY <1>3, <1>4, <1>5, <1>6, <2>1, <2>2, <3>1
  <2>3. CASE s # base
    BY <1>7, <2>3
  <2> QED
    BY <2>2, <2>3
<1> QED
  BY <1>7, <1>8 DEF key, KeyOfNames

-----------------------------------------------------------------------------
(* The disks and the names of the run.                                      *)
Letters == {"x", "7", "e", "repo"}

Home == <<x, X>>

LEMMA NamesAre ==
  /\ Names \subseteq Seq(Character(Letters)) /\ Home \in Names
  /\ Home \in Seq(Character(Letters))
<1>1. {x, X} \subseteq Character(Letters)
  BY DEF x, X, Char, Character, Kinds, Letters
<1>2. [1 .. 2 -> {x, X}] \subseteq Seq(Character(Letters))
  <2> DEFINE C == Character(Letters)
  <2>1. {x, X} \subseteq C
    BY <1>1
  <2> HIDE DEF C
  <2>2. \A s \in [1 .. 2 -> {x, X}] : s \in [1 .. 2 -> C]
    BY <2>1
  <2>3. \A k \in Nat : \A s \in [1 .. k -> C] : s \in Seq(C)
    OBVIOUS
  <2> QED
    BY <2>2, <2>3 DEF C
<1>3. /\ Char("7", "digit") \in Character(Letters)
      /\ \A kind \in {"composed", "decomposed"} : Char("e", kind) \in Character(Letters)
      /\ \A kind \in {"small", "big"} : Char("repo", kind) \in Character(Letters)
  BY DEF Char, Character, Kinds, Letters
<1>4. \A c \in Character(Letters) : <<c>> \in Seq(Character(Letters))
  OBVIOUS
<1>5. Home \in [1 .. 2 -> {x, X}]
  BY DEF Home
<1> QED
  BY <1>2, <1>3, <1>4, <1>5 DEF Names

LEMMA ListingIs ==
  ASSUME NEW folds, NEW names \in Listings(folds), NEW disk, disk.folds = folds
  PROVE  names \subseteq Names /\ Unlike(disk, names)
<1>1. names \subseteq Names
  BY DEF Listings, kSubset
<1>2. \A a, b \in names : a # b => ~ SameName([folds |-> folds], a, b)
  BY DEF Listings
<1>3. \A a, b : SameName([folds |-> folds], a, b) <=> SameName(disk, a, b)
  BY DEF SameName
<1> QED
  BY <1>1, <1>2, <1>3 DEF Unlike

WellStored(disk) ==
  /\ DiskOf(disk, Letters) /\ disk.folds \in SUBSET Folds
  /\ <<>> \in DOMAIN disk.names /\ Home \in disk.names[<<>>]
  /\ \A n \in disk.names[<<>>] :
       <<n>> \in DOMAIN disk.names /\ disk.names[<<n>>] = disk.names[<<Home>>]
  /\ disk.readable \in Listable

LEMMA VolumesAre ==
  ASSUME NEW folds \in SUBSET Folds, NEW root \in Listings(folds), NEW below \in Listings(folds),
         NEW readable \in Listable, Home \in root
  PROVE  WellStored(Volume(folds, readable, root, below))
<1> DEFINE disk == Volume(folds, readable, root, below)
<1>3. /\ disk.folds = folds /\ disk.readable = readable
      /\ disk.names = [d \in {<<>>} \cup {<<n>> : n \in root} |-> IF d = <<>> THEN root ELSE below]
  BY DEF Volume
<1> HIDE DEF disk
<1>4. /\ root \subseteq Names /\ Unlike(disk, root) /\ Home \in root
      /\ below \subseteq Names /\ Unlike(disk, below)
  BY <1>3, ListingIs
<1>5. /\ DOMAIN disk.names = {<<>>} \cup {<<n>> : n \in root}
      /\ disk.names[<<>>] = root
      /\ \A n \in root : disk.names[<<n>>] = below
  <2> DEFINE empty == <<>>
             tops == {<<n>> : n \in root}
  <2>1. empty \notin tops
    OBVIOUS
  <2>2. \A n \in root : <<n>> \in tops
    OBVIOUS
  <2> HIDE DEF empty, tops
  <2>3. disk.names = [d \in {empty} \cup tops |-> IF d = empty THEN root ELSE below]
    BY <1>3 DEF empty, tops
  <2>4. DOMAIN disk.names = {empty} \cup tops /\ disk.names[empty] = root
        /\ \A d \in tops : disk.names[d] = below
    BY <2>1, <2>3
  <2> QED
    BY <2>2, <2>4 DEF empty, tops
<1>6. ASSUME NEW dir \in DOMAIN disk.names PROVE Stores(disk, dir, Letters)
  <2>1. disk.names[dir] \in {root, below}
    BY <1>5
  <2> QED
    BY <1>3, <1>4, <2>1, NamesAre DEF Stores
<1>7. "?" \notin Letters
  BY DEF Letters
<1> QED
  BY <1>3, <1>4, <1>5, <1>6, <1>7 DEF DiskOf, WellStored, disk

(* The key of a directory of the run: of the way to write it only the names *)
(* that are stored count.                                                   *)
Names2(disk, top, s, r) ==
  /\ s \in Found(disk, <<>>, top[1]) /\ r \in Found(disk, <<s>>, top[2])
  /\ s = CHOOSE n \in disk.names[<<>>] : SameName(disk, n, top[1])
  /\ r = CHOOSE n \in disk.names[<<s>>] : SameName(disk, n, top[2])

LEMMA KeyOfTop ==
  ASSUME NEW disk, WellStored(disk), NEW b \in Names, SameName(disk, b, Home),
         NEW top \in Typed(disk, <<>>) \X Typed(disk, <<Home>>),
         NEW key, key = PathUnder(disk, <<b>>, <<top[1], top[2]>>)
  PROVE  \E s, r :
           /\ Names2(disk, top, s, r)
           /\ KeyOfNames(key, disk, Home, s, r)
<1> DEFINE n == top[1]
           m == top[2]
           W == Seq(Character(Letters))
<1>1. n \in Names /\ m \in Names /\ Found(disk, <<>>, n) # {} /\ Found(disk, <<Home>>, m) # {}
  BY DEF Typed
<1>2. n \in W /\ m \in W /\ b \in W /\ Home \in W
  BY <1>1, NamesAre
<1>3. /\ DiskOf(disk, Letters) /\ disk.folds \in SUBSET Folds
      /\ <<>> \in DOMAIN disk.names /\ Home \in disk.names[<<>>]
      /\ \A e \in disk.names[<<>>] :
              <<e>> \in DOMAIN disk.names /\ disk.names[<<e>>] = disk.names[<<Home>>]
  BY DEF WellStored
<1>4. Home \in Found(disk, <<>>, b)
  BY <1>2, <1>3, SameNameIs DEF Found
<1> HIDE DEF n, m
<1>5. PICK s : s \in Found(disk, <<>>, n)
  BY <1>1
<1>6. s \in disk.names[<<>>] /\ <<s>> \in DOMAIN disk.names
      /\ disk.names[<<s>>] = disk.names[<<Home>>]
  BY <1>3, <1>5 DEF Found
<1>7. PICK r : r \in Found(disk, <<s>>, m)
  BY <1>1, <1>6 DEF Found
<1>8. KeyOfNames(key, disk, Home, s, r)
  <2> DEFINE k == PathUnder(disk, <<b>>, <<n, m>>)
  <2>1. key = k
    BY DEF n, m
  <2>2. KeyOfNames(k, disk, Home, s, r)
    BY <1>2, <1>3, <1>4, <1>5, <1>6, <1>7, KeyUnder
  <2> QED
    BY <2>1, <2>2
<1>9. Found(disk, <<>>, n) = {s}
  <2>1. Stores(disk, <<>>, Letters)
    BY <1>3 DEF DiskOf
  <2> QED
    BY <1>2, <1>5, <2>1, OneIsFound
<1>10. Found(disk, <<s>>, m) = {r}
  <2> DEFINE d == <<s>>
  <2>1. Stores(disk, d, Letters) /\ r \in Found(disk, d, m)
    BY <1>3, <1>6, <1>7 DEF DiskOf
  <2> HIDE DEF d
  <2>2. Found(disk, d, m) = {r}
    BY <1>2, <2>1, OneIsFound
  <2> QED
    BY <2>2 DEF d
<1>11. s = CHOOSE e \in disk.names[<<>>] : SameName(disk, e, n)
  BY <1>9 DEF Found
<1>12. r = CHOOSE e \in disk.names[<<s>>] : SameName(disk, e, m)
  BY <1>10 DEF Found
<1>13. Names2(disk, top, s, r)
  BY <1>5, <1>7, <1>11, <1>12 DEF Names2, n, m
<1> QED
  BY <1>8, <1>13

-----------------------------------------------------------------------------
(* A call for the keys of what is below a base, and its answer.             *)
LocationInv ==
  input.call = "location" =>
    /\ WellStored(input.disk)
    /\ output = Waiting \/ output = [keys |-> KeysBelow(input.disk)]

LEMMA KeyIsBelow ==
  ASSUME NEW disk, NEW entry \in KeysBelow(disk)
  PROVE  \E b \in Names :
           /\ SameName(disk, b, Home)
           /\ entry.top \in Typed(disk, <<>>) \X Typed(disk, <<Home>>)
           /\ entry.key = PathUnder(disk, <<b>>, <<entry.top[1], entry.top[2]>>)
<1> DEFINE B == {n \in Names : SameName(disk, n, Home)}
           T == Typed(disk, <<>>) \X Typed(disk, <<Home>>)
<1>1. KeysBelow(disk) = {[top |-> t, key |-> PathUnder(disk, <<b>>, <<t[1], t[2]>>)] : b \in B, t \in T}
  BY DEF KeysBelow, Home
<1> HIDE DEF B, T
<1>5. entry \in {[top |-> t, key |-> PathUnder(disk, <<b>>, <<t[1], t[2]>>)] : b \in B, t \in T}
  <2> DEFINE all == {[top |-> t, key |-> PathUnder(disk, <<b>>, <<t[1], t[2]>>)] : b \in B, t \in T}
  <2>1. KeysBelow(disk) = all
    BY <1>1
  <2> HIDE DEF all
  <2>2. entry \in all
    BY <2>1
  <2> QED
    BY <2>2 DEF all
<1>2. PICK b \in B, t \in T : entry = [top |-> t, key |-> PathUnder(disk, <<b>>, <<t[1], t[2]>>)]
  BY <1>5
<1>3. entry.top = t /\ entry.key = PathUnder(disk, <<b>>, <<t[1], t[2]>>)
  BY <1>2
<1>4. b \in Names /\ SameName(disk, b, Home)
  BY DEF B
<1> QED
  BY <1>3, <1>4 DEF T

LEMMA KeyIsOfNames ==
  ASSUME LocationInv, Done("location"), NEW entry \in output.keys
  PROVE  \E s, r : /\ Names2(input.disk, entry.top, s, r)
                   /\ KeyOfNames(entry.key, input.disk, Home, s, r)
<1> DEFINE disk == input.disk
<1>1. WellStored(disk) /\ entry \in KeysBelow(disk)
  <2>1. output # Waiting /\ WellStored(disk) /\ output = [keys |-> KeysBelow(disk)]
    BY DEF LocationInv, Done
  <2> HIDE DEF disk
  <2> QED
    BY <2>1
<1> HIDE DEF disk
<1> DEFINE top == entry.top
           key == entry.key
<1>4. PICK b \in Names :
        /\ SameName(disk, b, Home)
        /\ top \in Typed(disk, <<>>) \X Typed(disk, <<Home>>)
        /\ key = PathUnder(disk, <<b>>, <<top[1], top[2]>>)
  BY <1>1, KeyIsBelow
<1> HIDE DEF top, key
<1>5. \E s, r : Names2(disk, top, s, r) /\ KeyOfNames(key, disk, Home, s, r)
  BY <1>1, <1>4, KeyOfTop
<1> QED
  BY <1>5 DEF disk, top, key

(* canonical, PathUnder: however base and tree are written, and whatever    *)
(* the volume takes for the same name, a directory has one key, made of the *)
(* name that is stored; and it has one unless a directory cannot be listed. *)
THEOREM DirectoriesHaveOneKey == Spec => []DirectoryHasOneKey
<1>1. Init => LocationInv
  <2> SUFFICES ASSUME Init, input.call = "location" PROVE LocationInv
    BY DEF LocationInv
  <2>1. PICK folds \in SUBSET Folds :
          \E root, below \in Listings(folds), readable \in Listable :
            /\ <<x, X>> \in root
            /\ input = [call |-> "location", disk |-> Volume(folds, readable, root, below)]
    BY Called
  <2>2. PICK root \in Listings(folds), below \in Listings(folds), readable \in Listable :
          /\ <<x, X>> \in root
          /\ input = [call |-> "location", disk |-> Volume(folds, readable, root, below)]
    BY <2>1
  <2>3. WellStored(Volume(folds, readable, root, below))
    BY <2>2, VolumesAre DEF Home
  <2> QED
    BY <2>2, <2>3, Called DEF LocationInv
<1>2. LocationInv /\ [Next]_vars => LocationInv'
  <2> SUFFICES ASSUME LocationInv, [Next]_vars PROVE LocationInv'
    OBVIOUS
  <2>1. CASE UNCHANGED vars
    BY <2>1 DEF vars, LocationInv
  <2>2. CASE Next
    <3>1. input' = input
      BY <2>2, Answered
    <3>2. input.call = "location" => KeysOfLocations
      BY <2>2, Answered
    <3>3. KeysOfLocations => output' = [keys |-> KeysBelow(input.disk)]
      BY DEF KeysOfLocations
    <3> QED
      BY <3>1, <3>2, <3>3 DEF LocationInv
  <2> QED
    BY <2>1, <2>2
<1>3. LocationInv => DirectoryHasOneKey
  <2> SUFFICES ASSUME LocationInv, Done("location"),
                      NEW entry \in output.keys, NEW other \in output.keys
               PROVE  LET disk   == input.disk
                          dir(t) == CHOOSE n \in disk.names[<<>>] : SameName(disk, n, t[1])
                          name(t) == CHOOSE n \in disk.names[<<dir(t)>>] : SameName(disk, n, t[2])
                      IN  /\ entry.key # Refused =>
                               SameName(disk, entry.top[1], <<x, X>>) /\ entry.key = <<name(entry.top)>>
                          /\ /\ disk.readable # {} /\ disk.readable # {<<>>}
                             /\ dir(entry.top) = dir(other.top) /\ name(entry.top) = name(other.top)
                             => entry.key = other.key
    BY DEF DirectoryHasOneKey
  <2> DEFINE disk   == input.disk
             dir(t) == CHOOSE n \in disk.names[<<>>] : SameName(disk, n, t[1])
             name(t) == CHOOSE n \in disk.names[<<dir(t)>>] : SameName(disk, n, t[2])
  <2>1. PICK s, r : /\ Names2(disk, entry.top, s, r)
                    /\ KeyOfNames(entry.key, disk, Home, s, r)
    BY KeyIsOfNames
  <2>2. PICK p, q : /\ Names2(disk, other.top, p, q)
                    /\ KeyOfNames(other.key, disk, Home, p, q)
    BY KeyIsOfNames
  <2>3. dir(entry.top) = s /\ name(entry.top) = r
    BY <2>1 DEF Names2
  <2>4. dir(other.top) = p /\ name(other.top) = q
    BY <2>2 DEF Names2
  <2>5. entry.key # Refused => SameName(disk, entry.top[1], Home)
    <3> HAVE entry.key # Refused
    <3>1. Home \in Found(disk, <<>>, entry.top[1])
      BY <2>1 DEF KeyOfNames, Names2
    <3>2. entry.top[1] \in Names
      <4>1. entry \in KeysBelow(disk)
        BY DEF LocationInv, Done
      <4>2. entry.top \in Typed(disk, <<>>) \X Typed(disk, <<Home>>)
        BY <4>1, KeyIsBelow
      <4> QED
        BY <4>2 DEF Typed
    <3>3. SameName(disk, Home, entry.top[1])
      BY <3>1 DEF Found
    <3>4. disk.folds \in SUBSET Folds
      BY DEF LocationInv, WellStored, Done
    <3> HIDE DEF disk
    <3> QED
      BY <3>2, <3>3, <3>4, NamesAre, SameNameIs
  <2>6. disk.readable # {} /\ disk.readable # {<<>>} => {<<>>, <<Home>>} \subseteq disk.readable
    <3>1. disk.readable \in Listable
      BY DEF LocationInv, WellStored, Done
    <3> QED
      BY <3>1 DEF Listable, Home
  <2> HIDE DEF disk, dir, name
  <2>7. entry.key # Refused => SameName(disk, entry.top[1], <<x, X>>) /\ entry.key = <<name(entry.top)>>
    BY <2>1, <2>3, <2>5 DEF KeyOfNames, Home
  <2>8. /\ disk.readable # {} /\ disk.readable # {<<>>}
        /\ dir(entry.top) = dir(other.top) /\ name(entry.top) = name(other.top)
        => entry.key = other.key
    BY <2>1, <2>2, <2>3, <2>4, <2>6 DEF KeyOfNames
  <2> QED
    BY <2>7, <2>8 DEF disk, dir, name
<1> QED
  BY <1>1, <1>2, <1>3, PTL DEF Spec

-----------------------------------------------------------------------------
(* The spellings of a remote.  strings.Split, a character at a time.        *)
LEMMA SegmentsOfNone == Segments(<<>>) = << <<>> >>
<1> DEFINE none == <<>>
<1>1. none \in Seq({})
  OBVIOUS
<1>2. Len(none) = 0
  OBVIOUS
<1> HIDE DEF none
<1>3. PICK parts : SegmentedBy(parts, none)
  BY <1>1, SegmentsRun
<1>4. Segments(none) = << <<>> >>
  BY <1>2, <1>3 DEF SegmentedBy
<1> QED
  BY <1>4 DEF none

LEMMA SegmentsOfMore ==
  ASSUME NEW C, NEW t \in Seq(C), NEW c \in C
  PROVE  Segments(Append(t, c)) = SegmentsStep(Segments(t), c)
<1> DEFINE u == Append(t, c)
           k == Len(t)
<1>1. /\ u \in Seq(C) /\ Len(u) = k + 1 /\ k \in Nat /\ u[k + 1] = c
      /\ \A n \in 1 .. k : u[n] = t[n]
  BY AppendProperties
<1> HIDE DEF u
<1>2. PICK parts : SegmentedBy(parts, u)
  BY <1>1, SegmentsRun
<1>3. PICK q : SegmentedBy(q, t)
  BY SegmentsRun
<1>4. /\ parts[0] = << <<>> >> /\ q[0] = << <<>> >>
      /\ \A n \in 1 .. k + 1 : parts[n] = SegmentsStep(parts[n - 1], u[n])
      /\ \A n \in 1 .. k : q[n] = SegmentsStep(q[n - 1], t[n])
      /\ Segments(u) = parts[k + 1] /\ Segments(t) = q[k]
  BY <1>1, <1>2, <1>3 DEF SegmentedBy
<1> HIDE DEF k
<1> DEFINE Wrong == {n \in 0 .. k : parts[n] # q[n]}
<1>5. Wrong = {}
  <2> SUFFICES ASSUME Wrong # {} PROVE FALSE
    OBVIOUS
  <2>1. PICK n \in Wrong : \A m \in Wrong : n <= m
    <3>1. \A m \in Wrong : m \in Nat
      BY <1>1
    <3> HIDE DEF Wrong
    <3> QED
      BY <3>1, Least
  <2>2. n \in 0 .. k /\ parts[n] # q[n]
    BY <2>1
  <2>3. n # 0
    BY <1>4, <2>2
  <2>4. n - 1 \in 0 .. k /\ n - 1 < n /\ n \in 1 .. k /\ n \in 1 .. k + 1
    BY <1>1, <2>2, <2>3
  <2>5. parts[n - 1] = q[n - 1]
    BY <2>1, <2>4
  <2> QED
    BY <1>1, <1>4, <2>2, <2>4, <2>5
<1>6. parts[k] = q[k]
  <2>1. k \in 0 .. k
    BY <1>1
  <2> QED
    BY <1>5, <2>1
<1>7. k + 1 \in 1 .. k + 1 /\ (k + 1) - 1 = k
  BY <1>1
<1>8. Segments(u) = SegmentsStep(Segments(t), c)
  BY <1>1, <1>4, <1>6, <1>7
<1> QED
  BY <1>8 DEF u

(* A character of a name is put behind it, and "/" begins the next.         *)
LEMMA StepOfLast ==
  ASSUME NEW C, NEW front \in Seq(Seq(C)), NEW w \in Seq(C), NEW c
  PROVE  /\ c # Mark("/") => SegmentsStep(Append(front, w), c) = Append(front, Append(w, c))
         /\ c = Mark("/") => SegmentsStep(Append(front, w), c) = Append(Append(front, w), <<>>)
<1> DEFINE W == Seq(C) \cup {Append(w, c)}
           k == Len(front)
           more == Append(w, c)
           u == Append(front, w)
           v == Append(front, more)
<1>1. front \in Seq(W)
  <2> DEFINE D == Seq(C)
  <2>1. front \in Seq(D) /\ D \subseteq W
    OBVIOUS
  <2> HIDE DEF D, W
  <2> QED
    BY <2>1
<1>2. w \in W /\ more \in W
  OBVIOUS
<1> HIDE DEF W, more
<1>3. /\ u \in Seq(W) /\ Len(u) = k + 1 /\ k \in Nat /\ u[k + 1] = w
      /\ \A n \in 1 .. k : u[n] = front[n]
  BY <1>1, <1>2, AppendProperties
<1>4. /\ v \in Seq(W) /\ Len(v) = k + 1 /\ v[k + 1] = more
      /\ \A n \in 1 .. k : v[n] = front[n]
  BY <1>1, <1>2, AppendProperties
<1> HIDE DEF u, v, k
<1>5. CASE c # Mark("/")
  <2>1. SegmentsStep(u, c) = [u EXCEPT ![Len(u)] = Append(@, c)]
    BY <1>5 DEF SegmentsStep
  <2>2. SegmentsStep(u, c) = [u EXCEPT ![k + 1] = more]
    BY <1>3, <2>1 DEF more
  <2> DEFINE s == [u EXCEPT ![k + 1] = more]
  <2>3. u \in [1 .. k + 1 -> W]
    BY <1>3
  <2>4. s \in [1 .. k + 1 -> W] /\ s[k + 1] = more /\ \A n \in 1 .. k : s[n] = u[n]
    BY <1>2, <1>3, <2>3
  <2> HIDE DEF s
  <2>5. s \in Seq(W) /\ Len(s) = k + 1
    BY <1>3, <2>4
  <2>6. \A n \in 1 .. k + 1 : s[n] = v[n]
    <3>1. \A n \in 1 .. k + 1 : n = k + 1 \/ n \in 1 .. k
      BY <1>3
    <3> QED
      BY <1>3, <1>4, <2>4, <3>1
  <2>7. s = v
    BY <1>4, <2>5, <2>6, SeqEqual
  <2> QED
    BY <1>5, <2>2, <2>7 DEF s, u, v, more
<1>6. CASE c = Mark("/")
  BY <1>6 DEF SegmentsStep, u
<1> QED
  BY <1>5, <1>6

(* A name without "/" is one.                                               *)
Whole(w) == \A i \in DOMAIN w : w[i] # Mark("/")

LEMMA SegmentsOfName ==
  ASSUME NEW C, NEW t \in Seq(C), NEW front \in Seq(Seq(C)),
         Segments(t) = Append(front, <<>>),
         NEW w \in Seq(C), Whole(w)
  PROVE  Segments(t \o w) = Append(front, w)
<1> DEFINE k == Len(w)
           Upto(n) == SubSeq(w, 1, n)
           Wrong == {n \in 0 .. k : Segments(t \o Upto(n)) # Append(front, Upto(n))}
<1>1. k \in Nat /\ \A n \in 1 .. k : w[n] \in C /\ w[n] # Mark("/")
  BY DEF Whole
<1>2. Upto(0) = <<>> /\ Upto(k) = w /\ \A n \in 0 .. k : Upto(n) \in Seq(C)
  <2>1. Upto(0) = <<>>
    BY SubSeqEmpty
  <2>2. Upto(k) = w
    BY SubSeqFull
  <2>3. ASSUME NEW n \in 0 .. k PROVE Upto(n) \in Seq(C)
    <3>1. \A i \in 1 .. n : w[i] \in C
      BY <1>1
    <3>2. n \in Int /\ 1 \in Int
      BY <1>1
    <3> HIDE DEF k
    <3> QED
      BY <3>1, <3>2, SubSeqProperties
  <2> QED
    BY <2>1, <2>2, <2>3
<1>3. ASSUME NEW n \in 1 .. k PROVE Upto(n) = Append(Upto(n - 1), w[n])
  <2>1. 1 \in 1 .. Len(w) /\ n \in 1 .. Len(w)
    BY <1>1
  <2>2. SubSeq(w, 1, n) = SubSeq(w, 1, n - 1) \o << w[n] >>
    BY <2>1, SubSeqRecursiveSecond
  <2>3. n - 1 \in 0 .. k
    BY <1>1
  <2>4. Upto(n - 1) \in Seq(C) /\ w[n] \in C
    BY <1>1, <1>2, <2>3
  <2> HIDE DEF k
  <2>5. Upto(n - 1) \o <<w[n]>> = Append(Upto(n - 1), w[n])
    BY <2>4, AppendIsConcat
  <2> QED
    BY <2>2, <2>5
<1> HIDE DEF k, Upto
<1>4. Wrong = {}
  <2> SUFFICES ASSUME Wrong # {} PROVE FALSE
    OBVIOUS
  <2>1. PICK n \in Wrong : \A m \in Wrong : n <= m
    <3>1. \A m \in Wrong : m \in Nat
      BY <1>1
    <3> HIDE DEF Wrong
    <3> QED
      BY <3>1, Least
  <2>2. n \in 0 .. k /\ Segments(t \o Upto(n)) # Append(front, Upto(n))
    BY <2>1
  <2>3. n # 0
    <3>1. t \o <<>> = t
      OBVIOUS
    <3> QED
      BY <1>2, <2>2, <3>1
  <2>4. n - 1 \in 0 .. k /\ n - 1 < n /\ n \in 1 .. k
    BY <1>1, <2>2, <2>3
  <2>5. Segments(t \o Upto(n - 1)) = Append(front, Upto(n - 1))
    BY <2>1, <2>4
  <2> DEFINE p == Upto(n - 1)
             c == w[n]
  <2>6. p \in Seq(C) /\ c \in C /\ c # Mark("/")
    BY <1>1, <1>2, <2>4
  <2>7. Upto(n) = Append(p, c)
    BY <1>3, <2>4
  <2> HIDE DEF p, c
  <2>8. t \o Append(p, c) = Append(t \o p, c)
    BY <2>6, SMTT(30)
  <2>9. t \o p \in Seq(C)
    BY <2>6, ConcatIs
  <2>10. Segments(Append(t \o p, c)) = SegmentsStep(Append(front, p), c)
    BY <2>5, <2>6, <2>9, SegmentsOfMore DEF p
  <2>11. SegmentsStep(Append(front, p), c) = Append(front, Append(p, c))
    BY <2>6, StepOfLast
  <2> QED
    BY <2>2, <2>7, <2>8, <2>10, <2>11
<1>5. Segments(t \o Upto(k)) = Append(front, Upto(k))
  <2>1. k \in 0 .. k
    BY <1>1
  <2> QED
    BY <1>4, <2>1
<1> QED
  BY <1>2, <1>5

-----------------------------------------------------------------------------
(* Names one behind the other, each with "/" behind it.                     *)
LEMMA SegmentsOfSlash ==
  ASSUME NEW C, Mark("/") \in C, NEW t \in Seq(C), NEW front \in Seq(Seq(C)),
         Segments(t) = Append(front, <<>>), NEW w \in Seq(C), Whole(w)
  PROVE  Segments(t \o (w \o <<Mark("/")>>)) = Append(Append(front, w), <<>>)
<1> DEFINE s == <<Mark("/")>>
           u == t \o w
<1>1. s \in Seq(C) /\ u \in Seq(C)
  BY ConcatIs
<1>2. t \o (w \o s) = Append(u, Mark("/"))
  <2>1. t \o (w \o s) = u \o s
    BY <1>1, ConcatAssociative
  <2> HIDE DEF u
  <2>2. u \o s = Append(u, Mark("/"))
    BY <1>1, AppendIsConcat
  <2> QED
    BY <2>1, <2>2
<1>3. Segments(u) = Append(front, w)
  BY SegmentsOfName
<1> HIDE DEF u
<1>4. Segments(Append(u, Mark("/"))) = SegmentsStep(Append(front, w), Mark("/"))
  BY <1>1, <1>3, SegmentsOfMore
<1>5. SegmentsStep(Append(front, w), Mark("/")) = Append(Append(front, w), <<>>)
  BY StepOfLast
<1> QED
  BY <1>2, <1>4, <1>5

(* The beginning of a list of names, name by name.                          *)
LEMMA UptoIs ==
  ASSUME NEW W, NEW segs \in Seq(W)
  PROVE  /\ SubSeq(segs, 1, 0) = <<>> /\ SubSeq(segs, 1, Len(segs)) = segs
         /\ \A n \in 0 .. Len(segs) : SubSeq(segs, 1, n) \in Seq(W)
         /\ \A n \in 1 .. Len(segs) :
              SubSeq(segs, 1, n) = Append(SubSeq(segs, 1, n - 1), segs[n])
<1> DEFINE k == Len(segs)
<1>1. k \in Nat /\ \A n \in 1 .. k : segs[n] \in W
  OBVIOUS
<1>2. SubSeq(segs, 1, 0) = <<>>
  BY SubSeqEmpty
<1>3. SubSeq(segs, 1, k) = segs
  BY SubSeqFull
<1>4. ASSUME NEW n \in 0 .. k PROVE SubSeq(segs, 1, n) \in Seq(W)
  <2>1. \A i \in 1 .. n : segs[i] \in W
    BY <1>1
  <2>2. n \in Int /\ 1 \in Int
    BY <1>1
  <2> HIDE DEF k
  <2> QED
    BY <2>1, <2>2, SubSeqProperties
<1>5. ASSUME NEW n \in 1 .. k PROVE SubSeq(segs, 1, n) = Append(SubSeq(segs, 1, n - 1), segs[n])
  <2>1. 1 \in 1 .. Len(segs) /\ n \in 1 .. Len(segs) /\ n - 1 \in 0 .. k
    BY <1>1
  <2>2. SubSeq(segs, 1, n) = SubSeq(segs, 1, n - 1) \o << segs[n] >>
    BY <2>1, SubSeqRecursiveSecond
  <2>3. SubSeq(segs, 1, n - 1) \in Seq(W) /\ segs[n] \in W
    BY <1>1, <1>4, <2>1
  <2> HIDE DEF k
  <2>4. SubSeq(segs, 1, n - 1) \o <<segs[n]>> = Append(SubSeq(segs, 1, n - 1), segs[n])
    BY <2>3, AppendIsConcat
  <2> QED
    BY <2>2, <2>4
<1> QED
  BY <1>2, <1>3, <1>4, <1>5

(* What is a path of segs.                                                  *)
PathOf(p, segs, C) ==
  /\ p \in Seq(C) /\ Segments(p) = segs
  /\ p # <<>> /\ p[1] = segs[1][1]
  /\ \E a \in Seq(C) : p = a \o segs[Len(segs)]

LEMMA JoinedIs ==
  ASSUME NEW C, Mark("/") \in C, NEW segs \in Seq(Seq(C)), segs # <<>>,
         \A i \in 1 .. Len(segs) : Whole(segs[i]) /\ segs[i] # <<>>
  PROVE  PathOf(SubSeq(Joined(segs), 1, Len(Joined(segs)) - 1), segs, C)
<1> DEFINE W == Seq(C)
           n == Len(segs)
           slashed == [i \in DOMAIN segs |-> segs[i] \o <<Mark("/")>>]
           s == <<Mark("/")>>
<1>1. s \in W /\ Len(s) = 1
  OBVIOUS
<1>2. n \in Nat /\ n # 0 /\ \A i \in 1 .. n : segs[i] \in W
  <2> HIDE DEF W
  <2>1. segs \in Seq(W)
    BY DEF W
  <2> QED
    BY <2>1, ElementOfSeq
<1>3. slashed \in Seq(W) /\ Len(slashed) = n
      /\ \A i \in 1 .. n : slashed[i] = segs[i] \o s
  <2>1. \A i \in 1 .. n : segs[i] \o s \in W
    BY <1>1, <1>2, ConcatIs
  <2>2. slashed = [i \in 1 .. n |-> segs[i] \o s]
    OBVIOUS
  <2> HIDE DEF W, slashed, n, s
  <2>3. slashed \in [1 .. n -> W] /\ \A i \in 1 .. n : slashed[i] = segs[i] \o s
    BY <2>1, <2>2
  <2>4. \A k \in Nat : \A g \in [1 .. k -> W] : g \in Seq(W) /\ Len(g) = k
    OBVIOUS
  <2> QED
    BY <1>2, <2>3, <2>4
<1>4. Joined(segs) = FlattenSeq(slashed)
  BY DEF Joined
<1> HIDE DEF slashed
<1>5. PICK f : Flattens(f, slashed) /\ FlattenSeq(slashed) = f[Len(slashed)]
  BY <1>3, FlattenIs
<1>6. f[0] = <<>> /\ \A i \in 1 .. n : f[i] = f[i - 1] \o (segs[i] \o s)
  BY <1>3, <1>5 DEF Flattens
<1> DEFINE Upto(i) == SubSeq(segs, 1, i)
           Good(i) == /\ f[i] \in W /\ Segments(f[i]) = Append(Upto(i), <<>>)
                      /\ i # 0 => f[i] # <<>> /\ f[i][1] = segs[1][1]
           Bad == {i \in 0 .. n : ~ Good(i)}
<1>7. /\ Upto(0) = <<>> /\ Upto(n) = segs
      /\ \A i \in 0 .. n : Upto(i) \in Seq(W)
      /\ \A i \in 1 .. n : Upto(i) = Append(Upto(i - 1), segs[i])
  <2> HIDE DEF W
  <2>1. segs \in Seq(W)
    BY DEF W
  <2> QED
    BY <2>1, UptoIs
<1> HIDE DEF Upto
<1>8. Good(0)
  <2>1. <<>> \in W
    OBVIOUS
  <2>2. Append(<<>>, <<>>) = << <<>> >>
    OBVIOUS
  <2> QED
    BY <1>6, <1>7, <2>1, <2>2, SegmentsOfNone
(* The first character of what a name that is not empty begins.             *)
<1>9. \A w \in W, v \in W : w # <<>> => w \o v # <<>> /\ (w \o v)[1] = w[1]
  <2> SUFFICES ASSUME NEW w \in W, NEW v \in W, w # <<>>
               PROVE  w \o v # <<>> /\ (w \o v)[1] = w[1]
    OBVIOUS
  <2>1. 1 \in 1 .. Len(w)
    OBVIOUS
  <2>2. (w \o v)[1] = w[1] /\ Len(w \o v) = Len(w) + Len(v) /\ Len(v) \in Nat
    BY <2>1, ConcatIs
  <2>3. Len(w \o v) # 0
    BY <2>1, <2>2
  <2> QED
    BY <2>2, <2>3
<1>10. ASSUME NEW i \in 1 .. n, Good(i - 1) PROVE Good(i)
  <2> DEFINE t == f[i - 1]
             w == segs[i]
             front == Upto(i - 1)
  <2>1. /\ t \in Seq(C) /\ Segments(t) = Append(front, <<>>) /\ front \in Seq(Seq(C))
        /\ w \in Seq(C) /\ Whole(w) /\ w # <<>>
    <3>1. i - 1 \in 0 .. n
      BY <1>2
    <3> QED
      BY <1>2, <1>7, <1>10, <3>1
  <2>2. f[i] = t \o (w \o s) /\ Upto(i) = Append(front, w)
    BY <1>6, <1>7
  <2>3. i - 1 # 0 => t # <<>> /\ t[1] = segs[1][1]
    BY <1>10
  <2>4. i - 1 = 0 => t = <<>> /\ w = segs[1]
    BY <1>2, <1>6
  <2> HIDE DEF t, w, front
  <2>5. Segments(f[i]) = Append(Upto(i), <<>>)
    BY <2>1, <2>2, SegmentsOfSlash, ZenonT(60)
  <2>6. w \o s \in W /\ f[i] \in W
    BY <1>1, <2>1, <2>2, ConcatIs
  <2>7. f[i] # <<>> /\ f[i][1] = segs[1][1]
    <3>1. CASE i - 1 # 0
      BY <1>9, <2>1, <2>2, <2>3, <2>6, <3>1
    <3>2. CASE i - 1 = 0
      <4>1. f[i] = w \o s
        BY <2>2, <2>4, <2>6, <3>2
      <4> QED
        BY <1>1, <1>9, <2>1, <2>4, <3>2, <4>1
    <3> QED
      BY <3>1, <3>2
  <2> QED
    BY <2>5, <2>6, <2>7
<1> HIDE DEF Good
<1>11. Bad = {}
  <2> SUFFICES ASSUME Bad # {} PROVE FALSE
    OBVIOUS
  <2>1. PICK i \in Bad : \A k \in Bad : i <= k
    <3>1. \A k \in Bad : k \in Nat
      BY <1>2
    <3> HIDE DEF Bad
    <3> QED
      BY <3>1, Least
  <2>2. i \in 0 .. n /\ ~ Good(i)
    BY <2>1
  <2>3. i # 0
    BY <1>8, <2>2
  <2>4. i - 1 \in 0 .. n /\ i - 1 < i /\ i \in 1 .. n
    BY <1>2, <2>2, <2>3
  <2>5. Good(i - 1)
    BY <2>1, <2>4
  <2> QED
    BY <1>10, <2>2, <2>4, <2>5
<1> DEFINE b == f[n - 1]
           last == segs[n]
           p == b \o last
           front == Upto(n - 1)
<1>12. /\ n - 1 \in 0 .. n /\ n \in 1 .. n
       /\ b \in W /\ Segments(b) = Append(front, <<>>) /\ front \in Seq(W)
       /\ n - 1 # 0 => b # <<>> /\ b[1] = segs[1][1]
       /\ last \in W /\ Whole(last) /\ last # <<>>
  <2>1. n - 1 \in 0 .. n /\ n \in 1 .. n
    BY <1>2
  <2>2. Good(n - 1)
    BY <1>11, <2>1
  <2> QED
    BY <1>2, <1>7, <2>1, <2>2 DEF Good
<1>13. Joined(segs) = b \o (last \o s) /\ Upto(n) = Append(front, last)
       /\ (n - 1 = 0 => b = <<>> /\ last = segs[1])
  <2>1. Joined(segs) = f[n]
    BY <1>3, <1>4, <1>5
  <2>2. f[n] = b \o (last \o s) /\ Upto(n) = Append(front, last)
    BY <1>6, <1>7, <1>12
  <2>3. n - 1 = 0 => b = <<>> /\ last = segs[1]
    <3> HAVE n - 1 = 0
    <3>1. n = 1
      BY <1>2
    <3> HIDE DEF n
    <3> QED
      BY <1>6, <3>1
  <2> HIDE DEF b, last, front, n
  <2> QED
    BY <2>1, <2>2, <2>3
<1> HIDE DEF b, last, front
<1>14. p \in W /\ Segments(p) = segs
  <2>1. b \in Seq(C) /\ last \in Seq(C) /\ front \in Seq(Seq(C)) /\ Whole(last)
        /\ Segments(b) = Append(front, <<>>)
    BY <1>12
  <2>2. p \in Seq(C)
    BY <2>1, ConcatIs
  <2>3. Segments(b \o last) = Append(front, last)
    BY <2>1, SegmentsOfName
  <2> QED
    BY <1>7, <1>13, <2>2, <2>3
<1>15. Joined(segs) = p \o s
  BY <1>1, <1>12, <1>13, ConcatAssociative, SMTT(30)
<1>16. p # <<>> /\ p[1] = segs[1][1]
  <2>1. CASE n - 1 # 0
    BY <1>9, <1>12, <2>1
  <2>2. CASE n - 1 = 0
    <3>1. p = last
      BY <1>12, <1>13, <2>2
    <3> QED
      BY <1>12, <1>13, <2>2, <3>1
  <2> QED
    BY <2>1, <2>2
<1>17. \E a \in Seq(C) : p = a \o segs[Len(segs)]
  BY <1>12 DEF last
<1> HIDE DEF p
<1>18. SubSeq(p \o s, 1, Len(p \o s) - 1) = p
  <2>1. Len(p \o s) - 1 = Len(p) /\ Len(p) \in Nat
    BY <1>1, <1>14, ConcatIs
  <2> DEFINE u == p \o s
  <2>2. u \in Seq(C) /\ \A i \in 1 .. Len(p) : u[i] = p[i] /\ u[i] \in C
    BY <1>1, <1>14, ConcatIs
  <2>3. Len(u) - 1 = Len(p)
    BY <2>1
  <2> HIDE DEF u
  <2> DEFINE q == SubSeq(u, 1, Len(p))
  <2>4. q \in Seq(C) /\ Len(q) = Len(p) /\ \A i \in 1 .. Len(p) : q[i] = u[i]
    <3>1. 1 \in Int /\ Len(p) \in Int /\ \A i \in 1 .. Len(p) : u[i] \in C
      BY <2>1, <2>2
    <3>2. /\ q \in Seq(C) /\ Len(q) = IF 1 <= Len(p) THEN Len(p) - 1 + 1 ELSE 0
          /\ \A i \in 1 .. Len(p) - 1 + 1 : q[i] = u[1 + i - 1]
      BY <3>1, SubSeqProperties
    <3> QED
      BY <2>1, <3>2
  <2> HIDE DEF q
  <2>5. q = p
    BY <1>14, <2>2, <2>4, SeqEqual
  <2> QED
    BY <2>3, <2>5 DEF q, u
<1> QED
  BY <1>14, <1>15, <1>16, <1>17, <1>18 DEF PathOf

-----------------------------------------------------------------------------
(* A sequence without c.                                                    *)
Apart(w, c) == \A i \in DOMAIN w : w[i] # c

LEMMA PartIs ==
  ASSUME NEW C, NEW t \in Seq(C), NEW q \in Seq(C), NEW m \in Nat,
         NEW n \in Int, n = m + Len(q) - 1, m >= 1, n <= Len(t),
         \A i \in 1 .. Len(q) : t[m + i - 1] = q[i]
  PROVE  SubSeq(t, m, n) = q
<1> DEFINE p == SubSeq(t, m, n)
<1>1. Len(q) \in Nat /\ Len(t) \in Nat /\ n \in Int /\ m \in Int
  OBVIOUS
<1>2. \A i \in m .. n : t[i] \in C
  <2>1. \A i \in m .. n : i \in 1 .. Len(t)
    BY <1>1
  <2> QED
    BY <2>1, ElementOfSeq
<1>3. /\ p \in Seq(C) /\ Len(p) = IF m <= n THEN n - m + 1 ELSE 0
      /\ \A i \in 1 .. n - m + 1 : p[i] = t[m + i - 1]
  BY <1>1, <1>2, SubSeqProperties
<1> HIDE DEF p
<1>4. Len(p) = Len(q) /\ \A i \in 1 .. Len(q) : p[i] = t[m + i - 1]
  <2>1. n - m + 1 = Len(q) /\ (~ (m <= n) => Len(q) = 0)
    BY <1>1
  <2> QED
    BY <1>1, <1>3, <2>1
<1>5. p = q
  BY <1>3, <1>4, SeqEqual
<1> QED
  BY <1>5 DEF p

(* What is before c, and what is behind it.                                 *)
LEMMA ThreeParts ==
  ASSUME NEW C, NEW a \in Seq(C), NEW b \in Seq(C), NEW c \in C,
         NEW t, EndsWith(t, a, <<c>> \o b)
  PROVE  /\ t \in Seq(C) /\ Len(a) \in Nat /\ Len(b) \in Nat /\ Len(t) = Len(a) + 1 + Len(b)
         /\ t[Len(a) + 1] = c
         /\ \A i \in 1 .. Len(a) : t[i] = a[i]
         /\ \A i \in 1 .. Len(b) : t[Len(a) + 1 + i] = b[i]
         /\ Before(t, Len(a) + 1) = a /\ After(t, Len(a) + 1) = b
<1> DEFINE s == <<c>>
           d == s \o b
<1>1. s \in Seq(C) /\ Len(s) = 1 /\ s[1] = c
  OBVIOUS
<1> HIDE DEF s
<1>2. /\ d \in Seq(C) /\ Len(d) = 1 + Len(b) /\ Len(b) \in Nat /\ d[1] = c
      /\ \A i \in 1 .. Len(b) : d[1 + i] = b[i]
  <2>1. d \in Seq(C) /\ Len(d) = Len(s) + Len(b) /\ Len(b) \in Nat
        /\ (\A i \in 1 .. Len(s) : d[i] = s[i])
        /\ \A i \in 1 .. Len(b) : d[Len(s) + i] = b[i]
    BY <1>1, ConcatIs
  <2> HIDE DEF d
  <2>2. 1 \in 1 .. Len(s)
    BY <1>1
  <2> QED
    BY <1>1, <2>1, <2>2
<1> HIDE DEF d
<1>3. t = a \o d
  BY DEF EndsWith, s, d
<1>4. /\ t \in Seq(C) /\ Len(t) = Len(a) + Len(d) /\ Len(a) \in Nat
      /\ \A i \in 1 .. Len(a) : t[i] = a[i]
      /\ \A i \in 1 .. Len(d) : t[Len(a) + i] = d[i]
  <2>1. t \in Seq(C)
    BY <1>2, <1>3, ConcatIs
  <2>2. EndsWith(t, a, d)
    BY <1>3 DEF EndsWith
  <2> QED
    BY <1>2, <2>1, <2>2, EndsWithIs, LenProperties
<1>5. t[Len(a) + 1] = c
  <2>1. 1 \in 1 .. Len(d)
    BY <1>2
  <2> QED
    BY <1>2, <1>4, <2>1
<1>6. \A i \in 1 .. Len(b) : t[Len(a) + 1 + i] = b[i]
  <2>1. \A i \in 1 .. Len(b) : 1 + i \in 1 .. Len(d) /\ Len(a) + 1 + i = Len(a) + (1 + i)
    BY <1>2, <1>4
  <2> QED
    BY <1>2, <1>4, <2>1
<1>7. Before(t, Len(a) + 1) = a
  <2>1. (Len(a) + 1) - 1 = 1 + Len(a) - 1 /\ 1 + Len(a) - 1 <= Len(t)
        /\ \A i \in 1 .. Len(a) : 1 + i - 1 = i
    BY <1>2, <1>4
  <2>2. SubSeq(t, 1, (Len(a) + 1) - 1) = a
    <3> DEFINE n == (Len(a) + 1) - 1
    <3>1. n \in Int /\ n = 1 + Len(a) - 1 /\ n <= Len(t) /\ 1 \in Nat /\ 1 >= 1
      BY <1>2, <1>4
    <3> HIDE DEF n
    <3>2. SubSeq(t, 1, n) = a
      BY <1>4, <2>1, <3>1, PartIs
    <3> QED
      BY <3>2 DEF n
  <2> QED
    BY <2>1, <2>2 DEF Before
<1>8. After(t, Len(a) + 1) = b
  <2> DEFINE m == (Len(a) + 1) + 1
  <2>1. m \in Nat /\ m >= 1 /\ m + Len(b) - 1 = Len(t)
        /\ \A i \in 1 .. Len(b) : m + i - 1 = Len(a) + 1 + i
    BY <1>2, <1>4
  <2>2. \A i \in 1 .. Len(b) : t[m + i - 1] = b[i]
    BY <1>6, <2>1
  <2> DEFINE n == Len(t)
  <2>3. n \in Int /\ n = m + Len(b) - 1 /\ n <= Len(t)
    BY <1>4, <2>1
  <2> HIDE DEF m, n
  <2>4. SubSeq(t, m, n) = b
    BY <1>4, <2>1, <2>2, <2>3, PartIs
  <2> QED
    BY <2>1, <2>4 DEF After, m, n
<1> QED
  BY <1>2, <1>4, <1>5, <1>6, <1>7, <1>8

LEMMA FirstCut ==
  ASSUME NEW C, NEW a \in Seq(C), NEW b \in Seq(C), NEW c \in C,
         NEW t, EndsWith(t, a, <<c>> \o b), Apart(a, c)
  PROVE  /\ Places(t, c) # {} /\ First(Places(t, c)) = Len(a) + 1
         /\ Before(t, First(Places(t, c))) = a /\ After(t, First(Places(t, c))) = b
<1>1. /\ t \in Seq(C) /\ Len(a) \in Nat /\ Len(b) \in Nat /\ Len(t) = Len(a) + 1 + Len(b)
      /\ t[Len(a) + 1] = c
      /\ \A i \in 1 .. Len(a) : t[i] = a[i]
      /\ Before(t, Len(a) + 1) = a /\ After(t, Len(a) + 1) = b
  BY ThreeParts
<1> DEFINE k == Len(a) + 1
           P == Places(t, c)
<1>2. k \in P
  <2>1. k \in 1 .. Len(t)
    BY <1>1
  <2> QED
    BY <1>1, <2>1 DEF Places
<1>3. \A j \in P : k <= j
  <2>1. \A j \in P : j \in 1 .. Len(t) /\ t[j] = c
    BY <1>1 DEF Places
  <2>2. \A j \in 1 .. Len(a) : t[j] # c
    BY <1>1 DEF Apart
  <2> HIDE DEF P
  <2> QED
    BY <1>1, <2>1, <2>2
<1>4. P \subseteq Nat /\ k \in Nat
  BY <1>1 DEF Places
<1> HIDE DEF P, k
<1>5. First(P) = k
  <2>1. \A i \in P : (\A j \in P : i <= j) => i = k
    BY <1>2, <1>3, <1>4
  <2> QED
    BY <1>2, <1>3, <2>1 DEF First
<1> QED
  BY <1>1, <1>2, <1>5 DEF P, k

LEMMA FinalCut ==
  ASSUME NEW C, NEW a \in Seq(C), NEW b \in Seq(C), NEW c \in C,
         NEW t, EndsWith(t, a, <<c>> \o b), Apart(b, c)
  PROVE  Places(t, c) # {} /\ After(t, Final(Places(t, c))) = b
<1>1. /\ t \in Seq(C) /\ Len(a) \in Nat /\ Len(b) \in Nat /\ Len(t) = Len(a) + 1 + Len(b)
      /\ t[Len(a) + 1] = c
      /\ \A i \in 1 .. Len(b) : t[Len(a) + 1 + i] = b[i]
      /\ After(t, Len(a) + 1) = b
  BY ThreeParts
<1> DEFINE k == Len(a) + 1
           P == Places(t, c)
<1>2. k \in P
  <2>1. k \in 1 .. Len(t)
    BY <1>1
  <2> QED
    BY <1>1, <2>1 DEF Places
<1>3. \A j \in P : k >= j
  <2>1. \A j \in P : j \in 1 .. Len(t) /\ t[j] = c
    BY <1>1 DEF Places
  <2>2. \A j \in 1 .. Len(b) : t[Len(a) + 1 + j] # c
    BY <1>1 DEF Apart
  <2> HIDE DEF P
  <2>3. ASSUME NEW j \in P, ~ (k >= j) PROVE FALSE
    <3>1. j - (Len(a) + 1) \in 1 .. Len(b) /\ Len(a) + 1 + (j - (Len(a) + 1)) = j
      <4>1. j \in 1 .. Len(t) /\ ~ (Len(a) + 1 >= j)
        BY <2>1, <2>3
      <4> HIDE DEF k
      <4> QED
        BY <1>1, <4>1
    <3> QED
      BY <2>1, <2>2, <3>1
  <2> QED
    BY <2>3
<1>4. P \subseteq Nat /\ k \in Nat
  BY <1>1 DEF Places
<1> HIDE DEF P, k
<1>5. Final(P) = k
  <2>1. \A i \in P : (\A j \in P : i >= j) => i = k
    BY <1>2, <1>3, <1>4
  <2> QED
    BY <1>2, <1>3, <2>1 DEF Final
<1> QED
  BY <1>1, <1>2, <1>5 DEF P, k

LEMMA NoCut ==
  ASSUME NEW t, NEW c, Apart(t, c)
  PROVE  Places(t, c) = {}
BY DEF Places, Apart

LEMMA ApartIs ==
  ASSUME NEW C, NEW a \in Seq(C), NEW b \in Seq(C), NEW c
  PROVE  /\ Apart(a, c) /\ Apart(b, c) => Apart(a \o b, c)
         /\ c \notin C => Apart(a, c)
<1>1. a \o b \in Seq(C) /\ Len(a \o b) = Len(a) + Len(b) /\ Len(a) \in Nat /\ Len(b) \in Nat
      /\ (\A i \in 1 .. Len(a) : (a \o b)[i] = a[i])
      /\ \A i \in 1 .. Len(b) : (a \o b)[Len(a) + i] = b[i]
  BY ConcatIs
<1> DEFINE t == a \o b
<1> HIDE DEF t
<1>2. ASSUME Apart(a, c), Apart(b, c), NEW i \in 1 .. Len(t) PROVE t[i] # c
  <2>1. Len(t) = Len(a) + Len(b)
    BY <1>1 DEF t
  <2>2. CASE i \in 1 .. Len(a)
    BY <1>1, <1>2, <2>2 DEF Apart, t
  <2>3. CASE i \notin 1 .. Len(a)
    <3>1. i - Len(a) \in 1 .. Len(b) /\ Len(a) + (i - Len(a)) = i
      BY <1>1, <1>2, <2>1, <2>3
    <3>2. t[i] = b[i - Len(a)]
      BY <1>1, <3>1 DEF t
    <3> QED
      BY <1>2, <3>1, <3>2 DEF Apart
  <2> QED
    BY <2>2, <2>3
<1>3. Apart(a, c) /\ Apart(b, c) => Apart(t, c)
  <2>1. DOMAIN t = 1 .. Len(t)
    BY <1>1 DEF t
  <2> QED
    BY <1>2, <2>1 DEF Apart
<1>4. c \notin C => Apart(a, c)
  BY ElementOfSeq DEF Apart
<1> QED
  BY <1>3, <1>4 DEF t

-----------------------------------------------------------------------------
(* The parts of a spelling.                                                 *)
SchemeOf(how) == IF how.form = "url" THEN <<x, Mark(":"), Mark("/"), Mark("/")>> ELSE <<>>

UserOf(how) ==
  CASE how.users = 0 -> <<>>
    [] how.users = 1 -> <<x, Mark("@")>>
    [] OTHER -> <<x, Mark(":"), x, Mark("@")>>

PortOf(how) == IF how.port THEN <<Mark(":"), Char("22", "digit")>> ELSE <<>>

SeparatorOf(how) == IF how.form = "url" THEN Mark("/") ELSE Mark(":")

DotGitOf(how) == IF how.git THEN <<Mark(".git")>> ELSE <<>>

SlashOf(how) == IF how.slash THEN <<Mark("/")>> ELSE <<>>

PathIn(tail) == SubSeq(Joined(Tail(tail)), 1, Len(Joined(Tail(tail))) - 1)

LEMMA SpelledIs ==
  ASSUME NEW tail, NEW how
  PROVE  Spelled(tail, how) =
           SchemeOf(how) \o UserOf(how) \o tail[1] \o PortOf(how) \o <<SeparatorOf(how)>>
             \o PathIn(tail) \o (DotGitOf(how) \o SlashOf(how))
BY DEF Spelled, SchemeOf, UserOf, PortOf, SeparatorOf, DotGitOf, SlashOf, PathIn

Inks == {x, Mark(":"), Mark("/"), Mark("@"), Mark(".git"), Char("22", "digit")}

LEMMA InksDiffer ==
  /\ x # Mark(":") /\ x # Mark("/") /\ x # Mark("@")
  /\ Mark(":") # Mark("/") /\ Mark(":") # Mark("@") /\ Mark("/") # Mark("@")
  /\ Mark(".git") # Mark("/") /\ Char("22", "digit") # Mark("@") /\ Char("22", "digit") # Mark("/")
  /\ Char("22", "digit") # Mark(":")
BY DEF x, Mark, Char

LEMMA WrittenIs ==
  ASSUME NEW how \in Written
  PROVE  /\ how.form \in {"scp", "url"} /\ how.users \in 0 .. 2 /\ how.port \in BOOLEAN
         /\ how.git \in BOOLEAN /\ how.slash \in BOOLEAN
         /\ how.form = "scp" => ~ how.port /\ how.users < 2
BY DEF Written, Spellings

LEMMA PartsAre ==
  ASSUME NEW C, Inks \subseteq C, NEW how \in Written
  PROVE  /\ SchemeOf(how) \in Seq(C) /\ UserOf(how) \in Seq(C) /\ PortOf(how) \in Seq(C)
         /\ <<SeparatorOf(how)>> \in Seq(C) /\ DotGitOf(how) \in Seq(C) /\ SlashOf(how) \in Seq(C)
         /\ SeparatorOf(how) \in C
<1>1. x \in C /\ Mark(":") \in C /\ Mark("/") \in C /\ Mark("@") \in C /\ Mark(".git") \in C
      /\ Char("22", "digit") \in C
  BY DEF Inks
<1>2. /\ <<x, Mark(":"), Mark("/"), Mark("/")>> \in Seq(C) /\ <<>> \in Seq(C)
      /\ <<x, Mark("@")>> \in Seq(C) /\ <<x, Mark(":"), x, Mark("@")>> \in Seq(C)
      /\ <<Mark(":"), Char("22", "digit")>> \in Seq(C)
      /\ <<Mark("/")>> \in Seq(C) /\ <<Mark(":")>> \in Seq(C) /\ <<Mark(".git")>> \in Seq(C)
  BY <1>1
<1> QED
  BY <1>1, <1>2, WrittenIs DEF SchemeOf, UserOf, PortOf, SeparatorOf, DotGitOf, SlashOf

(* The parts, the other way round.                                          *)
Regroups(s, u, h, p, C) ==
  s \o u \o h \o p = s \o (u \o h \o p) /\ u \o h \o p \in Seq(C)

LEMMA ThreeRegrouped ==
  ASSUME NEW C, NEW s \in Seq(C), NEW u \in Seq(C), NEW h \in Seq(C), NEW p \in Seq(C)
  PROVE  Regroups(s, u, h, p, C)
<1> DEFINE b == u \o h
<1>1. b \in Seq(C)
  BY ConcatIs
<1>2. s \o u \o h = s \o b
  BY ConcatAssociative
<1> HIDE DEF b
<1>3. (s \o b) \o p = s \o (b \o p)
  BY <1>1, ConcatAssociative, SMTT(30)
<1>4. b \o p \in Seq(C)
  BY <1>1, ConcatIs
<1> QED
  BY <1>2, <1>3, <1>4 DEF b, Regroups

Pairs(s, a, c, q, C) ==
  /\ s \o a \o c \o q = s \o (a \o (c \o q))
  /\ a \o (c \o q) \in Seq(C) /\ s \o a \o c \o q \in Seq(C)
  /\ s \o a \o c \in Seq(C)

LEMMA TwoRegrouped ==
  ASSUME NEW C, NEW s \in Seq(C), NEW a \in Seq(C), NEW c \in Seq(C), NEW q \in Seq(C)
  PROVE  Pairs(s, a, c, q, C)
<1> DEFINE e == c \o q
           b == a \o c
<1>1. b \in Seq(C)
  BY ConcatIs
<1>2. a \o c \o q = a \o e
  BY ConcatAssociative
<1>3. e \in Seq(C)
  BY ConcatIs
<1>6. s \o a \o c = s \o b
  BY ConcatAssociative
<1> HIDE DEF b
<1>7. (s \o b) \o q = s \o (b \o q) /\ s \o b \in Seq(C)
  BY <1>1, ConcatAssociative, ConcatIs, SMTT(30)
<1> HIDE DEF e
<1>4. a \o e \in Seq(C)
  BY <1>3, ConcatIs
<1> DEFINE r == a \o e
<1> HIDE DEF r
<1>5. s \o r \in Seq(C)
  BY <1>4, ConcatIs DEF r
<1>8. b \o q = r
  BY <1>2 DEF b, r
<1>9. s \o a \o c \o q = s \o r
  BY <1>6, <1>7, <1>8
<1> QED
  BY <1>4, <1>5, <1>6, <1>7, <1>9 DEF e, r, Pairs

Gathers(s, u, h, p, c, q, C) ==
  /\ s \o u \o h \o p \o c \o q = s \o ((u \o h \o p) \o (c \o q))
  /\ u \o h \o p \in Seq(C) /\ s \o u \o h \o p \o c \in Seq(C)
  /\ s \o u \o h \o p \o c \o q \in Seq(C)

LEMMA Regrouped ==
  ASSUME NEW C, NEW s \in Seq(C), NEW u \in Seq(C), NEW h \in Seq(C), NEW p \in Seq(C),
         NEW c \in Seq(C), NEW q \in Seq(C)
  PROVE  Gathers(s, u, h, p, c, q, C)
<1> DEFINE a == u \o h \o p
<1>1. Regroups(s, u, h, p, C)
  BY ThreeRegrouped
<1>2. a \in Seq(C)
  BY <1>1 DEF Regroups
<1>3. s \o u \o h \o p = s \o a
  BY <1>1 DEF Regroups
<1> HIDE DEF a
<1>4. Pairs(s, a, c, q, C)
  BY <1>2, TwoRegrouped
<1>5. /\ s \o u \o h \o p \o c = s \o a \o c
      /\ s \o u \o h \o p \o c \o q = s \o a \o c \o q
  BY <1>3
<1> QED
  BY <1>2, <1>4, <1>5 DEF a, Gathers, Pairs

(* hostOf: neither user nor port.                                           *)
LEMMA HostOfIs ==
  ASSUME NEW a, NEW rest,
         rest = IF Places(a, Mark("@")) = {} THEN a ELSE After(a, Final(Places(a, Mark("@"))))
  PROVE  HostOf(a) = IF Places(rest, Mark(":")) = {} THEN rest
                     ELSE Before(rest, First(Places(rest, Mark(":"))))
BY DEF HostOf

LEMMA UserEnds ==
  ASSUME NEW C, Inks \subseteq C, NEW how \in Written
  PROVE  UserOf(how) = <<>> \/ \E u \in Seq(C) : UserOf(how) = u \o <<Mark("@")>>
<1>1. x \in C /\ Mark(":") \in C /\ Mark("@") \in C
  BY DEF Inks
<1>2. <<x>> \in Seq(C) /\ <<x, Mark(":"), x>> \in Seq(C)
  BY <1>1
<1>3. \A c, d, e : <<c, d, c, e>> = <<c, d, c>> \o <<e>> /\ <<c, e>> = <<c>> \o <<e>>
  OBVIOUS
<1>4. /\ <<x, Mark("@")>> = <<x>> \o <<Mark("@")>>
      /\ <<x, Mark(":"), x, Mark("@")>> = <<x, Mark(":"), x>> \o <<Mark("@")>>
  BY <1>3
<1>5. UserOf(how) \in {<<>>, <<x, Mark("@")>>, <<x, Mark(":"), x, Mark("@")>>}
  BY WrittenIs DEF UserOf
<1> QED
  BY <1>2, <1>4, <1>5

LEMMA PortBegins ==
  ASSUME NEW C, Inks \subseteq C, NEW how \in Written
  PROVE  /\ PortOf(how) = <<>> \/ \E p \in Seq(C) : PortOf(how) = <<Mark(":")>> \o p
         /\ Apart(PortOf(how), Mark("@")) /\ Apart(PortOf(how), Mark("/"))
<1>1. Char("22", "digit") \in C
  BY DEF Inks
<1>2. <<Char("22", "digit")>> \in Seq(C)
  BY <1>1
<1>3. <<Mark(":"), Char("22", "digit")>> = <<Mark(":")>> \o <<Char("22", "digit")>>
  OBVIOUS
<1>4. Apart(<<>>, Mark("@")) /\ Apart(<<>>, Mark("/"))
  BY DEF Apart
<1>5. /\ Apart(<<Mark(":"), Char("22", "digit")>>, Mark("@"))
      /\ Apart(<<Mark(":"), Char("22", "digit")>>, Mark("/"))
  BY InksDiffer DEF Apart
<1>6. PortOf(how) = <<>> \/ PortOf(how) = <<Mark(":"), Char("22", "digit")>>
  BY DEF PortOf
<1> QED
  BY <1>2, <1>3, <1>4, <1>5, <1>6

LEMMA HostIs ==
  ASSUME NEW C, Inks \subseteq C, NEW how \in Written, NEW host \in Seq(C),
         Apart(host, Mark("@")), Apart(host, Mark(":"))
  PROVE  HostOf(UserOf(how) \o host \o PortOf(how)) = host
<1> DEFINE u == UserOf(how)
           p == PortOf(how)
           a == u \o host \o p
           rest == host \o p
<1>1. u \in Seq(C) /\ p \in Seq(C)
  BY PartsAre
<1>2. rest \in Seq(C) /\ Apart(rest, Mark("@"))
  BY <1>1, ConcatIs, ApartIs, PortBegins
<1>3. a = u \o rest
  BY <1>1, ConcatAssociative
<1>4. Mark("@") \in C /\ Mark(":") \in C
  BY DEF Inks
<1>5. u = <<>> \/ \E v \in Seq(C) : u = v \o <<Mark("@")>>
  BY UserEnds
<1>6. p = <<>> \/ \E q \in Seq(C) : p = <<Mark(":")>> \o q
  BY PortBegins
<1> HIDE DEF u, p
<1>7. rest = IF Places(a, Mark("@")) = {} THEN a ELSE After(a, Final(Places(a, Mark("@"))))
  <2>1. CASE u = <<>>
    <3>1. a = rest
      BY <1>2, <1>3, <2>1
    <3> QED
      BY <1>2, <3>1, NoCut
  <2>2. CASE u # <<>>
    <3>1. PICK v \in Seq(C) : u = v \o <<Mark("@")>>
      BY <1>5, <2>2
    <3> HIDE DEF rest
    <3>2. <<Mark("@")>> \in Seq(C)
      BY <1>4
    <3>3. (v \o <<Mark("@")>>) \o rest = v \o (<<Mark("@")>> \o rest)
      BY <1>2, <3>2, ConcatAssociative
    <3>4. EndsWith(a, v, <<Mark("@")>> \o rest)
      BY <1>3, <3>1, <3>3 DEF EndsWith
    <3> HIDE DEF a
    <3>5. Places(a, Mark("@")) # {} /\ After(a, Final(Places(a, Mark("@")))) = rest
      BY <1>2, <1>4, <3>4, FinalCut
    <3> QED
      BY <3>5
  <2> QED
    BY <2>1, <2>2
<1> HIDE DEF a
<1>8. HostOf(a) = IF Places(rest, Mark(":")) = {} THEN rest
                  ELSE Before(rest, First(Places(rest, Mark(":"))))
  BY <1>7, HostOfIs
<1>9. CASE p = <<>>
  <2>1. rest = host
    BY <1>9
  <2>2. Places(host, Mark(":")) = {}
    BY NoCut
  <2> QED
    BY <1>8, <2>1, <2>2 DEF a, u, p
<1>10. CASE p # <<>>
  <2>1. PICK q \in Seq(C) : p = <<Mark(":")>> \o q
    BY <1>6, <1>10
  <2>2. EndsWith(rest, host, <<Mark(":")>> \o q)
    BY <2>1 DEF EndsWith
  <2> HIDE DEF rest
  <2>3. Places(rest, Mark(":")) # {} /\ Before(rest, First(Places(rest, Mark(":")))) = host
    BY <1>4, <2>2, FirstCut
  <2> QED
    BY <1>8, <2>3 DEF a, u, p
<1> QED
  BY <1>9, <1>10

-----------------------------------------------------------------------------
(* Where a scheme ends.                                                     *)
LEMMA SchemesAre ==
  ASSUME NEW C, NEW url \in Seq(C), NEW i
  PROVE  i \in Schemes(url) <=>
           /\ i \in 1 .. Len(url) /\ url[i] = Mark(":") /\ i + 2 <= Len(url)
           /\ url[i + 1] = Mark("/") /\ url[i + 2] = Mark("/")
<1>1. DOMAIN url = 1 .. Len(url)
  OBVIOUS
<1>2. i \in Places(url, Mark(":")) <=> i \in 1 .. Len(url) /\ url[i] = Mark(":")
  BY <1>1, Zenon DEF Places
<1> QED
  BY <1>2, Zenon DEF Schemes

Associate(p, q, r) == (p \o q) \o r = p \o (q \o r)

LEMMA AllAssociate ==
  ASSUME NEW C, NEW p \in Seq(C), NEW q \in Seq(C), NEW r \in Seq(C)
  PROVE  Associate(p, q, r)
BY ConcatAssociative DEF Associate

(* TrimSuffix.                                                              *)
LEMMA LastIs ==
  ASSUME NEW C, NEW p \in Seq(C), NEW q \in Seq(C), q # <<>>
  PROVE  p \o q # <<>> /\ (p \o q)[Len(p \o q)] = q[Len(q)]
<1>1. /\ Len(p \o q) = Len(p) + Len(q) /\ Len(p) \in Nat /\ Len(q) \in Nat
      /\ \A i \in 1 .. Len(q) : (p \o q)[Len(p) + i] = q[i]
  BY ConcatIs
<1>2. Len(q) # 0
  OBVIOUS
<1>3. Len(q) \in 1 .. Len(q)
  BY <1>1, <1>2
<1>4. Len(p \o q) # 0
  BY <1>1, <1>2
<1>5. (p \o q)[Len(p) + Len(q)] = q[Len(q)]
  BY <1>1, <1>3
<1> DEFINE t == p \o q
<1>6. Len(t) # 0 /\ t[Len(t)] = q[Len(q)]
  BY <1>1, <1>4, <1>5
<1> HIDE DEF t
<1>7. t # <<>>
  BY <1>6
<1> QED
  BY <1>6, <1>7 DEF t

LEMMA TrimIs ==
  ASSUME NEW C, NEW b \in Seq(C), NEW c \in C
  PROVE  TrimSuffix(b \o <<c>>, c) = b
<1> DEFINE s == <<c>>
           t == b \o s
           none == <<>>
<1>1. s \in Seq(C) /\ s # <<>> /\ Len(s) = 1 /\ s[1] = c /\ none \in Seq(C)
      /\ <<c>> \o none = s
  OBVIOUS
<1>2. t # <<>> /\ t[Len(t)] = s[Len(s)]
  BY <1>1, LastIs
<1>3. Len(t) = Len(b) + 1
  BY <1>1, ConcatIs
<1>4. EndsWith(t, b, <<c>> \o none)
  BY <1>1 DEF EndsWith
<1> HIDE DEF t, none
<1>5. Before(t, Len(b) + 1) = b
  BY <1>1, <1>4, ThreeParts
<1>6. TrimSuffix(t, c) = b
  BY <1>1, <1>2, <1>3, <1>5 DEF TrimSuffix
<1> QED
  BY <1>6 DEF t

LEMMA NoTrim ==
  ASSUME NEW s, NEW c, s[Len(s)] # c
  PROVE  TrimSuffix(s, c) = s
BY DEF TrimSuffix

(* What Path trims is the end, and no more.                                 *)
LEMMA EndIsTrimmed ==
  ASSUME NEW C, Inks \subseteq C, NEW body \in Seq(C), NEW how,
         body[Len(body)] # Mark("/"),
         how.git \in BOOLEAN, how.slash \in BOOLEAN,
         how.git \/ body[Len(body)] # Mark(".git")
  PROVE  TrimSuffix(TrimSuffix(body \o (DotGitOf(how) \o SlashOf(how)), Mark("/")), Mark(".git"))
           = body
<1> DEFINE g == <<Mark(".git")>>
           s == <<Mark("/")>>
           more == body \o g
<1>1. Mark("/") \in C /\ Mark(".git") \in C
  BY DEF Inks
<1>2. g \in Seq(C) /\ s \in Seq(C) /\ g # <<>> /\ Len(g) = 1 /\ g[1] = Mark(".git")
  BY <1>1
<1>3. more \in Seq(C) /\ more[Len(more)] = Mark(".git")
  BY <1>2, ConcatIs, LastIs
<1>4. TrimSuffix(more, Mark(".git")) = body
  BY <1>1, TrimIs
<1>5. CASE how.git /\ how.slash
  <2>1. body \o (g \o s) = more \o s
    BY <1>2, ConcatAssociative
  <2>2. DotGitOf(how) \o SlashOf(how) = g \o s
    BY <1>5 DEF DotGitOf, SlashOf
  <2> HIDE DEF more, g, s
  <2>3. TrimSuffix(more \o s, Mark("/")) = more
    BY <1>1, <1>3, TrimIs DEF s
  <2> QED
    BY <1>4, <2>1, <2>2, <2>3
<1>6. CASE how.git /\ ~ how.slash
  <2>1. DotGitOf(how) \o SlashOf(how) = g
    BY <1>2, <1>6 DEF DotGitOf, SlashOf
  <2> HIDE DEF more, g, s
  <2>2. TrimSuffix(more, Mark("/")) = more
    BY <1>3, NoTrim, InksDiffer
  <2> QED
    BY <1>4, <2>1, <2>2 DEF more
<1>7. CASE ~ how.git /\ how.slash
  <2>1. DotGitOf(how) \o SlashOf(how) = s
    BY <1>2, <1>7 DEF DotGitOf, SlashOf
  <2> HIDE DEF more, g
  <2>2. TrimSuffix(body \o s, Mark("/")) = body
    BY <1>1, TrimIs
  <2>3. TrimSuffix(body, Mark(".git")) = body
    BY <1>7, NoTrim
  <2> QED
    BY <2>1, <2>2, <2>3
<1>8. CASE ~ how.git /\ ~ how.slash
  <2>1. DotGitOf(how) \o SlashOf(how) = <<>>
    BY <1>8 DEF DotGitOf, SlashOf
  <2>2. body \o <<>> = body
    OBVIOUS
  <2>3. TrimSuffix(body, Mark("/")) = body /\ TrimSuffix(body, Mark(".git")) = body
    BY <1>8, NoTrim
  <2> QED
    BY <2>1, <2>2, <2>3
<1> QED
  BY <1>5, <1>6, <1>7, <1>8

(* Split: of a URL, and of the scp-like spelling.                           *)
LEMMA SplitOfURL ==
  ASSUME NEW C, Inks \subseteq C, NEW a \in Seq(C), NEW path \in Seq(C), Apart(a, Mark("/")),
         NEW body, body = <<x, Mark(":"), Mark("/"), Mark("/")>> \o (a \o (<<Mark("/")>> \o path))
  PROVE  Split(body) = HostAndSegments(a, path)
<1> DEFINE s == <<x, Mark(":"), Mark("/"), Mark("/")>>
           front == <<x, Mark(":"), Mark("/")>>
           slash == <<Mark("/")>>
           rest == a \o (slash \o path)
<1>1. x \in C /\ Mark(":") \in C /\ Mark("/") \in C
  BY DEF Inks
<1>2. slash \in Seq(C) /\ front \in Seq(C) /\ s \in Seq(C) /\ s = front \o slash /\ Len(front) = 3
      /\ Len(s) = 4 /\ s[1] = x /\ s[2] = Mark(":") /\ s[3] = Mark("/") /\ s[4] = Mark("/")
  BY <1>1
<1>3. rest \in Seq(C)
  <2> HIDE DEF slash
  <2>1. slash \o path \in Seq(C)
    BY <1>2, ConcatIs
  <2> DEFINE b == slash \o path
  <2> HIDE DEF b
  <2>2. a \o b \in Seq(C)
    BY <2>1, ConcatIs DEF b
  <2> QED
    BY <2>2 DEF b
<1>4. EndsWith(rest, a, <<Mark("/")>> \o path)
  BY DEF EndsWith
<1>5. body = s \o rest
  OBVIOUS
<1> HIDE DEF rest, s, front
<1>6. Len(body) = 4 + Len(rest) /\ Len(rest) \in Nat /\ body \in Seq(C)
      /\ \A i \in 1 .. 4 : body[i] = s[i]
  BY <1>2, <1>3, <1>5, ConcatIs
<1>7. EndsWith(body, front, <<Mark("/")>> \o rest)
  <2>1. (front \o slash) \o rest = front \o (slash \o rest)
    <3> HIDE DEF slash
    <3>1. Associate(front, slash, rest)
      BY <1>2, <1>3, AllAssociate
    <3> QED
      BY <3>1 DEF Associate
  <2> QED
    BY <1>2, <1>5, <2>1 DEF EndsWith
<1>8. After(body, 4) = rest
  <2>1. After(body, Len(front) + 1) = rest
    BY <1>1, <1>2, <1>3, <1>7, ThreeParts
  <2> QED
    BY <1>2, <2>1
<1> HIDE DEF slash
<1>9. body[1] = x /\ body[2] = Mark(":") /\ body[3] = Mark("/") /\ body[4] = Mark("/")
  BY <1>2, <1>6
<1> DEFINE S == Schemes(body)
<1>10. 2 \in S /\ (\A i \in S : i \in Nat /\ i >= 2) /\ 2 + 2 = 4
  <2>1. 2 \in 1 .. Len(body) /\ 2 + 2 <= Len(body) /\ 2 + 1 = 3 /\ 2 + 2 = 4
    BY <1>6
  <2>2. 2 \in S
    BY <1>6, <1>9, <2>1, SchemesAre
  <2>3. ASSUME NEW i \in S PROVE i \in Nat /\ i >= 2
    <3>1. i \in 1 .. Len(body) /\ body[i] = Mark(":")
      BY <1>6, SchemesAre
    <3>2. i # 1
      BY <1>9, <3>1, InksDiffer
    <3> HIDE DEF S
    <3> QED
      BY <1>6, <3>1, <3>2
  <2> QED
    BY <2>1, <2>2, <2>3
<1> HIDE DEF S
<1>11. First(S) = 2
  <2>1. \A i \in S : (\A j \in S : i <= j) => i = 2
    BY <1>10
  <2> QED
    BY <1>10, <2>1 DEF First
<1>12. Schemes(body) # {} /\ After(body, First(Schemes(body)) + 2) = rest
  BY <1>8, <1>10, <1>11 DEF S
<1>13. /\ Places(rest, Mark("/")) # {}
       /\ Before(rest, First(Places(rest, Mark("/")))) = a
       /\ After(rest, First(Places(rest, Mark("/")))) = path
  BY <1>1, <1>4, FirstCut
<1> QED
  BY <1>12, <1>13 DEF Split

LEMMA SplitOfSCP ==
  ASSUME NEW C, Inks \subseteq C, NEW a \in Seq(C), NEW path \in Seq(C),
         Apart(a, Mark(":")), Apart(path, Mark(":")), path[1] # Mark("/"),
         NEW body, EndsWith(body, a, <<Mark(":")>> \o path)
  PROVE  Split(body) = HostAndSegments(a, path)
<1>1. Mark(":") \in C
  BY DEF Inks
<1>2. /\ body \in Seq(C) /\ Len(a) \in Nat /\ Len(path) \in Nat
      /\ Len(body) = Len(a) + 1 + Len(path)
      /\ \A i \in 1 .. Len(a) : body[i] = a[i]
      /\ \A i \in 1 .. Len(path) : body[Len(a) + 1 + i] = path[i]
  BY <1>1, ThreeParts
<1>3. /\ Places(body, Mark(":")) # {}
      /\ Before(body, First(Places(body, Mark(":")))) = a
      /\ After(body, First(Places(body, Mark(":")))) = path
  BY <1>1, FirstCut
<1>4. Schemes(body) = {}
  <2> SUFFICES ASSUME NEW i \in Schemes(body) PROVE FALSE
    OBVIOUS
  <2>1. /\ i \in 1 .. Len(body) /\ body[i] = Mark(":") /\ i + 2 <= Len(body)
        /\ body[i + 1] = Mark("/")
    BY <1>2, SchemesAre
  <2>2. i \notin 1 .. Len(a)
    BY <1>2, <2>1 DEF Apart
  <2>3. \A j \in 1 .. Len(path) : path[j] # Mark(":")
    BY DEF Apart
  <2>4. CASE i = Len(a) + 1
    <3>1. 1 \in 1 .. Len(path) /\ i + 1 = Len(a) + 1 + 1
      BY <1>2, <2>1, <2>4
    <3> QED
      BY <1>2, <2>1, <3>1
  <2>5. CASE i # Len(a) + 1
    <3>1. i - (Len(a) + 1) \in 1 .. Len(path) /\ Len(a) + 1 + (i - (Len(a) + 1)) = i
      BY <1>2, <2>1, <2>2, <2>5
    <3>2. PICK k \in 1 .. Len(path) : Len(a) + 1 + k = i
      BY <3>1
    <3>3. body[i] = path[k]
      BY <1>2, <3>2
    <3> QED
      BY <2>1, <2>3, <3>3
  <2> QED
    BY <2>4, <2>5
<1> QED
  BY <1>3, <1>4 DEF Split

-----------------------------------------------------------------------------
(* A safe name has no mark that separates.                                  *)
LEMMA SafeIsWhole ==
  ASSUME NEW name, IsSafeSegment(name)
  PROVE  /\ name # <<>> /\ Whole(name)
         /\ Apart(name, Mark("/")) /\ Apart(name, Mark(":")) /\ Apart(name, Mark("@"))
<1>1. \A c : c.kind \in {"small", "big", "digit"} =>
        c # Mark("/") /\ c # Mark(":") /\ c # Mark("@")
  BY DEF Mark, Char
<1>2. \A c : c \in {Mark(".git"), Mark("..")} =>
        c # Mark("/") /\ c # Mark(":") /\ c # Mark("@")
  BY DEF Mark, Char
<1>3. \A i \in DOMAIN name : name[i] # Mark("/") /\ name[i] # Mark(":") /\ name[i] # Mark("@")
  BY <1>1, <1>2 DEF IsSafeSegment
<1> QED
  BY <1>3 DEF IsSafeSegment, Whole, Apart

(* The names of a path, of what is no ":".                                  *)
LEMMA PathIsOf ==
  ASSUME NEW C, Mark("/") \in C, Mark(":") # Mark("/"), NEW tail \in Seq(Seq(C)),
         Len(tail) >= 2, \A i \in 1 .. Len(tail) : IsSafeSegment(tail[i])
  PROVE  PathOf(PathIn(tail), Tail(tail), C) /\ Apart(PathIn(tail), Mark(":"))
<1> DEFINE N == C \ {Mark(":")}
           segs == Tail(tail)
           W == Seq(N)
<1>1. /\ Len(segs) = Len(tail) - 1 /\ Len(segs) \in Nat /\ Len(tail) \in Nat
      /\ \A i \in 1 .. Len(segs) : segs[i] = tail[i + 1] /\ i + 1 \in 1 .. Len(tail)
      /\ \A i \in 1 .. Len(tail) : tail[i] \in Seq(C)
  <2> DEFINE V == Seq(C)
  <2>1. tail \in Seq(V)
    OBVIOUS
  <2> HIDE DEF V
  <2>2. tail # <<>>
    OBVIOUS
  <2>3. /\ Len(segs) = Len(tail) - 1 /\ segs \in Seq(V) /\ Len(tail) \in Nat /\ Len(segs) \in Nat
        /\ \A i \in 1 .. Len(segs) : segs[i] = tail[i + 1]
    BY <2>1, <2>2, HeadTailProperties
  <2>4. \A i \in 1 .. Len(tail) : tail[i] \in V
    BY <2>1, ElementOfSeq
  <2> HIDE DEF segs
  <2> QED
    BY <2>3, <2>4 DEF V
<1>2. ASSUME NEW w \in Seq(C), IsSafeSegment(w) PROVE w \in W
  <2>1. Apart(w, Mark(":"))
    BY <1>2, SafeIsWhole
  <2>2. w \in [1 .. Len(w) -> N] /\ Len(w) \in Nat
    BY <2>1 DEF Apart
  <2> HIDE DEF N
  <2>3. \A k \in Nat : \A s \in [1 .. k -> N] : s \in Seq(N)
    OBVIOUS
  <2> QED
    BY <2>2, <2>3
<1>3. \A i \in 1 .. Len(segs) : segs[i] \in W /\ Whole(segs[i]) /\ segs[i] # <<>>
  <2> HIDE DEF W, segs
  <2> QED
    BY <1>1, <1>2, SafeIsWhole
<1>4. segs \in Seq(W)
  <2> DEFINE V == Seq(C)
  <2>1. tail \in Seq(V) /\ tail # <<>>
    OBVIOUS
  <2> HIDE DEF W, V
  <2>2. segs \in Seq(V)
    BY <2>1, HeadTailProperties
  <2> HIDE DEF segs
  <2>3. Len(segs) \in Nat /\ segs = [i \in 1 .. Len(segs) |-> segs[i]]
    BY <2>2
  <2>4. segs \in [1 .. Len(segs) -> W]
    BY <1>3, <2>3
  <2>5. \A n \in Nat : \A s \in [1 .. n -> W] : s \in Seq(W)
    OBVIOUS
  <2> QED
    BY <2>3, <2>4, <2>5
<1>5. Mark("/") \in N /\ segs # <<>>
  <2>1. Len(segs) # 0
    BY <1>1
  <2> HIDE DEF segs
  <2> QED
    BY <2>1
<1> HIDE DEF segs, N
<1>6. PathOf(SubSeq(Joined(segs), 1, Len(Joined(segs)) - 1), segs, N)
  BY <1>3, <1>4, <1>5, JoinedIs
<1>7. PathOf(PathIn(tail), segs, N)
  BY <1>6 DEF PathIn, segs
<1> DEFINE p == PathIn(tail)
<1> HIDE DEF p
<1>8. p \in Seq(N) /\ Segments(p) = segs /\ p # <<>> /\ p[1] = segs[1][1]
  BY <1>7 DEF PathOf, p
<1>9. PICK a \in Seq(N) : p = a \o segs[Len(segs)]
  BY <1>7 DEF PathOf, p
<1>10. \A s \in Seq(N) : s \in Seq(C) /\ Apart(s, Mark(":"))
  <2>1. N \subseteq C /\ Mark(":") \notin N
    BY DEF N
  <2> QED
    BY <2>1 DEF Apart
<1>11. PathOf(p, segs, C)
  BY <1>8, <1>9, <1>10 DEF PathOf
<1> QED
  BY <1>8, <1>10, <1>11 DEF p, segs

LEMMA UserApart ==
  ASSUME NEW how \in Written
  PROVE  /\ Apart(UserOf(how), Mark("/"))
         /\ how.users < 2 => Apart(UserOf(how), Mark(":"))
<1>1. how.users \in 0 .. 2
  BY WrittenIs
<1>2. CASE how.users = 0
  BY <1>2 DEF UserOf, Apart
<1>3. CASE how.users = 1
  <2>1. UserOf(how) = <<x, Mark("@")>>
    BY <1>3 DEF UserOf
  <2> QED
    BY <2>1, InksDiffer DEF Apart
<1>4. CASE how.users = 2
  <2>1. UserOf(how) = <<x, Mark(":"), x, Mark("@")>>
    BY <1>4 DEF UserOf
  <2>2. Apart(<<x, Mark(":"), x, Mark("@")>>, Mark("/"))
    BY InksDiffer DEF Apart
  <2> QED
    BY <1>4, <2>1, <2>2
<1> QED
  BY <1>1, <1>2, <1>3, <1>4

(* What is before the path: the scheme, and who serves it.                  *)
AuthorityOf(host, how) == UserOf(how) \o host \o PortOf(how)

BodyOf(tail, how) ==
  SchemeOf(how) \o UserOf(how) \o tail[1] \o PortOf(how) \o <<SeparatorOf(how)>> \o PathIn(tail)

LEMMA AuthorityIs ==
  ASSUME NEW C, Inks \subseteq C, NEW how \in Written, NEW host \in Seq(C), IsSafeSegment(host)
  PROVE  /\ AuthorityOf(host, how) \in Seq(C) /\ HostOf(AuthorityOf(host, how)) = host
         /\ Apart(AuthorityOf(host, how), Mark("/"))
         /\ how.form = "scp" => Apart(AuthorityOf(host, how), Mark(":"))
<1> DEFINE u == UserOf(how)
           p == PortOf(how)
           v == u \o host
<1>1. u \in Seq(C) /\ p \in Seq(C)
  BY PartsAre
<1>2. Apart(host, Mark("/")) /\ Apart(host, Mark(":")) /\ Apart(host, Mark("@"))
  BY SafeIsWhole
<1>3. HostOf(u \o host \o p) = host
  BY <1>2, HostIs
<1>4. /\ Apart(u, Mark("/")) /\ Apart(p, Mark("/"))
      /\ how.form = "scp" => Apart(u, Mark(":")) /\ Apart(p, Mark(":"))
  <2>1. how.form = "scp" => p = <<>> /\ how.users < 2
    BY WrittenIs DEF PortOf
  <2>2. Apart(<<>>, Mark(":"))
    BY DEF Apart
  <2> QED
    BY <2>1, <2>2, UserApart, PortBegins
<1> HIDE DEF u, p
<1>5. /\ v \in Seq(C) /\ Apart(v, Mark("/"))
      /\ how.form = "scp" => Apart(v, Mark(":"))
  BY <1>1, <1>2, <1>4, ConcatIs, ApartIs
<1> HIDE DEF v
<1>6. /\ v \o p \in Seq(C) /\ Apart(v \o p, Mark("/"))
      /\ how.form = "scp" => Apart(v \o p, Mark(":"))
  BY <1>1, <1>4, <1>5, ConcatIs, ApartIs
<1>7. AuthorityOf(host, how) = v \o p
  BY DEF AuthorityOf, u, p, v
<1> QED
  BY <1>3, <1>6, <1>7 DEF u, p, v

LEMMA BodyIs ==
  ASSUME NEW C, Inks \subseteq C, NEW how \in Written, NEW tail, tail[1] \in Seq(C),
         PathIn(tail) \in Seq(C), PathIn(tail) # <<>>
  PROVE  /\ BodyOf(tail, how)
              = SchemeOf(how) \o (AuthorityOf(tail[1], how) \o (<<SeparatorOf(how)>> \o PathIn(tail)))
         /\ BodyOf(tail, how) \in Seq(C) /\ AuthorityOf(tail[1], how) \in Seq(C)
         /\ BodyOf(tail, how)[Len(BodyOf(tail, how))] = PathIn(tail)[Len(PathIn(tail))]
<1> DEFINE s == SchemeOf(how)
           u == UserOf(how)
           h == tail[1]
           p == PortOf(how)
           c == <<SeparatorOf(how)>>
           q == PathIn(tail)
           front == s \o u \o h \o p \o c
<1>1. s \in Seq(C) /\ u \in Seq(C) /\ h \in Seq(C) /\ p \in Seq(C) /\ c \in Seq(C) /\ q \in Seq(C)
      /\ q # <<>>
  BY PartsAre
<1>2. BodyOf(tail, how) = s \o u \o h \o p \o c \o q
  BY DEF BodyOf
<1>3. AuthorityOf(tail[1], how) = u \o h \o p
  BY DEF AuthorityOf
<1> HIDE DEF s, u, h, p, c, q
<1>4. Gathers(s, u, h, p, c, q, C)
  BY <1>1, Regrouped
<1>5. front \in Seq(C)
  BY <1>4 DEF Gathers
<1> HIDE DEF front
<1>6. (front \o q)[Len(front \o q)] = q[Len(q)]
  BY <1>1, <1>5, LastIs
<1>7. s \o u \o h \o p \o c \o q = front \o q
  BY DEF front
<1> QED
  BY <1>2, <1>3, <1>4, <1>6, <1>7 DEF s, u, h, p, c, q, Gathers

-----------------------------------------------------------------------------
Ink(text) == Character(text) \cup Inks

(* The last character of a key.                                             *)
EndOf(tail) == tail[Len(tail)][Len(tail[Len(tail)])]

LEMMA TailIs ==
  ASSUME NEW W, NEW tail \in Seq(W), Len(tail) >= 1
  PROVE  /\ <<tail[1]>> \o Tail(tail) = tail
         /\ Tail(tail) \in Seq(W) /\ Len(Tail(tail)) = Len(tail) - 1 /\ Len(tail) \in Nat
         /\ \A i \in 1 .. Len(tail) - 1 : Tail(tail)[i] = tail[i + 1]
<1> DEFINE rest == Tail(tail)
           head == <<tail[1]>>
           t == head \o rest
<1>1. tail # <<>> /\ 1 \in 1 .. Len(tail) /\ Len(tail) \in Nat
  OBVIOUS
<1>2. /\ rest \in Seq(W) /\ Len(rest) = Len(tail) - 1 /\ Len(rest) \in Nat
      /\ \A i \in 1 .. Len(rest) : rest[i] = tail[i + 1]
  BY <1>1, HeadTailProperties
<1> HIDE DEF rest
<1>3. head \in Seq(W) /\ Len(head) = 1 /\ head[1] = tail[1]
  <2>1. tail[1] \in W
    BY <1>1, ElementOfSeq
  <2> QED
    BY <2>1
<1> HIDE DEF head
<1>4. /\ t \in Seq(W) /\ Len(t) = 1 + Len(rest) /\ t[1] = tail[1]
      /\ \A i \in 1 .. Len(rest) : t[1 + i] = rest[i]
  <2>1. 1 \in 1 .. Len(head)
    BY <1>3
  <2> QED
    BY <1>2, <1>3, <2>1, ConcatIs
<1> HIDE DEF t
<1>5. Len(t) = Len(tail)
  BY <1>1, <1>2, <1>4
<1>6. ASSUME NEW i \in 1 .. Len(tail) PROVE t[i] = tail[i]
  <2>1. CASE i = 1
    BY <1>4, <2>1
  <2>2. CASE i # 1
    <3>1. i - 1 \in 1 .. Len(rest) /\ 1 + (i - 1) = i /\ (i - 1) + 1 = i
      BY <1>1, <1>2, <2>2
    <3> QED
      BY <1>2, <1>4, <3>1
  <2> QED
    BY <2>1, <2>2
<1>7. t = tail
  BY <1>4, <1>5, <1>6, SeqEqual
<1> QED
  BY <1>1, <1>2, <1>7 DEF t, head, rest

(* Path: "all collapse to the same value; that collapse IS the guarantee".  *)
(* A host and at least two safe names are read back from every way to write *)
(* them: as a URL or as scp does, with a user, a password or neither, with  *)
(* a port, with "/" and ".git" at the end or without; the last only if the  *)
(* name itself does not end so.                                             *)
THEOREM SpellingsAreOne ==
  ASSUME NEW text, NEW tail \in Seq(Seq(Character(text))), Len(tail) >= 3,
         \A i \in DOMAIN tail : IsSafeSegment(tail[i]),
         NEW how \in Written, how.git \/ EndOf(tail) # Mark(".git")
  PROVE  Path(Spelled(tail, how)) = tail
<1> DEFINE C == Ink(text)
           path == PathIn(tail)
           host == tail[1]
           a == AuthorityOf(host, how)
           body == BodyOf(tail, how)
           last == tail[Len(tail)]
           n == Len(tail)
<1>1. /\ Inks \subseteq C /\ Mark("/") \in C /\ Mark(":") # Mark("/")
  BY InksDiffer DEF Ink, Inks
<1>2. n \in Nat /\ n >= 3 /\ 1 \in 1 .. n /\ n \in 1 .. n /\ DOMAIN tail = 1 .. n
  OBVIOUS
<1>3. tail \in Seq(Seq(C)) /\ \A i \in 1 .. n : tail[i] \in Seq(C) /\ IsSafeSegment(tail[i])
  <2> DEFINE V == Seq(Character(text))
             W == Seq(C)
  <2>1. tail \in Seq(V) /\ V \subseteq W
    BY DEF Ink
  <2> HIDE DEF V, W
  <2>2. tail \in Seq(W) /\ \A i \in 1 .. Len(tail) : tail[i] \in W
    BY <2>1, ElementOfSeq
  <2> HIDE DEF C
  <2> QED
    BY <1>2, <2>2 DEF W
<1> HIDE DEF C
<1>4. PathOf(path, Tail(tail), C) /\ Apart(path, Mark(":"))
  BY <1>1, <1>2, <1>3, PathIsOf
<1>5. /\ Tail(tail) \in Seq(Seq(C)) /\ Len(Tail(tail)) = n - 1
      /\ <<host>> \o Tail(tail) = tail
      /\ \A i \in 1 .. n - 1 : Tail(tail)[i] = tail[i + 1]
  <2> DEFINE W == Seq(C)
  <2>1. tail \in Seq(W) /\ Len(tail) >= 1
    BY <1>2, <1>3
  <2> HIDE DEF W
  <2> QED
    BY <2>1, TailIs DEF W
<1>6. /\ host \in Seq(C) /\ IsSafeSegment(host)
      /\ last \in Seq(C) /\ IsSafeSegment(last)
      /\ tail[2] \in Seq(C) /\ IsSafeSegment(tail[2])
      /\ Tail(tail)[1] = tail[2] /\ Tail(tail)[n - 1] = last
  <2>1. 2 \in 1 .. n /\ 1 \in 1 .. n - 1 /\ n - 1 \in 1 .. n - 1 /\ 1 + 1 = 2 /\ (n - 1) + 1 = n
    BY <1>2
  <2> HIDE DEF n
  <2> QED
    BY <1>2, <1>3, <1>5, <2>1 DEF n
<1>7. /\ path \in Seq(C) /\ path # <<>> /\ Segments(path) = Tail(tail)
      /\ path[1] = tail[2][1]
  BY <1>4, <1>6 DEF PathOf
<1>8. PICK d \in Seq(C) : path = d \o last
  BY <1>4, <1>5, <1>6 DEF PathOf
<1>9. last # <<>> /\ last[Len(last)] # Mark("/") /\ tail[2][1] # Mark("/")
  <2>1. /\ last # <<>> /\ Apart(last, Mark("/")) /\ tail[2] # <<>> /\ Apart(tail[2], Mark("/"))
    BY <1>6, SafeIsWhole
  <2> HIDE DEF last
  <2>2. \A w \in Seq(C) : w # <<>> => 1 \in DOMAIN w /\ Len(w) \in DOMAIN w
    OBVIOUS
  <2> QED
    BY <1>6, <2>1, <2>2 DEF Apart
<1> HIDE DEF path, last
<1>10. path[Len(path)] = last[Len(last)]
  BY <1>6, <1>8, <1>9, LastIs
<1>11. /\ a \in Seq(C) /\ HostOf(a) = host /\ Apart(a, Mark("/"))
       /\ how.form = "scp" => Apart(a, Mark(":"))
  BY <1>1, <1>6, AuthorityIs
<1>12. /\ body = SchemeOf(how) \o (a \o (<<SeparatorOf(how)>> \o path))
       /\ body \in Seq(C) /\ body[Len(body)] = path[Len(path)]
  BY <1>1, <1>6, <1>7, BodyIs DEF path
<1> HIDE DEF a, body
<1>13. Split(body) = HostAndSegments(a, path)
  <2>1. CASE how.form = "url"
    <3>1. body = <<x, Mark(":"), Mark("/"), Mark("/")>> \o (a \o (<<Mark("/")>> \o path))
      BY <1>12, <2>1 DEF SchemeOf, SeparatorOf
    <3> QED
      BY <1>1, <1>7, <1>11, <3>1, SplitOfURL
  <2>2. CASE how.form = "scp"
    <3>1. body = <<>> \o (a \o (<<Mark(":")>> \o path))
      BY <1>12, <2>2 DEF SchemeOf, SeparatorOf
    <3>2. EndsWith(body, a, <<Mark(":")>> \o path)
      <4> DEFINE s == <<Mark(":")>>
                 b == s \o path
                 none == <<>>
      <4>1. s \in Seq(C)
        BY <1>1 DEF Inks
      <4> HIDE DEF s
      <4>2. b \in Seq(C)
        BY <1>7, <4>1, ConcatIs
      <4> HIDE DEF b
      <4>3. a \o b \in Seq(C)
        BY <1>11, <4>2, ConcatIs
      <4>4. \A t \in Seq(C) : <<>> \o t = t
        OBVIOUS
      <4>5. body = a \o b
        BY <3>1, <4>3, <4>4 DEF b, s
      <4> QED
        BY <4>5 DEF EndsWith, b, s
    <3> QED
      BY <1>1, <1>4, <1>7, <1>9, <1>11, <2>2, <3>2, SplitOfSCP
  <2> QED
    BY <2>1, <2>2, WrittenIs
<1>14. HostAndSegments(a, path) = tail
  BY <1>5, <1>7, <1>11 DEF HostAndSegments
<1>15. Spelled(tail, how) = body \o (DotGitOf(how) \o SlashOf(how))
  BY SpelledIs DEF body, BodyOf
<1>16. how.git \/ body[Len(body)] # Mark(".git")
  BY <1>10, <1>12 DEF EndOf, last
<1>17. TrimSuffix(TrimSuffix(Spelled(tail, how), Mark("/")), Mark(".git")) = body
  <2>1. body[Len(body)] # Mark("/")
    BY <1>9, <1>10, <1>12
  <2> QED
    BY <1>1, <1>12, <1>15, <1>16, <2>1, EndIsTrimmed, WrittenIs
<1> QED
  BY <1>2, <1>3, <1>13, <1>14, <1>17 DEF Path

-----------------------------------------------------------------------------
(* What the run calls Path with.                                            *)
Glyphs == {"x"}

LEMMA TailsAre ==
  ASSUME NEW tail \in Tails
  PROVE  /\ tail \in Seq(Seq(Character(Glyphs))) /\ Len(tail) >= 3
         /\ \A i \in DOMAIN tail : IsSafeSegment(tail[i])
         /\ EndOf(tail) # Mark(".git")
<1> DEFINE W == {<<x>>, <<x, X>>}
           V == Seq(Character(Glyphs))
<1>1. PICK n \in 3 .. 4 : tail \in [1 .. n -> W]
  BY DEF Tails
<1>2. x \in Character(Glyphs) /\ X \in Character(Glyphs)
  BY DEF x, X, Char, Character, Glyphs, Kinds
<1>3. W \subseteq V
  BY <1>2
<1>4. \A w \in W : IsSafeSegment(w) /\ w[Len(w)] # Mark(".git")
  <2>1. x.kind = "small" /\ X.kind = "big" /\ Mark(".git").kind = "mark"
    BY DEF x, X, Char, Mark
  <2>2. <<x>> # <<>> /\ <<x, X>> # <<>> /\ <<x, X>> # <<Mark("..")>>
    OBVIOUS
  <2>3. x # Mark("..") /\ x # Mark(".git") /\ X # Mark(".git")
    BY DEF x, X, Char, Mark
  <2>4. <<x>> # <<Mark("..")>>
    BY <2>3
  <2>5. IsSafeSegment(<<x>>)
    BY <2>1, <2>2, <2>4 DEF IsSafeSegment
  <2>6. IsSafeSegment(<<x, X>>)
    BY <2>1, <2>2 DEF IsSafeSegment
  <2>7. <<x>>[Len(<<x>>)] = x /\ <<x, X>>[Len(<<x, X>>)] = X
    OBVIOUS
  <2> QED
    BY <2>3, <2>5, <2>6, <2>7
<1> HIDE DEF W, V
<1>5. tail \in Seq(W) /\ Len(tail) = n /\ DOMAIN tail = 1 .. n
  BY <1>1
<1>6. tail \in Seq(V)
  BY <1>3, <1>5
<1>7. \A i \in 1 .. n : tail[i] \in W
  BY <1>1
<1>8. n \in 1 .. n
  OBVIOUS
<1>9. EndOf(tail) # Mark(".git")
  BY <1>4, <1>5, <1>7, <1>8 DEF EndOf
<1> QED
  BY <1>4, <1>5, <1>6, <1>7, <1>9 DEF V

(* Two keys whose directories have the same names, on the coarsest volume.  *)
LEMMA SameDirectories ==
  ASSUME NEW key \in Tails, NEW other \in Tails,
         Len(EscapePath(key)) = Len(EscapePath(other)),
         \A i \in DOMAIN EscapePath(key) :
           SameName([folds |-> Folds], EscapePath(key)[i], EscapePath(other)[i])
  PROVE  key = other
<1>1. SafeKey(key, Glyphs) /\ SafeKey(other, Glyphs)
  BY TailsAre DEF SafeKey
<1>2. SameDirectory(Folds, key, other)
  BY DEF SameDirectory
<1>3. Folds \in SUBSET Folds
  OBVIOUS
<1> QED
  BY <1>1, <1>2, <1>3, OneDirectoryOneKey

(* A call for the key of an origin, and its answer.                         *)
OriginInv ==
  input.call = "origin" =>
    /\ input.tail \in Tails /\ input.how \in Written
    /\ output = Waiting \/ output = [key |-> input.tail]

(* Path and EscapePath: for every remote of Tails, written in any way of    *)
(* Written, what Path reads is the remote itself; and the directories of    *)
(* two remotes have different names, on every volume.                       *)
THEOREM SpellingsStayOne == Spec => []SpellingsCollapse
<1>1. Init => OriginInv
  <2> SUFFICES ASSUME Init, input.call = "origin"
               PROVE  output = Waiting /\ input.tail \in Tails /\ input.how \in Written
    BY DEF OriginInv
  <2>1. PICK tail \in Tails, how \in Written :
               input = [call |-> "origin", tail |-> tail, how |-> how]
    BY Called
  <2> QED
    BY <2>1, Called
<1>2. OriginInv /\ [Next]_vars => OriginInv'
  <2> SUFFICES ASSUME OriginInv, [Next]_vars, input'.call = "origin"
               PROVE  /\ input'.tail \in Tails /\ input'.how \in Written
                      /\ output' = Waiting \/ output' = [key |-> input'.tail]
    BY DEF OriginInv
  <2>1. CASE Next
    <3>1. input' = input /\ KeyOfOrigin
      BY <2>1, Answered
    <3>2. input.tail \in Tails /\ input.how \in Written
      BY <3>1 DEF OriginInv
    <3>3. Path(Spelled(input.tail, input.how)) = input.tail
      BY <3>2, TailsAre, SpellingsAreOne
    <3>4. output' = [key |-> Path(Spelled(input.tail, input.how))]
      BY <3>1 DEF KeyOfOrigin
    <3> QED
      BY <3>1, <3>2, <3>3, <3>4
  <2>2. CASE UNCHANGED vars
    BY <2>2 DEF OriginInv, vars
  <2> QED
    BY <2>1, <2>2
<1>3. OriginInv => SpellingsCollapse
  <2> SUFFICES ASSUME OriginInv, Done("origin")
               PROVE  /\ output.key = input.tail
                      /\ \A other \in Tails :
                           other # output.key =>
                             LET mine == EscapePath(output.key)
                                 its  == EscapePath(other)
                             IN  \/ Len(mine) # Len(its)
                                 \/ \E i \in DOMAIN mine :
                                      ~ SameName([folds |-> Folds], mine[i], its[i])
    BY DEF SpellingsCollapse
  <2>1. output.key = input.tail /\ input.tail \in Tails
    BY DEF OriginInv, Done
  <2>2. ASSUME NEW other \in Tails, Len(EscapePath(input.tail)) = Len(EscapePath(other)),
               \A i \in DOMAIN EscapePath(input.tail) :
                 SameName([folds |-> Folds], EscapePath(input.tail)[i], EscapePath(other)[i])
        PROVE  input.tail = other
    BY <2>1, <2>2, SameDirectories
  <2> QED
    BY <2>1, <2>2
<1> QED
  BY <1>1, <1>2, <1>3, PTL DEF Spec

(* Both: a repository has one key, from its origin however that is written, *)
(* and from where it is, however that is written.                           *)
THEOREM KeysAreOne == Spec => []OneKey
<1>1. SpellingsCollapse /\ DirectoryHasOneKey => OneKey
  BY DEF OneKey
<1> QED
  BY <1>1, SpellingsStayOne, DirectoriesHaveOneKey, PTL

-----------------------------------------------------------------------------
(* Where a clone lands.                                                     *)

(* Resolution, one name.                                                    *)
ResolveStep(disk, dir, name) ==
  IF dir \notin DOMAIN disk.names \/ Found(disk, dir, name) = {} THEN Nowhere
  ELSE Append(dir, CHOOSE n \in Found(disk, dir, name) : TRUE)

LEMMA ResolveIsChosen ==
  ASSUME NEW disk, NEW path
  PROVE  Resolve(disk, path) =
           (CHOOSE iter : iter = [s \in SUBSET DOMAIN path |->
               IF s = {} THEN <<>>
               ELSE ResolveStep(disk, iter[s \ {Max(s)}], path[Max(s)])])[DOMAIN path]
BY DEF Resolve, FoldLeft, MapThenFoldSet, ResolveStep

(* The directories resolution goes through.                                  *)
ResolvedBy(dirs, disk, path) ==
  /\ dirs[0] = <<>>
  /\ \A n \in 1 .. Len(path) : dirs[n] = ResolveStep(disk, dirs[n - 1], path[n])
  /\ Resolve(disk, path) = dirs[Len(path)]

LEMMA ResolveStepIs ==
  ASSUME NEW N, NEW disk, StoredIn(disk, N), NEW dir \in Seq(N), NEW name \in N
  PROVE  ResolveStep(disk, dir, name) \in Seq(N)
<1>1. Nowhere \in Seq(N)
  BY DEF Nowhere, StoredIn
<1>2. CASE dir \notin DOMAIN disk.names \/ Found(disk, dir, name) = {}
  BY <1>1, <1>2 DEF ResolveStep
<1>3. CASE ~ (dir \notin DOMAIN disk.names \/ Found(disk, dir, name) = {})
  <2> DEFINE s == CHOOSE n \in Found(disk, dir, name) : TRUE
  <2>1. s \in Found(disk, dir, name)
    BY <1>3
  <2>2. s \in N
    BY <1>3, <2>1 DEF Found, StoredIn
  <2>3. ResolveStep(disk, dir, name) = Append(dir, s)
    BY <1>3 DEF ResolveStep
  <2> HIDE DEF s
  <2> QED
    BY <2>2, <2>3
<1> QED
  BY <1>2, <1>3

LEMMA ResolveRuns ==
  ASSUME NEW N, NEW disk, StoredIn(disk, N), NEW path \in Seq(N)
  PROVE  \E dirs : ResolvedBy(dirs, disk, path)
<1> DEFINE k == Len(path)
           D == Seq(N)
           T == [q \in D \X N |-> ResolveStep(disk, q[1], q[2])]
           take == [s \in SUBSET (1 .. k) |-> Max(s)]
           fold(g) == [s \in SUBSET DOMAIN path |->
                         IF s = {} THEN <<>> ELSE ResolveStep(disk, g[s \ {Max(s)}], path[Max(s)])]
           iter == CHOOSE g : g = fold(g)
<1>1. k \in Nat /\ DOMAIN path = 1 .. k /\ \A i \in 1 .. k : path[i] \in N
  OBVIOUS
<1>2. T \in [D \X N -> D]
  BY ResolveStepIs
<1>3. \E g : g = fold(g)
  <2> HIDE DEF T, D, k
  <2>1. <<>> \in D
    BY DEF D
  <2>2. \A s \in SUBSET (1 .. k) : s # {} => take[s] \in s
    BY <1>1, TakeIs
  <2>3. PICK g : FoldsOver(g, D, T, take, <<>>, path, k)
    <3> HIDE DEF take
    <3> QED
      BY <1>1, <1>2, <2>1, <2>2, FoldExists
  <2>4. ASSUME NEW s \in SUBSET (1 .. k) PROVE g[s] = fold(g)[s]
    <3>1. s # {} => g[s \ {Max(s)}] \in D /\ path[Max(s)] \in N
      BY <1>1, <2>3, TakeIs DEF FoldsOver
    <3>2. s # {} => T[<<g[s \ {Max(s)}], path[Max(s)]>>]
                      = ResolveStep(disk, g[s \ {Max(s)}], path[Max(s)])
      BY <3>1 DEF T
    <3>3. g[s] = IF s = {} THEN <<>> ELSE T[<<g[s \ {Max(s)}], path[Max(s)]>>]
      BY <2>3 DEF FoldsOver, FoldEquation
    <3> QED
      BY <1>1, <3>2, <3>3
  <2>5. g = [s \in SUBSET (1 .. k) |-> g[s]]
    BY <2>3 DEF FoldsOver
  <2>6. g = fold(g)
    BY <1>1, <2>4, <2>5
  <2> QED
    BY <2>6
<1>4. iter = fold(iter)
  BY <1>3
<1>5. Resolve(disk, path) = iter[DOMAIN path]
  BY ResolveIsChosen
<1> HIDE DEF iter, k
<1> DEFINE dirs == [n \in 0 .. k |-> iter[1 .. n]]
<1>6. dirs[0] = <<>>
  <2>1. 1 .. 0 = {} /\ 0 \in 0 .. k
    BY <1>1
  <2>2. iter[{}] = <<>>
    BY <1>4
  <2> QED
    BY <2>1, <2>2
<1>7. ASSUME NEW n \in 1 .. k PROVE dirs[n] = ResolveStep(disk, dirs[n - 1], path[n])
  <2>1. n \in 0 .. k /\ n - 1 \in 0 .. k
    BY <1>1
  <2>2. iter[1 .. n] = ResolveStep(disk, iter[1 .. n - 1], path[n])
    <3>1. /\ 1 .. n \in SUBSET DOMAIN path /\ 1 .. n # {}
          /\ Max(1 .. n) = n /\ (1 .. n) \ {n} = 1 .. n - 1
      BY <1>1, TakeOfAll
    <3>2. \A s \in SUBSET DOMAIN path :
            iter[s] = IF s = {} THEN <<>> ELSE ResolveStep(disk, iter[s \ {Max(s)}], path[Max(s)])
      BY <1>4
    <3>3. iter[1 .. n] = ResolveStep(disk, iter[(1 .. n) \ {Max(1 .. n)}], path[Max(1 .. n)])
      BY <3>1, <3>2, Zenon
    <3> QED
      BY <3>1, <3>3, Zenon
  <2> QED
    BY <2>1, <2>2
<1>8. dirs[k] = iter[DOMAIN path]
  BY <1>1
<1>9. ResolvedBy(dirs, disk, path)
  BY <1>5, <1>6, <1>7, <1>8 DEF ResolvedBy, k
<1> QED
  BY <1>9

-----------------------------------------------------------------------------
(* A disk as clones leave it: every name in a directory is a directory,     *)
(* but for the git directories, and every directory is in its parent.       *)
Git == <<Mark(".git")>>

Planted(disk, text) ==
  /\ DiskOf(disk, text) /\ <<>> \in DOMAIN disk.names
  /\ \A d \in DOMAIN disk.names :
       \A n \in disk.names[d] : n # Git => Append(d, n) \in DOMAIN disk.names
  /\ \A d \in Seq(Seq(Character(text))), n \in Seq(Character(text)) :
       Append(d, n) \in DOMAIN disk.names => d \in DOMAIN disk.names /\ n \in disk.names[d]

Namings(W) == UNION {[S -> SUBSET W] : S \in SUBSET Seq(W)}

DisksOf(text) == [folds : SUBSET Folds, names : Namings(Seq(Character(text)))]

MadeOf(text) ==
  {made \in [disk : DisksOf(text), at : Seq(Seq(Character(text)))] :
     Planted(made.disk, text) /\ made.at \in DOMAIN made.disk.names}

LEMMA NamingIs ==
  ASSUME NEW W, NEW f
  PROVE  f \in Namings(W) <=> DOMAIN f \subseteq Seq(W) /\ f \in [DOMAIN f -> SUBSET W]
<1>1. f \in Namings(W) <=> \E S \in SUBSET Seq(W) : f \in [S -> SUBSET W]
  BY Zenon DEF Namings
<1>2. ASSUME NEW S \in SUBSET Seq(W), f \in [S -> SUBSET W] PROVE DOMAIN f = S
  BY <1>2
<1>3. ASSUME DOMAIN f \subseteq Seq(W), f \in [DOMAIN f -> SUBSET W] PROVE f \in Namings(W)
  <2>1. DOMAIN f \in SUBSET Seq(W)
    BY <1>3
  <2> QED
    BY <1>1, <1>3, <2>1
<1>4. ASSUME f \in Namings(W) PROVE DOMAIN f \subseteq Seq(W) /\ f \in [DOMAIN f -> SUBSET W]
  <2>1. PICK S \in SUBSET Seq(W) : f \in [S -> SUBSET W]
    BY <1>1, <1>4
  <2>2. DOMAIN f = S
    BY <1>2, <2>1
  <2> QED
    BY <2>1, <2>2
<1> QED
  BY <1>3, <1>4

(* Nothing is lost from one disk to the next.                               *)
Grows(disk, next) ==
  /\ next.folds = disk.folds /\ DOMAIN disk.names \subseteq DOMAIN next.names
  /\ \A d \in DOMAIN disk.names : disk.names[d] \subseteq next.names[d]

LEMMA SameFolds ==
  ASSUME NEW disk, NEW next, next.folds = disk.folds, NEW a, NEW b
  PROVE  SameName(next, a, b) <=> SameName(disk, a, b)
BY DEF SameName

(* What mkdir of one name makes of the disk.                                *)
Sprouted(disk, dir, name) ==
  [disk EXCEPT !.names =
    [d \in DOMAIN disk.names \cup {Append(dir, name)} |->
       IF d = Append(dir, name) THEN {}
       ELSE disk.names[d] \cup IF d = dir THEN {name} ELSE {}]]

LEMMA AppendsDiffer ==
  ASSUME NEW W, NEW p \in Seq(W), NEW q \in Seq(W), NEW n \in W, NEW m \in W
  PROVE  /\ Append(p, n) = Append(q, m) => p = q /\ n = m
         /\ Append(p, n) \in Seq(W) /\ Append(p, n) # p
<1> DEFINE s == Append(p, n)
           t == Append(q, m)
<1>1. /\ s \in Seq(W) /\ Len(s) = Len(p) + 1 /\ s[Len(p) + 1] = n /\ Len(p) \in Nat
      /\ \A i \in 1 .. Len(p) : s[i] = p[i]
  BY AppendProperties
<1>2. /\ t \in Seq(W) /\ Len(t) = Len(q) + 1 /\ t[Len(q) + 1] = m /\ Len(q) \in Nat
      /\ \A i \in 1 .. Len(q) : t[i] = q[i]
  BY AppendProperties
<1> HIDE DEF s, t
<1>3. ASSUME s = t PROVE p = q /\ n = m
  <2>1. Len(p) = Len(q) /\ \A i \in 1 .. Len(p) : p[i] = q[i]
    BY <1>1, <1>2, <1>3
  <2>2. p = q
    BY <2>1, SeqEqual
  <2> QED
    BY <1>1, <1>2, <1>3, <2>2
<1>4. s # p
  BY <1>1
<1> QED
  BY <1>1, <1>3, <1>4 DEF s, t

LEMMA SproutedIs ==
  ASSUME NEW text, NEW disk \in DisksOf(text), Planted(disk, text), NEW dir \in DOMAIN disk.names,
         NEW name \in Seq(Character(text)), name # Git, Found(disk, dir, name) = {}
  PROVE  /\ Sprouted(disk, dir, name) \in DisksOf(text) /\ Planted(Sprouted(disk, dir, name), text)
         /\ Append(dir, name) \in DOMAIN Sprouted(disk, dir, name).names
         /\ Grows(disk, Sprouted(disk, dir, name))
<1> DEFINE W == Seq(Character(text))
           new == Append(dir, name)
           next == Sprouted(disk, dir, name)
           names == [d \in DOMAIN disk.names \cup {new} |->
                       IF d = new THEN {} ELSE disk.names[d] \cup IF d = dir THEN {name} ELSE {}]
<1>1. /\ disk = [folds |-> disk.folds, names |-> disk.names] /\ disk.folds \in SUBSET Folds
      /\ disk.names \in Namings(W)
  BY DEF DisksOf
<1>2. DOMAIN disk.names \subseteq Seq(W) /\ disk.names \in [DOMAIN disk.names -> SUBSET W]
  BY <1>1, NamingIs
<1>3. next = [folds |-> disk.folds, names |-> names]
  <2>1. next = [disk EXCEPT !.names = names]
    BY Zenon DEF Sprouted
  <2> HIDE DEF names, next
  <2> DEFINE old == disk.names
             folds == disk.folds
  <2>2. disk = [folds |-> folds, names |-> old]
    BY <1>1
  <2> HIDE DEF old, folds
  <2>3. [disk EXCEPT !.names = names] = [folds |-> folds, names |-> names]
    BY <2>2
  <2> QED
    BY <2>1, <2>3 DEF folds
<1>4. name \in W /\ dir \in Seq(W)
  BY <1>2
<1> HIDE DEF W
<1>5. new \in Seq(W) /\ new # dir
  BY <1>4, AppendsDiffer
<1>6. new \notin DOMAIN disk.names
  <2> SUFFICES ASSUME new \in DOMAIN disk.names PROVE FALSE
    OBVIOUS
  <2>1. name \in disk.names[dir]
    BY <1>4 DEF Planted, W
  <2>2. SameName(disk, name, name)
    BY DEF SameName
  <2> QED
    BY <2>1, <2>2 DEF Found
<1> HIDE DEF new
<1>7. /\ DOMAIN names = DOMAIN disk.names \cup {new} /\ names[new] = {}
      /\ names[dir] = disk.names[dir] \cup {name}
      /\ \A d \in DOMAIN disk.names : d # dir => names[d] = disk.names[d]
  BY <1>5, <1>6
<1>8. names \in [DOMAIN disk.names \cup {new} -> SUBSET W]
  BY <1>2, <1>4
<1> HIDE DEF names
<1>9. names \in Namings(W)
  BY <1>2, <1>5, <1>7, <1>8, NamingIs
<1>10. next.folds = disk.folds /\ next.names = names
  BY <1>3
<1>11. next \in DisksOf(text)
  BY <1>1, <1>3, <1>9 DEF DisksOf, W
<1> HIDE DEF next
<1>12. DiskOf(next, text)
  <2> SUFFICES ASSUME NEW d \in DOMAIN names PROVE Stores(next, d, text)
    BY <1>10 DEF DiskOf, Planted
  <2>1. next.folds \in SUBSET Folds /\ next.names[d] \subseteq W
    BY <1>1, <1>7, <1>8, <1>10
  <2>2. \A a, b \in disk.names[dir] : a # b => ~ SameName(disk, a, b)
    BY DEF Planted, DiskOf, Stores, Unlike
  <2>3. ASSUME NEW a \in names[d], NEW b \in names[d], a # b PROVE ~ SameName(disk, a, b)
    <3>1. CASE d = new
      BY <1>7, <2>3, <3>1
    <3>2. CASE d # new /\ d # dir
      <4>1. names[d] = disk.names[d] /\ d \in DOMAIN disk.names
        BY <1>7, <3>2
      <4> QED
        BY <2>3, <4>1 DEF Planted, DiskOf, Stores, Unlike
    <3>3. CASE d = dir
      <4>1. \A n \in disk.names[dir] : n \in W /\ ~ SameName(disk, n, name)
        BY <1>2 DEF Found
      <4>2. \A n \in disk.names[dir] : ~ SameName(disk, name, n)
        BY <1>1, <1>4, <4>1, SameNameIs DEF W
      <4> QED
        BY <1>7, <2>2, <2>3, <3>3, <4>1, <4>2
    <3> QED
      BY <3>1, <3>2, <3>3
  <2>4. Unlike(next, next.names[d])
    BY <1>10, <2>3, SameFolds DEF Unlike
  <2> QED
    BY <2>1, <2>4 DEF Stores, W
<1>13. ASSUME NEW d \in DOMAIN names, NEW n \in names[d], n # Git PROVE Append(d, n) \in DOMAIN names
  <2>1. d \in DOMAIN disk.names
    BY <1>7, <1>13
  <2>2. n \in disk.names[d] \/ (d = dir /\ n = name)
    BY <1>7, <1>13, <2>1
  <2>3. n \in disk.names[d] => Append(d, n) \in DOMAIN disk.names
    BY <1>13, <2>1 DEF Planted
  <2> QED
    BY <1>7, <2>2, <2>3 DEF new
<1>14. ASSUME NEW d \in Seq(W), NEW n \in W, Append(d, n) \in DOMAIN names
       PROVE  d \in DOMAIN names /\ n \in names[d]
  <2>1. CASE Append(d, n) \in DOMAIN disk.names
    <3>1. d \in DOMAIN disk.names /\ n \in disk.names[d]
      BY <1>14, <2>1 DEF Planted, W
    <3> QED
      BY <1>7, <3>1
  <2>2. CASE Append(d, n) = new
    <3>1. d = dir /\ n = name
      BY <1>4, <1>14, <2>2, AppendsDiffer DEF new
    <3> QED
      BY <1>7, <3>1
  <2> QED
    BY <1>7, <1>14, <2>1, <2>2
<1>15. <<>> \in DOMAIN names
  BY <1>7 DEF Planted
<1>16. Planted(next, text)
  BY <1>10, <1>12, <1>13, <1>14, <1>15 DEF Planted, W
<1>17. Grows(disk, next)
  BY <1>7, <1>10 DEF Grows
<1> QED
  BY <1>7, <1>10, <1>11, <1>16, <1>17 DEF next, new

-----------------------------------------------------------------------------
(* os.MkdirAll, one name.                                                   *)
MkdirStep(made, name) ==
  LET there == Found(made.disk, made.at, name)
      at    == Append(made.at, IF there = {} THEN name ELSE CHOOSE n \in there : TRUE)
      names == made.disk.names
  IN  [at |-> at,
       disk |-> IF there # {} THEN made.disk
                ELSE [made.disk EXCEPT
                        !.names = [d \in DOMAIN names \cup {at} |->
                          IF d = at THEN {}
                          ELSE names[d] \cup IF d = made.at THEN {name} ELSE {}]]]

LEMMA MkdirIsChosen ==
  ASSUME NEW disk, NEW path
  PROVE  MkdirAll(disk, path) =
           (CHOOSE iter : iter = [s \in SUBSET DOMAIN path |->
               IF s = {} THEN [disk |-> disk, at |-> <<>>]
               ELSE MkdirStep(iter[s \ {Max(s)}], path[Max(s)])])[DOMAIN path]
BY DEF MkdirAll, FoldLeft, MapThenFoldSet, MkdirStep

(* What MkdirAll goes through.                                              *)
MadeBy(mades, disk, path) ==
  /\ mades[0] = [disk |-> disk, at |-> <<>>]
  /\ \A n \in 1 .. Len(path) : mades[n] = MkdirStep(mades[n - 1], path[n])
  /\ MkdirAll(disk, path) = mades[Len(path)]

Steps(made, next, name, text) ==
  /\ next \in MadeOf(text) /\ Grows(made.disk, next.disk)
  /\ \E n \in Seq(Character(text)) :
       next.at = Append(made.at, n) /\ SameName(made.disk, n, name)

LEMMA FoundIsNoGit ==
  ASSUME NEW text, NEW disk, disk.folds \in SUBSET Folds,
         NEW name \in Seq(Character(text)), name # Git
  PROVE  ~ SameName(disk, Git, name)
<1> SUFFICES ASSUME SameName(disk, Git, name) PROVE FALSE
  OBVIOUS
<1>1. Len(Git) = 1 /\ Git[1] = Mark(".git") /\ DOMAIN Git = {1}
  BY DEF Git
<1>2. /\ Len(name) = 1 /\ Mark(".git").of = name[1].of
      /\ Mark(".git").kind = name[1].kind \/ {Mark(".git").kind, name[1].kind} \in disk.folds
  <2>1. Len(name) = 1
    BY <1>1 DEF SameName
  <2>2. /\ Git[1].of = name[1].of
        /\ Git[1].kind = name[1].kind \/ {Git[1].kind, name[1].kind} \in disk.folds
    BY <1>1, Zenon DEF SameName
  <2> QED
    BY <1>1, <2>1, <2>2
<1>3. Mark(".git").kind = "mark" /\ Mark(".git").of = ".git"
  BY DEF Mark, Char
<1>4. \A pair \in disk.folds : "mark" \notin pair
  BY DEF Folds
<1>5. name[1] \in Character(text)
  BY <1>2, ElementOfSeq
<1>6. name[1] = Mark(".git")
  BY <1>2, <1>3, <1>4, <1>5 DEF Character, Mark, Char
<1>7. name = Git
  BY <1>2, <1>6 DEF Git
<1> QED
  BY <1>7

LEMMA MkdirStepIs ==
  ASSUME NEW text, NEW made \in MadeOf(text), NEW name \in Seq(Character(text)), name # Git
  PROVE  /\ MkdirStep(made, name) \in MadeOf(text)
         /\ Steps(made, MkdirStep(made, name), name, text)
<1> DEFINE W == Seq(Character(text))
           disk == made.disk
           at == made.at
           there == Found(disk, at, name)
           next == MkdirStep(made, name)
           s == CHOOSE n \in there : TRUE
<1>1. /\ disk \in DisksOf(text) /\ at \in Seq(W) /\ Planted(disk, text) /\ at \in DOMAIN disk.names
  BY DEF MadeOf
<1>2. disk.folds \in SUBSET Folds /\ disk.names[at] \subseteq W
  BY <1>1 DEF Planted, DiskOf, Stores
<1>3. CASE there # {}
  <2>1. s \in there
    BY <1>3
  <2>2. next = [at |-> Append(at, s), disk |-> disk]
    BY <1>3 DEF MkdirStep
  <2> HIDE DEF s, next, at, disk
  <2>3. s \in disk.names[at] /\ SameName(disk, s, name) /\ s \in W
    BY <1>2, <2>1 DEF Found
  <2>4. s # Git
    BY <1>2, <2>3, FoundIsNoGit
  <2>5. Append(at, s) \in DOMAIN disk.names /\ Append(at, s) \in Seq(W)
    BY <1>1, <2>3, <2>4 DEF Planted
  <2>6. Grows(disk, disk)
    BY DEF Grows
  <2>7. next \in MadeOf(text)
    BY <1>1, <2>2, <2>5 DEF MadeOf
  <2> QED
    BY <2>2, <2>3, <2>6, <2>7 DEF Steps, next, disk, at
<1>4. CASE there = {}
  <2>1. next = [at |-> Append(at, name), disk |-> Sprouted(disk, at, name)]
    BY <1>4 DEF MkdirStep, Sprouted
  <2> HIDE DEF next, at, disk
  <2> DEFINE grown == Sprouted(disk, at, name)
  <2>2. /\ grown \in DisksOf(text) /\ Planted(grown, text)
        /\ Append(at, name) \in DOMAIN grown.names /\ Grows(disk, grown)
    BY <1>1, <1>4, SproutedIs
  <2> HIDE DEF grown
  <2>3. Append(at, name) \in Seq(W)
    BY <1>1
  <2>4. next \in MadeOf(text)
    BY <2>1, <2>2, <2>3 DEF MadeOf, grown
  <2>5. SameName(disk, name, name)
    BY DEF SameName
  <2> QED
    BY <2>1, <2>2, <2>4, <2>5 DEF Steps, next, disk, at, grown
<1> QED
  BY <1>3, <1>4

LEMMA BaseIsMade ==
  ASSUME NEW text, NEW disk \in DisksOf(text), Planted(disk, text)
  PROVE  [disk |-> disk, at |-> <<>>] \in MadeOf(text)
BY DEF MadeOf, Planted

LEMMA MkdirRuns ==
  ASSUME NEW text, NEW disk \in DisksOf(text), Planted(disk, text),
         NEW path \in Seq(Seq(Character(text)) \ {Git})
  PROVE  \E mades : MadeBy(mades, disk, path)
<1> DEFINE k == Len(path)
           N == Seq(Character(text)) \ {Git}
           base == [disk |-> disk, at |-> <<>>]
           D == MadeOf(text)
           T == [q \in D \X N |-> MkdirStep(q[1], q[2])]
           take == [s \in SUBSET (1 .. k) |-> Max(s)]
           fold(g) == [s \in SUBSET DOMAIN path |->
                         IF s = {} THEN base ELSE MkdirStep(g[s \ {Max(s)}], path[Max(s)])]
           iter == CHOOSE g : g = fold(g)
<1>1. k \in Nat /\ DOMAIN path = 1 .. k /\ \A i \in 1 .. k : path[i] \in N
  OBVIOUS
<1>2. T \in [D \X N -> D]
  <2>1. \A made \in D, name \in N : MkdirStep(made, name) \in D
    BY MkdirStepIs DEF Steps
  <2> HIDE DEF D, N
  <2> QED
    BY <2>1
<1>3. \E g : g = fold(g)
  <2> HIDE DEF T, D, N, k, base
  <2>1. base \in D
    BY BaseIsMade DEF D, base
  <2>2. \A s \in SUBSET (1 .. k) : s # {} => take[s] \in s
    BY <1>1, TakeIs
  <2>3. PICK g : FoldsOver(g, D, T, take, base, path, k)
    <3> HIDE DEF take
    <3> QED
      BY <1>1, <1>2, <2>1, <2>2, FoldExists
  <2>4. ASSUME NEW s \in SUBSET (1 .. k) PROVE g[s] = fold(g)[s]
    <3>1. s # {} => g[s \ {Max(s)}] \in D /\ path[Max(s)] \in N
      BY <1>1, <2>3, TakeIs DEF FoldsOver
    <3>2. s # {} => T[<<g[s \ {Max(s)}], path[Max(s)]>>]
                      = MkdirStep(g[s \ {Max(s)}], path[Max(s)])
      BY <3>1 DEF T
    <3>3. g[s] = IF s = {} THEN base ELSE T[<<g[s \ {Max(s)}], path[Max(s)]>>]
      BY <2>3 DEF FoldsOver, FoldEquation
    <3> QED
      BY <1>1, <3>2, <3>3
  <2>5. g = [s \in SUBSET (1 .. k) |-> g[s]]
    BY <2>3 DEF FoldsOver
  <2>6. g = fold(g)
    BY <1>1, <2>4, <2>5
  <2> QED
    BY <2>6
<1>4. iter = fold(iter)
  BY <1>3
<1>5. MkdirAll(disk, path) = iter[DOMAIN path]
  BY MkdirIsChosen DEF base
<1> HIDE DEF iter, k, N, base
<1> DEFINE mades == [n \in 0 .. k |-> iter[1 .. n]]
<1>6. mades[0] = base
  <2>1. 1 .. 0 = {} /\ 0 \in 0 .. k
    BY <1>1
  <2>2. iter[{}] = base
    BY <1>4
  <2> QED
    BY <2>1, <2>2
<1>7. ASSUME NEW n \in 1 .. k PROVE mades[n] = MkdirStep(mades[n - 1], path[n])
  <2>1. n \in 0 .. k /\ n - 1 \in 0 .. k
    BY <1>1
  <2>2. iter[1 .. n] = MkdirStep(iter[1 .. n - 1], path[n])
    <3>1. /\ 1 .. n \in SUBSET DOMAIN path /\ 1 .. n # {}
          /\ Max(1 .. n) = n /\ (1 .. n) \ {n} = 1 .. n - 1
      BY <1>1, TakeOfAll
    <3>2. \A s \in SUBSET DOMAIN path :
            iter[s] = IF s = {} THEN base ELSE MkdirStep(iter[s \ {Max(s)}], path[Max(s)])
      BY <1>4
    <3>3. iter[1 .. n] = MkdirStep(iter[(1 .. n) \ {Max(1 .. n)}], path[Max(1 .. n)])
      BY <3>1, <3>2, Zenon
    <3> QED
      BY <3>1, <3>3, Zenon
  <2> QED
    BY <2>1, <2>2
<1>8. mades[k] = iter[DOMAIN path]
  BY <1>1
<1>9. MadeBy(mades, disk, path)
  BY <1>5, <1>6, <1>7, <1>8 DEF MadeBy, k, base
<1> QED
  BY <1>9

-----------------------------------------------------------------------------
(* Every directory above one that is there is there.                        *)
LEMMA AboveIsThere ==
  ASSUME NEW text, NEW disk, Planted(disk, text), NEW at \in Seq(Seq(Character(text))),
         at \in DOMAIN disk.names
  PROVE  /\ \A n \in 0 .. Len(at) : SubSeq(at, 1, n) \in DOMAIN disk.names
         /\ \A n \in 1 .. Len(at) : at[n] \in disk.names[SubSeq(at, 1, n - 1)]
<1> DEFINE W == Seq(Character(text))
           k == Len(at)
           Upto(n) == SubSeq(at, 1, n)
           Lost == {m \in 0 .. k : Upto(k - m) \notin DOMAIN disk.names}
<1>1. /\ Upto(k) = at
      /\ \A n \in 0 .. k : Upto(n) \in Seq(W)
      /\ \A n \in 1 .. k : Upto(n) = Append(Upto(n - 1), at[n])
  <2> HIDE DEF W
  <2>1. at \in Seq(W)
    BY DEF W
  <2> QED
    BY <2>1, UptoIs
<1>2. k \in Nat /\ \A n \in 1 .. k : at[n] \in W
  <2> HIDE DEF W
  <2>1. at \in Seq(W)
    BY DEF W
  <2> QED
    BY <2>1, ElementOfSeq
<1> HIDE DEF Upto, k, W
<1>3. ASSUME NEW n \in 1 .. k, Upto(n) \in DOMAIN disk.names
      PROVE  Upto(n - 1) \in DOMAIN disk.names /\ at[n] \in disk.names[Upto(n - 1)]
  <2>1. n - 1 \in 0 .. k
    BY <1>2
  <2>2. Upto(n - 1) \in Seq(W) /\ at[n] \in W /\ Append(Upto(n - 1), at[n]) \in DOMAIN disk.names
    BY <1>1, <1>2, <1>3, <2>1
  <2> QED
    BY <2>2 DEF Planted, W
<1>4. Lost = {}
  <2> SUFFICES ASSUME Lost # {} PROVE FALSE
    OBVIOUS
  <2>1. PICK m \in Lost : \A j \in Lost : m <= j
    <3>1. \A j \in Lost : j \in Nat
      BY <1>2
    <3> HIDE DEF Lost
    <3> QED
      BY <3>1, Least
  <2>2. m \in 0 .. k /\ Upto(k - m) \notin DOMAIN disk.names
    BY <2>1
  <2>3. m # 0
    BY <1>1, <1>2, <2>2
  <2>4. m - 1 \in 0 .. k /\ m - 1 < m /\ k - (m - 1) \in 1 .. k /\ (k - (m - 1)) - 1 = k - m
    BY <1>2, <2>2, <2>3
  <2>5. Upto(k - (m - 1)) \in DOMAIN disk.names
    BY <2>1, <2>4
  <2> QED
    BY <1>3, <2>2, <2>4, <2>5
<1>5. ASSUME NEW n \in 0 .. k PROVE Upto(n) \in DOMAIN disk.names
  <2>1. k - n \in 0 .. k /\ k - (k - n) = n
    BY <1>2
  <2> QED
    BY <1>4, <2>1
<1>6. \A n \in 1 .. k : n \in 0 .. k
  BY <1>2
<1> QED
  BY <1>3, <1>5, <1>6 DEF Upto, k

(* Where a path leads.                                                      *)
Leads(disk, path, at) ==
  /\ at \in DOMAIN disk.names /\ Len(at) = Len(path)
  /\ \A n \in 1 .. Len(path) : SameName(disk, at[n], path[n])

LEMMA LeadsThrough ==
  ASSUME NEW text, NEW disk, Planted(disk, text), NEW at \in Seq(Seq(Character(text))),
         NEW path \in Seq(Seq(Character(text))), Leads(disk, path, at), NEW n \in 1 .. Len(path)
  PROVE  /\ SubSeq(at, 1, n - 1) \in DOMAIN disk.names
         /\ Stores(disk, SubSeq(at, 1, n - 1), text)
         /\ path[n] \in Seq(Character(text))
         /\ at[n] \in Found(disk, SubSeq(at, 1, n - 1), path[n])
<1> DEFINE W == Seq(Character(text))
           dir == SubSeq(at, 1, n - 1)
<1>1. Len(at) = Len(path) /\ Len(path) \in Nat /\ n - 1 \in 0 .. Len(at)
      /\ SameName(disk, at[n], path[n]) /\ at \in DOMAIN disk.names
  BY DEF Leads
<1>2. dir \in DOMAIN disk.names /\ at[n] \in disk.names[dir]
  BY <1>1, AboveIsThere
<1>3. path[n] \in W
  <2> HIDE DEF W
  <2>1. path \in Seq(W)
    BY DEF W
  <2> QED
    BY <2>1, ElementOfSeq
<1> HIDE DEF dir
<1>4. Stores(disk, dir, text)
  BY <1>2 DEF Planted, DiskOf
<1> QED
  BY <1>1, <1>2, <1>3, <1>4 DEF Found, dir

(* A walk that takes each name it should arrives.                           *)
LEMMA WalkArrives ==
  ASSUME NEW W, NEW at \in Seq(W), NEW dirs, dirs[0] = <<>>,
         \A n \in 1 .. Len(at) :
           dirs[n - 1] = SubSeq(at, 1, n - 1) => dirs[n] = Append(SubSeq(at, 1, n - 1), at[n])
  PROVE  dirs[Len(at)] = at
<1> DEFINE k == Len(at)
           Upto(n) == SubSeq(at, 1, n)
           Wrong == {n \in 0 .. k : dirs[n] # Upto(n)}
<1>1. /\ Upto(0) = <<>> /\ Upto(k) = at
      /\ \A n \in 1 .. k : Upto(n) = Append(Upto(n - 1), at[n])
  BY UptoIs
<1>2. k \in Nat /\ \A n \in 1 .. k :
        dirs[n - 1] = Upto(n - 1) => dirs[n] = Append(Upto(n - 1), at[n])
  OBVIOUS
<1> HIDE DEF Upto, k
<1>3. Wrong = {}
  <2> SUFFICES ASSUME Wrong # {} PROVE FALSE
    OBVIOUS
  <2>1. PICK n \in Wrong : \A m \in Wrong : n <= m
    <3>1. \A m \in Wrong : m \in Nat
      BY <1>2
    <3> HIDE DEF Wrong
    <3> QED
      BY <3>1, Least
  <2>2. n \in 0 .. k /\ dirs[n] # Upto(n)
    BY <2>1
  <2>3. n # 0
    BY <1>1, <2>2
  <2>4. n - 1 \in 0 .. k /\ n - 1 < n /\ n \in 1 .. k
    BY <1>2, <2>2, <2>3
  <2>5. dirs[n - 1] = Upto(n - 1)
    BY <2>1, <2>4
  <2> QED
    BY <1>1, <1>2, <2>2, <2>4, <2>5
<1>4. k \in 0 .. k
  BY <1>2
<1> QED
  BY <1>1, <1>3, <1>4 DEF k

LEMMA ResolveLeads ==
  ASSUME NEW text, NEW disk, Planted(disk, text), NEW at \in Seq(Seq(Character(text))),
         NEW path \in Seq(Seq(Character(text))), Leads(disk, path, at)
  PROVE  Resolve(disk, path) = at
<1> DEFINE W == Seq(Character(text))
           N == W \cup {<<Mark("?")>>}
<1>1. StoredIn(disk, N)
  BY DiskStores DEF Planted
<1>2. path \in Seq(N)
  <2>1. path \in Seq(W) /\ W \subseteq N
    OBVIOUS
  <2> HIDE DEF W, N
  <2> QED
    BY <2>1
<1> HIDE DEF N
<1>3. PICK dirs : ResolvedBy(dirs, disk, path)
  BY <1>1, <1>2, ResolveRuns
<1>4. Len(at) = Len(path)
  BY DEF Leads
<1>5. ASSUME NEW n \in 1 .. Len(at), dirs[n - 1] = SubSeq(at, 1, n - 1)
      PROVE  dirs[n] = Append(SubSeq(at, 1, n - 1), at[n])
  <2> DEFINE dir == SubSeq(at, 1, n - 1)
             name == path[n]
             s == at[n]
  <2>1. dir \in DOMAIN disk.names /\ Stores(disk, dir, text) /\ name \in W
        /\ s \in Found(disk, dir, name)
    BY <1>4, LeadsThrough
  <2>2. dirs[n] = ResolveStep(disk, dir, name)
    BY <1>3, <1>4, <1>5 DEF ResolvedBy
  <2> HIDE DEF dir, name, s
  <2>3. Found(disk, dir, name) = {s}
    BY <2>1, OneIsFound
  <2>4. (CHOOSE n2 \in Found(disk, dir, name) : TRUE) = s
    BY <2>3
  <2>5. dirs[n] = Append(dir, s)
    BY <2>1, <2>2, <2>3, <2>4 DEF ResolveStep
  <2> QED
    BY <2>5 DEF dir, s
<1>6. dirs[Len(at)] = at
  <2>1. dirs[0] = <<>> /\ at \in Seq(W)
    BY <1>3 DEF ResolvedBy
  <2> HIDE DEF W
  <2> QED
    BY <1>5, <2>1, WalkArrives
<1> QED
  BY <1>3, <1>4, <1>6 DEF ResolvedBy

LEMMA CanonicalLeads ==
  ASSUME NEW text, NEW disk, Planted(disk, text), NEW at \in Seq(Seq(Character(text))),
         NEW path \in Seq(Seq(Character(text))), Leads(disk, path, at),
         DOMAIN disk.names \subseteq disk.readable
  PROVE  Canonical(disk, path) = at /\ at # Nowhere
<1> DEFINE W == Seq(Character(text))
           N == W \cup {<<Mark("?")>>}
<1>1. StoredIn(disk, N)
  BY DiskStores DEF Planted
<1>2. path \in Seq(N)
  <2>1. path \in Seq(W) /\ W \subseteq N
    OBVIOUS
  <2> HIDE DEF W, N
  <2> QED
    BY <2>1
<1>3. \A dir \in Seq(W) : dir # Nowhere
  <2>1. \A s \in W : s # <<Mark("?")>>
    BY DiskStores DEF Planted
  <2> HIDE DEF W
  <2> SUFFICES ASSUME NEW dir \in Seq(W), dir = Nowhere PROVE FALSE
    OBVIOUS
  <2>2. 1 \in 1 .. Len(dir) /\ dir[1] = <<Mark("?")>>
    BY DEF Nowhere
  <2>3. dir[1] \in W
    BY <2>2, ElementOfSeq
  <2> QED
    BY <2>1, <2>2, <2>3
<1> HIDE DEF N
<1>4. PICK dirs : CanonicalBy(dirs, disk, path)
  BY <1>1, <1>2, CanonicalRuns
<1>5. Len(at) = Len(path)
  BY DEF Leads
<1>6. \A n \in 0 .. Len(at) : SubSeq(at, 1, n) \in Seq(W)
  <2> HIDE DEF W
  <2>1. at \in Seq(W)
    BY DEF W
  <2> QED
    BY <2>1, UptoIs
<1>7. ASSUME NEW n \in 1 .. Len(at), dirs[n - 1] = SubSeq(at, 1, n - 1)
      PROVE  dirs[n] = Append(SubSeq(at, 1, n - 1), at[n])
  <2> DEFINE dir == SubSeq(at, 1, n - 1)
             name == path[n]
             s == at[n]
  <2>1. dir \in DOMAIN disk.names /\ Stores(disk, dir, text) /\ name \in W
        /\ s \in Found(disk, dir, name)
    BY <1>5, LeadsThrough
  <2>2. dirs[n] = CanonicalStep(disk, dir, name)
    BY <1>4, <1>5, <1>7 DEF CanonicalBy
  <2>3. dir # Nowhere
    <3>1. n - 1 \in 0 .. Len(at)
      OBVIOUS
    <3> QED
      BY <1>3, <1>6, <3>1
  <2> HIDE DEF dir, name, s
  <2>4. dirs[n] = Append(dir, s)
    BY <2>1, <2>2, <2>3, OnDiskIs DEF CanonicalStep
  <2> QED
    BY <2>4 DEF dir, s
<1>8. dirs[Len(at)] = at
  <2>1. dirs[0] = <<>> /\ at \in Seq(W)
    BY <1>4 DEF CanonicalBy
  <2> HIDE DEF W
  <2> QED
    BY <1>7, <2>1, WalkArrives
<1> QED
  BY <1>3, <1>4, <1>5, <1>8 DEF CanonicalBy

-----------------------------------------------------------------------------
LEMMA GrowsOn ==
  ASSUME NEW disk, NEW made, NEW next, Grows(disk, made), Grows(made, next)
  PROVE  Grows(disk, next)
BY DEF Grows

LEMMA LeadsOn ==
  ASSUME NEW disk, NEW next, Grows(disk, next), NEW path, NEW at, Leads(disk, path, at)
  PROVE  Leads(next, path, at)
<1>1. next.folds = disk.folds /\ at \in DOMAIN next.names
  BY DEF Grows, Leads
<1> QED
  BY <1>1, SameFolds DEF Leads

(* MkdirAll, so far.                                                        *)
Reaches(made, disk, path, n, text) ==
  /\ made \in MadeOf(text) /\ Grows(disk, made.disk) /\ Len(made.at) = n
  /\ \A i \in 1 .. n : SameName(disk, made.at[i], path[i])

LEMMA ReachesOn ==
  ASSUME NEW text, NEW disk, NEW path, NEW n \in Nat, n # 0, NEW made, NEW next,
         Reaches(made, disk, path, n - 1, text), Steps(made, next, path[n], text)
  PROVE  Reaches(next, disk, path, n, text)
<1> DEFINE W == Seq(Character(text))
           at == made.at
<1>1. at \in Seq(W) /\ Len(at) = n - 1 /\ Grows(disk, made.disk)
      /\ \A i \in 1 .. n - 1 : SameName(disk, at[i], path[i])
  BY DEF Reaches, MadeOf
<1>2. PICK m \in W : next.at = Append(at, m) /\ SameName(made.disk, m, path[n])
  BY DEF Steps
<1>3. next \in MadeOf(text) /\ Grows(made.disk, next.disk)
  BY DEF Steps
<1>4. Grows(disk, next.disk)
  BY <1>1, <1>3, GrowsOn
<1>5. SameName(disk, m, path[n])
  BY <1>1, <1>2, SameFolds DEF Grows
<1> HIDE DEF W, at
<1>6. Len(next.at) = n /\ next.at[n] = m /\ \A i \in 1 .. n - 1 : next.at[i] = at[i]
  BY <1>1, <1>2, AppendProperties
<1>7. \A i \in 1 .. n : SameName(disk, next.at[i], path[i])
  <2> SUFFICES ASSUME NEW i \in 1 .. n PROVE SameName(disk, next.at[i], path[i])
    OBVIOUS
  <2>1. CASE i = n
    BY <1>5, <1>6, <2>1
  <2>2. CASE i # n
    <3>1. i \in 1 .. n - 1
      BY <2>2
    <3> QED
      BY <1>1, <1>6, <3>1
  <2> QED
    BY <2>1, <2>2
<1> QED
  BY <1>3, <1>4, <1>6, <1>7 DEF Reaches

LEMMA MkdirLeads ==
  ASSUME NEW text, NEW disk \in DisksOf(text), Planted(disk, text),
         NEW path \in Seq(Seq(Character(text)) \ {Git})
  PROVE  Reaches(MkdirAll(disk, path), disk, path, Len(path), text)
<1> DEFINE N == Seq(Character(text)) \ {Git}
           k == Len(path)
           base == [disk |-> disk, at |-> <<>>]
<1>1. PICK mades : MadeBy(mades, disk, path)
  BY MkdirRuns
<1>2. k \in Nat /\ \A n \in 1 .. k : path[n] \in N
  <2> HIDE DEF N
  <2>1. path \in Seq(N)
    BY DEF N
  <2> QED
    BY <2>1, ElementOfSeq
<1>3. Reaches(mades[0], disk, path, 0, text)
  <2>1. base \in MadeOf(text) /\ mades[0] = base
    BY <1>1, BaseIsMade DEF MadeBy
  <2>2. base.disk = disk /\ Len(base.at) = 0 /\ 1 .. 0 = {}
    OBVIOUS
  <2>3. Grows(disk, disk)
    BY DEF Grows
  <2> HIDE DEF base
  <2> QED
    BY <2>1, <2>2, <2>3 DEF Reaches
<1> DEFINE Wrong == {n \in 0 .. k : ~ Reaches(mades[n], disk, path, n, text)}
<1>4. ASSUME NEW n \in 1 .. k, Reaches(mades[n - 1], disk, path, n - 1, text)
      PROVE  Reaches(mades[n], disk, path, n, text)
  <2>1. mades[n - 1] \in MadeOf(text)
    BY <1>4 DEF Reaches
  <2>2. mades[n] = MkdirStep(mades[n - 1], path[n])
    BY <1>1 DEF MadeBy
  <2>3. path[n] \in Seq(Character(text)) /\ path[n] # Git
    BY <1>2
  <2>4. Steps(mades[n - 1], mades[n], path[n], text)
    BY <2>1, <2>2, <2>3, MkdirStepIs
  <2>5. n \in Nat /\ n # 0
    OBVIOUS
  <2> QED
    BY <1>4, <2>4, <2>5, ReachesOn
<1> HIDE DEF k
<1>5. Wrong = {}
  <2> SUFFICES ASSUME Wrong # {} PROVE FALSE
    OBVIOUS
  <2>1. PICK n \in Wrong : \A m \in Wrong : n <= m
    <3>1. \A m \in Wrong : m \in Nat
      BY <1>2
    <3> HIDE DEF Wrong
    <3> QED
      BY <3>1, Least
  <2>2. n \in 0 .. k /\ ~ Reaches(mades[n], disk, path, n, text)
    BY <2>1
  <2>3. n # 0
    BY <1>3, <2>2
  <2>4. n - 1 \in 0 .. k /\ n - 1 < n /\ n \in 1 .. k
    BY <1>2, <2>2, <2>3
  <2>5. Reaches(mades[n - 1], disk, path, n - 1, text)
    BY <2>1, <2>4
  <2> QED
    BY <1>4, <2>2, <2>4, <2>5
<1>6. k \in 0 .. k
  BY <1>2
<1>7. Reaches(mades[k], disk, path, k, text)
  BY <1>5, <1>6
<1> QED
  BY <1>1, <1>7 DEF MadeBy, k

-----------------------------------------------------------------------------
(* git init: a directory becomes a repository.                              *)
Cloned(disk, at) ==
  [folds |-> disk.folds, names |-> [disk.names EXCEPT ![at] = @ \cup {Git}]]

LEMMA ClonedIs ==
  ASSUME NEW text, ".git" \in text, NEW disk \in DisksOf(text), Planted(disk, text),
         NEW at \in DOMAIN disk.names
  PROVE  /\ Cloned(disk, at) \in DisksOf(text) /\ Planted(Cloned(disk, at), text)
         /\ Grows(disk, Cloned(disk, at)) /\ Git \in Cloned(disk, at).names[at]
<1> DEFINE W == Seq(Character(text))
           next == Cloned(disk, at)
           names == [disk.names EXCEPT ![at] = @ \cup {Git}]
<1>1. Git \in W
  <2>1. Mark(".git") \in Character(text)
    BY DEF Mark, Char, Character, Kinds
  <2> QED
    BY <2>1 DEF Git
<1>2. disk.folds \in SUBSET Folds /\ disk.names \in Namings(W)
  BY DEF DisksOf
<1>3. DOMAIN disk.names \subseteq Seq(W) /\ disk.names \in [DOMAIN disk.names -> SUBSET W]
  BY <1>2, NamingIs
<1>4. next.folds = disk.folds /\ next.names = names
      /\ next = [folds |-> disk.folds, names |-> names]
  BY DEF Cloned
<1> HIDE DEF next, W
<1>5. /\ DOMAIN names = DOMAIN disk.names /\ names[at] = disk.names[at] \cup {Git}
      /\ \A d \in DOMAIN disk.names : d # at => names[d] = disk.names[d]
  BY <1>3
<1>6. names \in [DOMAIN disk.names -> SUBSET W]
  BY <1>1, <1>3
<1> HIDE DEF names
<1>7. names \in Namings(W)
  BY <1>3, <1>5, <1>6, NamingIs
<1>8. next \in DisksOf(text)
  BY <1>2, <1>4, <1>7 DEF DisksOf, W
<1>9. ASSUME NEW d \in DOMAIN names PROVE Stores(next, d, text)
  <2>1. next.folds \in SUBSET Folds /\ next.names[d] \subseteq W
    BY <1>2, <1>4, <1>5, <1>6
  <2>2. \A a, b \in disk.names[d] : a # b => ~ SameName(disk, a, b)
    BY <1>5 DEF Planted, DiskOf, Stores, Unlike
  <2>3. ASSUME NEW a \in disk.names[d], a # Git
        PROVE  ~ SameName(disk, Git, a) /\ ~ SameName(disk, a, Git)
    <3>1. a \in W
      BY <1>3, <1>5
    <3>2. ~ SameName(disk, Git, a)
      BY <1>2, <2>3, <3>1, FoundIsNoGit DEF W
    <3> QED
      BY <1>1, <1>2, <3>1, <3>2, SameNameIs DEF W
  <2>4. ASSUME NEW a \in names[d], NEW b \in names[d], a # b PROVE ~ SameName(disk, a, b)
    <3>1. (a \in disk.names[d] \/ a = Git) /\ (b \in disk.names[d] \/ b = Git)
      BY <1>5
    <3> QED
      BY <2>2, <2>3, <2>4, <3>1
  <2>5. Unlike(next, next.names[d])
    BY <1>4, <2>4, SameFolds DEF Unlike
  <2> QED
    BY <2>1, <2>5 DEF Stores, W
<1>10. ASSUME NEW d \in DOMAIN names, NEW n \in names[d], n # Git PROVE Append(d, n) \in DOMAIN names
  <2>1. d \in DOMAIN disk.names /\ n \in disk.names[d]
    BY <1>5, <1>10
  <2> QED
    BY <1>5, <1>10, <2>1 DEF Planted
<1>11. ASSUME NEW d \in Seq(W), NEW n \in W, Append(d, n) \in DOMAIN names
       PROVE  d \in DOMAIN names /\ n \in names[d]
  <2>1. d \in DOMAIN disk.names /\ n \in disk.names[d]
    BY <1>5, <1>11 DEF Planted, W
  <2> QED
    BY <1>5, <2>1
<1>12. <<>> \in DOMAIN names /\ "?" \notin text
  BY <1>5 DEF Planted, DiskOf
<1>13. Planted(next, text)
  <2>1. DiskOf(next, text)
    BY <1>4, <1>9, <1>12 DEF DiskOf
  <2> QED
    BY <1>4, <1>10, <1>11, <1>12, <2>1 DEF Planted, W
<1>14. Grows(disk, next)
  BY <1>4, <1>5 DEF Grows
<1> QED
  BY <1>4, <1>5, <1>8, <1>13, <1>14 DEF next

LEMMA SeqIsNotNowhere ==
  ASSUME NEW text, NEW disk, Planted(disk, text), NEW at \in Seq(Seq(Character(text)))
  PROVE  at # Nowhere
<1> DEFINE W == Seq(Character(text))
<1>1. \A s \in W : s # <<Mark("?")>>
  BY DiskStores DEF Planted
<1> HIDE DEF W
<1> SUFFICES ASSUME at = Nowhere PROVE FALSE
  OBVIOUS
<1>2. at \in Seq(W) /\ 1 \in 1 .. Len(at) /\ at[1] = <<Mark("?")>>
  BY DEF Nowhere, W
<1>3. at[1] \in W
  BY <1>2, ElementOfSeq
<1> QED
  BY <1>1, <1>2, <1>3

(* Where a clone is, and that nothing was there.                            *)
Settled(disk, next, target, at, text) ==
  /\ next \in DisksOf(text) /\ Planted(next, text) /\ Grows(disk, next)
  /\ at \in Seq(Seq(Character(text))) /\ Leads(next, target, at) /\ Git \in next.names[at]
  /\ \A t \in DOMAIN disk.names : disk.names[t] # {} => t # at

(* Clone, RequireEmpty, MkdirAll: on any disk as clones leave it, and for   *)
(* any base and remote with no name that is ".git", either nothing is       *)
(* changed, or the clone is where the path leads that was asked for, in a   *)
(* directory that was not there or had nothing in it, and all that was on   *)
(* the disk is still there.                                                 *)
THEOREM ClonesStayApart ==
  ASSUME NEW text, ".git" \in text, NEW disk \in DisksOf(text), Planted(disk, text),
         NEW base, NEW url, Path(url) # Refused,
         base \o Path(url) \in Seq(Seq(Character(text)) \ {Git})
  PROVE  \/ Clone(disk, base, url) = [disk |-> disk, at |-> Nowhere]
         \/ Settled(disk, Clone(disk, base, url).disk, base \o Path(url),
                    Clone(disk, base, url).at, text)
<1> DEFINE W == Seq(Character(text))
           target == base \o Path(url)
           made == MkdirAll(disk, target)
           at == made.at
           full == made.disk
           result == Clone(disk, base, url)
<1>1. TargetDir(base, url) = target
  BY DEF TargetDir
<1>2. Reaches(made, disk, target, Len(target), text)
  BY MkdirLeads
<1>3. /\ result = [disk |-> disk, at |-> Nowhere]
      \/ /\ RequireEmpty(disk, target)
         /\ result = [made EXCEPT !.disk.names[made.at] = @ \cup {Git}]
  BY <1>1 DEF Clone, Git
<1>4. target \in Seq(W)
  <2> DEFINE N == W \ {Git}
  <2>1. target \in Seq(N) /\ N \subseteq W
    OBVIOUS
  <2> HIDE DEF N, W, target
  <2> QED
    BY <2>1
<1> HIDE DEF target, made, result
<1>5. /\ made = [disk |-> full, at |-> at] /\ full \in DisksOf(text) /\ at \in Seq(W)
      /\ Planted(full, text) /\ at \in DOMAIN full.names
      /\ Grows(disk, full) /\ Len(at) = Len(target)
      /\ \A i \in 1 .. Len(target) : SameName(disk, at[i], target[i])
  BY <1>2 DEF Reaches, MadeOf
<1>6. full = [folds |-> full.folds, names |-> full.names]
  BY <1>5 DEF DisksOf
<1> HIDE DEF at, full
<1>7. [made EXCEPT !.disk.names[made.at] = @ \cup {Git}] = [disk |-> Cloned(full, at), at |-> at]
  <2> DEFINE f == full.folds
             g == full.names
             more == [g EXCEPT ![at] = @ \cup {Git}]
  <2> HIDE DEF f, g
  <2>1. full = [folds |-> f, names |-> g]
    BY <1>6 DEF f, g
  <2>2. made = [disk |-> [folds |-> f, names |-> g], at |-> at]
    BY <1>5, <2>1
  <2>3. made.at = at /\ made.disk = full /\ full.names = g /\ full.folds = f
    BY <2>1, <2>2
  <2>4. [made EXCEPT !.disk.names[made.at] = @ \cup {Git}]
          = [made EXCEPT !.disk = [made.disk EXCEPT
                !.names = [made.disk.names EXCEPT ![made.at] = made.disk.names[made.at] \cup {Git}]]]
    OBVIOUS
  <2>5. [made.disk.names EXCEPT ![made.at] = made.disk.names[made.at] \cup {Git}] = more
    BY <2>3
  <2> HIDE DEF more
  <2>6. [made EXCEPT !.disk.names[made.at] = @ \cup {Git}]
          = [made EXCEPT !.disk = [full EXCEPT !.names = more]]
    BY <2>3, <2>4, <2>5
  <2>7. [full EXCEPT !.names = more] = [folds |-> f, names |-> more]
    BY <2>1
  <2>8. \A d : [made EXCEPT !.disk = d] = [disk |-> d, at |-> at]
    BY <1>5
  <2> QED
    BY <2>6, <2>7, <2>8 DEF Cloned, f, g, more
<1>8. CASE /\ RequireEmpty(disk, target)
           /\ result = [made EXCEPT !.disk.names[made.at] = @ \cup {Git}]
  <2> DEFINE next == Cloned(full, at)
  <2>1. result = [disk |-> next, at |-> at]
    BY <1>7, <1>8
  <2>2. /\ next \in DisksOf(text) /\ Planted(next, text) /\ Grows(full, next)
        /\ Git \in next.names[at]
    BY <1>5, ClonedIs
  <2> HIDE DEF next
  <2>3. Grows(disk, next)
    BY <1>5, <2>2, GrowsOn
  <2>4. Leads(next, target, at)
    <3>1. next.folds = disk.folds /\ at \in DOMAIN next.names
      BY <1>5, <2>2, <2>3 DEF Grows
    <3> QED
      BY <1>5, <3>1, SameFolds DEF Leads
  <2>5. ASSUME NEW t \in DOMAIN disk.names, disk.names[t] # {}, t = at PROVE FALSE
    <3>1. Leads(disk, target, at)
      BY <1>5, <2>5 DEF Leads
    <3>2. Resolve(disk, target) = at
      BY <1>4, <1>5, <3>1, ResolveLeads DEF W
    <3>3. at # Nowhere
      BY <1>5, SeqIsNotNowhere DEF W
    <3> QED
      BY <1>8, <2>5, <3>2, <3>3 DEF RequireEmpty
  <2>6. Settled(disk, next, target, at, text)
    BY <1>5, <2>2, <2>3, <2>4, <2>5 DEF Settled, W
  <2> QED
    BY <2>1, <2>6 DEF result, target
<1> QED
  BY <1>3, <1>8 DEF result

-----------------------------------------------------------------------------
LEMMA ReadableIs ==
  ASSUME NEW text, NEW disk, Planted(disk, text)
  PROVE  /\ Planted(Readable(disk), text) /\ Readable(disk).folds = disk.folds
         /\ Readable(disk).names = disk.names
         /\ DOMAIN Readable(disk).names \subseteq Readable(disk).readable
<1> DEFINE next == Readable(disk)
<1>1. next.folds = disk.folds /\ next.names = disk.names /\ next.readable = DOMAIN disk.names
  BY DEF Readable
<1> HIDE DEF next
<1>2. ASSUME NEW d \in DOMAIN disk.names PROVE Stores(next, d, text)
  <2>1. Stores(disk, d, text)
    BY DEF Planted, DiskOf
  <2> QED
    BY <1>1, <2>1, SameFolds DEF Stores, Unlike
<1>3. Planted(next, text)
  BY <1>1, <1>2 DEF Planted, DiskOf
<1> QED
  BY <1>1, <1>3 DEF next

(* PathUnder: the key of what a clone made, and the names it is made of.    *)
NamedBelow(key, disk, at, tail) ==
  /\ Len(at) = Len(tail) + 1 /\ at[1] = Home
  /\ \A j \in 1 .. Len(tail) : SameName(disk, at[j + 1], tail[j])
  /\ key = IF \A j \in 1 .. Len(tail) : ~ IsReservedSegment(at[j + 1])
           THEN SubSeq(at, 2, Len(at)) ELSE Refused
  /\ Len(SubSeq(at, 2, Len(at))) = Len(tail)
  /\ \A j \in 1 .. Len(tail) : SubSeq(at, 2, Len(at))[j] = at[j + 1]

LEMMA KeyOfClone ==
  ASSUME NEW text, NEW disk, Planted(disk, text), Home \in disk.names[<<>>], Home # Git,
         NEW typed \in Seq(Character(text)), SameName(disk, Home, typed),
         NEW tail \in Seq(Seq(Character(text))), tail # <<>>,
         NEW at \in Seq(Seq(Character(text))), Leads(disk, <<typed>> \o tail, at),
         \A j \in 1 .. Len(tail), s \in Seq(Character(text)) :
            SameName(disk, s, tail[j]) => IsSafeSegment(s)
  PROVE  NamedBelow(PathUnder(Readable(disk), <<typed>>, at), disk, at, tail)
<1> DEFINE W == Seq(Character(text))
           next == Readable(disk)
           target == <<typed>> \o tail
           base == <<typed>>
           home == <<Home>>
           k == Len(tail)
           key == SubSeq(at, 2, Len(at))
<1>1. /\ Planted(next, text) /\ next.folds = disk.folds /\ next.names = disk.names
      /\ DOMAIN next.names \subseteq next.readable
  BY ReadableIs
<1>2. Stores(disk, <<>>, text) /\ <<>> \in DOMAIN disk.names /\ disk.names[<<>>] \subseteq W
  BY DEF Planted, DiskOf, Stores
<1>3. Home \in W /\ home \in DOMAIN disk.names
  <2>1. Append(<<>>, Home) = home
    OBVIOUS
  <2>2. Append(<<>>, Home) \in DOMAIN disk.names
    BY <1>2 DEF Planted
  <2> QED
    BY <1>2, <2>1, <2>2
<1>4. /\ target \in Seq(W) /\ k \in Nat /\ k # 0 /\ Len(target) = k + 1 /\ target[1] = typed
      /\ \A j \in 1 .. k : target[j + 1] = tail[j]
  <2>1. base \in Seq(W) /\ Len(base) = 1 /\ base[1] = typed /\ 1 \in 1 .. Len(base)
    OBVIOUS
  <2>2. tail \in Seq(W) /\ k \in Nat /\ k # 0
    OBVIOUS
  <2> HIDE DEF base, W
  <2>3. base \o tail \in Seq(W) /\ Len(base \o tail) = Len(base) + Len(tail)
        /\ \A j \in 1 .. Len(base) : (base \o tail)[j] = base[j]
    BY <2>1, <2>2, ConcatIs
  <2>5. \A j \in 1 .. Len(tail) : (base \o tail)[Len(base) + j] = tail[j]
    <3>1. base \in Seq(W) /\ tail \in Seq(W)
      BY <2>1, <2>2
    <3> QED
      BY <3>1, ConcatIs
  <2>4. \A j \in 1 .. k : 1 + j = j + 1
    BY <2>2
  <2> QED
    BY <2>1, <2>2, <2>3, <2>4, <2>5 DEF base
<1>5. home \in Seq(W) /\ Len(home) = 1 /\ home[1] = Home /\ base \in Seq(W) /\ Len(base) = 1
      /\ base[1] = typed /\ Len(at) \in Nat
  BY <1>3
<1>6. \A j \in 1 .. Len(at) : at[j] \in W
  <2>1. at \in Seq(W)
    OBVIOUS
  <2> HIDE DEF W
  <2> QED
    BY <2>1, ElementOfSeq
<1> HIDE DEF W, next, home, base, key, k
<1>7. /\ at \in DOMAIN disk.names /\ Len(at) = k + 1 /\ SameName(disk, at[1], typed)
      /\ \A j \in 1 .. k : SameName(disk, at[j + 1], tail[j])
  <2>1. /\ at \in DOMAIN disk.names /\ Len(at) = Len(target)
        /\ \A j \in 1 .. Len(target) : SameName(disk, at[j], target[j])
    BY DEF Leads
  <2> HIDE DEF target
  <2>2. 1 \in 1 .. Len(target) /\ \A j \in 1 .. k : j + 1 \in 1 .. Len(target)
    BY <1>4
  <2> QED
    BY <1>4, <2>1, <2>2
<1>8. at[1] = Home
  <2>1. SubSeq(at, 1, 0) = <<>> /\ 1 \in 1 .. Len(at)
    BY <1>4, <1>7, SubSeqEmpty
  <2>2. at[1] \in disk.names[<<>>] /\ Home \in disk.names[<<>>]
    <3>1. at[1] \in disk.names[SubSeq(at, 1, 1 - 1)]
      BY <1>7, <2>1, AboveIsThere
    <3>2. SubSeq(at, 1, 1 - 1) = <<>>
      BY <2>1
    <3> QED
      BY <3>1, <3>2
  <2>3. at[1] \in Found(disk, <<>>, typed) /\ Home \in Found(disk, <<>>, typed)
    BY <1>7, <2>2 DEF Found
  <2>4. Found(disk, <<>>, typed) = {Home}
    BY <1>2, <2>3, OneIsFound
  <2> QED
    BY <2>3, <2>4
<1>9. Canonical(next, base) = home /\ home # Nowhere
  <2>1. Leads(next, base, home)
    <3>1. SameName(next, Home, typed)
      BY <1>1, SameFolds
    <3> QED
      BY <1>1, <1>3, <1>5, <3>1 DEF Leads
  <2> QED
    BY <1>1, <1>5, <2>1, CanonicalLeads DEF W
<1>10. Canonical(next, at) = at /\ at # Nowhere
  <2>1. Leads(next, at, at)
    <3>1. \A n \in 1 .. Len(at) : SameName(next, at[n], at[n])
      BY DEF SameName
    <3> QED
      BY <1>1, <1>7, <3>1 DEF Leads
  <2> QED
    BY <1>1, <2>1, CanonicalLeads
<1>11. IsStrictPrefix(home, at)
  <2>1. Len(home) < Len(at) /\ \A j \in 1 .. Len(home) : home[j] = at[j]
    BY <1>4, <1>5, <1>7, <1>8
  <2>2. at \in Seq(W)
    BY DEF W
  <2> QED
    BY <1>5, <2>1, <2>2, PrefixIs
<1>12. Len(key) = k /\ DOMAIN key = 1 .. k /\ \A j \in 1 .. k : key[j] = at[j + 1]
  <2>1. \A i \in 2 .. Len(at) : at[i] \in W
    BY <1>5, <1>6
  <2>2. /\ key \in Seq(W) /\ Len(key) = (IF 2 <= Len(at) THEN Len(at) - 2 + 1 ELSE 0)
        /\ \A i \in 1 .. Len(at) - 2 + 1 : key[i] = at[2 + i - 1]
    BY <1>5, <2>1, SubSeqProperties DEF key
  <2>3. 2 <= Len(at) /\ Len(at) - 2 + 1 = k /\ \A j \in 1 .. k : 2 + j - 1 = j + 1
    BY <1>4, <1>7
  <2> QED
    BY <2>2, <2>3
<1>13. \A j \in 1 .. k : IsSafeSegment(key[j])
  <2> SUFFICES ASSUME NEW j \in 1 .. k PROVE IsSafeSegment(key[j])
    OBVIOUS
  <2>1. j + 1 \in 1 .. Len(at)
    BY <1>4, <1>7
  <2>2. at[j + 1] \in W /\ SameName(disk, at[j + 1], tail[j])
    BY <1>6, <1>7, <2>1
  <2>3. IsSafeSegment(at[j + 1])
    BY <2>2 DEF W, k
  <2> QED
    BY <1>12, <2>3
<1>14. PathUnder(next, base, at) =
         IF \A i \in DOMAIN key : IsSafeSegment(key[i]) /\ ~ IsReservedSegment(key[i])
         THEN key ELSE Refused
  <2>1. Len(home) + 1 = 2
    BY <1>5
  <2> QED
    BY <1>9, <1>10, <1>11, <2>1 DEF PathUnder, key
<1>15. PathUnder(next, base, at) =
         IF \A j \in 1 .. k : ~ IsReservedSegment(at[j + 1]) THEN key ELSE Refused
  BY <1>12, <1>13, <1>14
<1> QED
  BY <1>7, <1>8, <1>12, <1>15 DEF NamedBelow, next, base, k, key

-----------------------------------------------------------------------------
(* The remotes and the disks of the run.                                    *)
Plots == {"x", "repo", ".git"}

Hosts == {<<x>>, <<X>>, <<Char("repo", "small")>>}

PlotsName(s) == s \in Seq(Character(Plots))

LEMMA HostsAre ==
  /\ \A h \in Hosts : PlotsName(h) /\ Len(h) = 1 /\ h[1].kind \in {"small", "big"}
  /\ PlotsName(Home) /\ PlotsName(<<X, x>>) /\ Home # Git /\ <<X, x>> # Git
  /\ ~ IsReservedSegment(Home)
<1>1. /\ x \in Character(Plots) /\ X \in Character(Plots)
      /\ Char("repo", "small") \in Character(Plots)
  BY DEF x, X, Char, Character, Kinds, Plots
<1>2. x.kind = "small" /\ X.kind = "big" /\ Char("repo", "small").kind = "small"
  BY DEF x, X, Char
<1>3. \A c, d \in Character(Plots) : PlotsName(<<c>>) /\ PlotsName(<<c, d>>)
  <2> DEFINE C == Character(Plots)
  <2> HIDE DEF C
  <2>1. \A c, d \in C : <<c>> \in Seq(C) /\ <<c, d>> \in Seq(C)
    OBVIOUS
  <2> QED
    BY <2>1 DEF PlotsName, C
<1>4. \A c, d, e : <<c, d>> # <<e>> /\ Len(<<c>>) = 1 /\ <<c>>[1] = c
  OBVIOUS
<1> QED
  BY <1>1, <1>2, <1>3, <1>4 DEF Hosts, Home, Git, IsReservedSegment

(* What a volume takes for the name of a host is one letter too.            *)
LEMMA HostsAreSafe ==
  ASSUME NEW disk, disk.folds \in SUBSET Folds, NEW h \in Hosts, NEW s, PlotsName(s),
         SameName(disk, s, h)
  PROVE  IsSafeSegment(s) /\ s # Git
<1>1. Len(h) = 1 /\ h[1].kind \in {"small", "big"}
  BY HostsAre
<1>2. Len(s) = 1 /\ DOMAIN s = {1}
  <2>1. Len(s) = 1
    BY <1>1 DEF SameName
  <2>2. DOMAIN s = 1 .. Len(s)
    BY DEF PlotsName
  <2> QED
    BY <2>1, <2>2
<1>3. s[1].kind = h[1].kind \/ {s[1].kind, h[1].kind} \in disk.folds
  BY <1>2 DEF SameName
<1>4. s[1].kind \in {"small", "big"}
  <2>1. \A pair \in disk.folds : pair = {"small", "big"} \/ pair = {"composed", "decomposed"}
    BY DEF Folds
  <2> QED
    BY <1>1, <1>3, <2>1
<1>5. Mark("..").kind = "mark" /\ Mark(".git").kind = "mark"
  BY DEF Mark, Char
<1>6. s # <<>> /\ s # <<Mark("..")>> /\ s # Git
  <2>1. <<Mark("..")>>[1] = Mark("..") /\ Git[1] = Mark(".git") /\ DOMAIN <<>> = {}
    BY DEF Git
  <2> QED
    BY <1>2, <1>4, <1>5, <2>1
<1> QED
  BY <1>2, <1>4, <1>6 DEF IsSafeSegment

(* The key of a remote: a host, an owner or two, and a repository.          *)
Remote(tail) ==
  /\ tail \in Seq(Hosts) /\ Len(tail) >= 3 /\ Path(Spelled(tail, SCP)) = tail

LEMMA RemoteIs ==
  ASSUME NEW host \in Hosted
  PROVE  Remote(<< <<x>> >> \o host)
<1> DEFINE tail == << <<x>> >> \o host
           W == Seq(Character(Plots))
           first == << <<x>> >>
<1>1. PICK n \in 2 .. 3 : host \in [1 .. n -> Hosts]
  BY DEF Hosted, Hosts
<1>2. host \in Seq(Hosts) /\ Len(host) = n
  BY <1>1
<1>3. first \in Seq(Hosts) /\ Len(first) = 1
  BY DEF Hosts
<1> HIDE DEF first
<1>4. tail \in Seq(Hosts) /\ Len(tail) = 1 + n
  BY <1>2, <1>3, ConcatIs DEF first
<1> HIDE DEF tail
<1>5. Hosts \subseteq W
  BY HostsAre DEF PlotsName
<1>6. \A i \in 1 .. Len(tail) : tail[i] \in Hosts
  BY <1>4, ElementOfSeq
<1>7. tail \in Seq(W) /\ DOMAIN tail = 1 .. Len(tail)
  <2> HIDE DEF W
  <2> QED
    BY <1>4, <1>5
<1>8. \A h \in Hosts : IsSafeSegment(h)
  <2>1. \A h \in Hosts : SameName([folds |-> {}], h, h)
    BY DEF SameName
  <2>2. [folds |-> {}].folds \in SUBSET Folds
    OBVIOUS
  <2> QED
    BY <2>1, <2>2, HostsAre, HostsAreSafe
<1>9. EndOf(tail) # Mark(".git")
  <2>1. Len(tail) \in 1 .. Len(tail)
    BY <1>4
  <2>2. tail[Len(tail)] \in Hosts
    BY <1>6, <2>1
  <2>3. EndOf(tail).kind \in {"small", "big"}
    BY <2>2, HostsAre DEF EndOf
  <2> QED
    BY <2>3 DEF Mark, Char
<1>10. SCP \in Written
  BY DEF SCP, Written, Spellings
<1>11. Len(tail) >= 3
  BY <1>4
<1>12. Path(Spelled(tail, SCP)) = tail
  BY <1>6, <1>7, <1>8, <1>9, <1>10, <1>11, SpellingsAreOne DEF W
<1> QED
  BY <1>4, <1>11, <1>12 DEF Remote, tail

LEMMA EmptyBaseIs ==
  ASSUME NEW folds \in SUBSET Folds
  PROVE  /\ EmptyBase(folds) \in DisksOf(Plots) /\ Planted(EmptyBase(folds), Plots)
         /\ EmptyBase(folds).folds = folds /\ Home \in EmptyBase(folds).names[<<>>]
<1> DEFINE W == Seq(Character(Plots))
           disk == EmptyBase(folds)
           empty == <<>>
           home == <<Home>>
           names == [d \in {empty, home} |-> IF d = empty THEN {Home} ELSE {}]
<1>1. disk = [folds |-> folds, names |-> names]
  BY DEF EmptyBase, Home
<1>2. empty # home /\ empty \in Seq(W) /\ home \in Seq(W) /\ Home \in W
      /\ Append(empty, Home) = home
  <2>1. Home \in W
    BY HostsAre DEF PlotsName
  <2> HIDE DEF W
  <2> QED
    BY <2>1
<1>3. disk.folds = folds /\ disk.names = names
  BY <1>1
<1> HIDE DEF W, disk, empty, home
<1>4. /\ DOMAIN names = {empty, home} /\ names[empty] = {Home} /\ names[home] = {}
      /\ names \in [{empty, home} -> SUBSET W]
  BY <1>2
<1> HIDE DEF names
<1>5. names \in Namings(W)
  BY <1>2, <1>4, NamingIs
<1>6. disk \in DisksOf(Plots)
  BY <1>1, <1>5 DEF DisksOf, W
<1>7. ASSUME NEW d \in DOMAIN names PROVE Stores(disk, d, Plots)
  <2>1. names[d] \subseteq {Home}
    BY <1>4
  <2> QED
    BY <1>2, <1>3, <2>1 DEF Stores, Unlike, W
<1>8. ASSUME NEW d \in DOMAIN names, NEW n \in names[d], n # Git PROVE Append(d, n) \in DOMAIN names
  <2>1. d = empty /\ n = Home
    BY <1>4
  <2> QED
    BY <1>2, <1>4, <2>1
<1>9. ASSUME NEW d \in Seq(W), NEW n \in W, Append(d, n) \in DOMAIN names
      PROVE  d \in DOMAIN names /\ n \in names[d]
  <2>1. Append(d, n) # empty
    <3>1. Len(Append(d, n)) = Len(d) + 1 /\ Len(d) \in Nat
      BY AppendProperties
    <3> QED
      BY <3>1 DEF empty
  <2>2. Append(d, n) = Append(empty, Home)
    BY <1>2, <1>4, <1>9, <2>1
  <2>3. d = empty /\ n = Home
    BY <1>2, <2>2, AppendsDiffer
  <2> QED
    BY <1>4, <2>3
<1>10. Planted(disk, Plots)
  <2>1. "?" \notin Plots /\ empty \in DOMAIN names
    BY <1>4 DEF Plots
  <2> QED
    BY <1>3, <1>7, <1>8, <1>9, <2>1 DEF Planted, DiskOf, W, empty
<1> QED
  BY <1>3, <1>4, <1>6, <1>10 DEF disk, empty

-----------------------------------------------------------------------------
(* A clone, made or refused.                                                *)
Lands(disk, clone, target, text) ==
  /\ clone.disk \in DisksOf(text) /\ Planted(clone.disk, text) /\ Grows(disk, clone.disk)
  /\ clone.at # Nowhere =>
       /\ clone.at \in Seq(Seq(Character(text))) /\ Leads(clone.disk, target, clone.at)
       /\ Git \in clone.disk.names[clone.at]
       /\ \A t \in DOMAIN disk.names : disk.names[t] # {} => t # clone.at

BaseName(typed, folds) ==
  PlotsName(typed) /\ typed # Git /\ SameName([folds |-> folds], Home, typed)

LEMMA CloneLands ==
  ASSUME NEW disk \in DisksOf(Plots), Planted(disk, Plots), NEW folds, NEW typed,
         BaseName(typed, folds), NEW tail, Remote(tail)
  PROVE  Lands(disk, Clone(disk, <<typed>>, Spelled(tail, SCP)), <<typed>> \o tail, Plots)
<1> DEFINE W == Seq(Character(Plots))
           N == W \ {Git}
           base == <<typed>>
           clone == Clone(disk, base, Spelled(tail, SCP))
<1>1. tail \in Seq(N)
  <2>1. \A h \in Hosts : h # Git
    <3>1. Git[1].kind = "mark"
      BY DEF Git, Mark, Char
    <3> QED
      BY <3>1, HostsAre
  <2>2. Hosts \subseteq N
    BY <2>1, HostsAre DEF PlotsName
  <2> HIDE DEF N
  <2> QED
    BY <2>2 DEF Remote
<1>2. base \in Seq(N)
  <2>1. typed \in N
    BY DEF BaseName, PlotsName
  <2> HIDE DEF N
  <2> QED
    BY <2>1
<1>3. base \o tail \in Seq(N)
  <2> HIDE DEF N, base
  <2> QED
    BY <1>1, <1>2, ConcatIs
<1>4. Path(Spelled(tail, SCP)) = tail /\ tail # Refused
  BY DEF Remote, Refused
<1>5. ".git" \in Plots
  BY DEF Plots
<1> HIDE DEF base
<1>6. \/ clone = [disk |-> disk, at |-> Nowhere]
      \/ Settled(disk, clone.disk, base \o tail, clone.at, Plots)
  BY <1>3, <1>4, <1>5, ClonesStayApart
<1> HIDE DEF clone
<1>7. Grows(disk, disk)
  BY DEF Grows
<1> QED
  BY <1>6, <1>7 DEF Settled, Lands, clone, base

(* repoName of a tree that a clone made, whatever git says of its origin.   *)
KeyHolds(key, tail, at, folds) ==
  /\ key[<<"reads", "reads">>] = tail
  /\ key[<<"none", "none">>] = Refused <=> \E j \in DOMAIN at : IsReservedSegment(at[j])
  /\ \A j \in DOMAIN key[<<"none", "none">>] :
       SameName([folds |-> folds], key[<<"none", "none">>][j], tail[j])
  /\ \A first \in Origins, second \in Origins \ {"none"} :
       first # "reads" => key[<<first, second>>] = Refused

LEMMA KeyIsHeld ==
  ASSUME NEW disk, Planted(disk, Plots), Home \in disk.names[<<>>],
         NEW folds \in SUBSET Folds, disk.folds = folds, NEW typed, BaseName(typed, folds),
         NEW tail, Remote(tail),
         NEW at \in Seq(Seq(Character(Plots))), Leads(disk, <<typed>> \o tail, at)
  PROVE  KeyHolds([found \in Origins \X Origins |->
                     RepoName(Readable(disk), <<typed>>, at, Spelled(tail, SCP),
                              found[1], found[2])],
                  tail, at, folds)
<1> DEFINE W == Seq(Character(Plots))
           place == PathUnder(Readable(disk), <<typed>>, at)
           url == Spelled(tail, SCP)
           name(first, second) == RepoName(Readable(disk), <<typed>>, at, url, first, second)
           key == [found \in Origins \X Origins |-> name(found[1], found[2])]
           below == SubSeq(at, 2, Len(at))
<1>1. tail \in Seq(Hosts) /\ Len(tail) >= 3 /\ Path(url) = tail
  BY DEF Remote
<1>2. \A h \in Hosts : h \in W
  BY HostsAre DEF PlotsName
<1>3. tail \in Seq(W) /\ tail # <<>> /\ \A j \in 1 .. Len(tail) : tail[j] \in Hosts
  <2> HIDE DEF W
  <2> QED
    BY <1>1, <1>2
<1>4. NamedBelow(place, disk, at, tail)
  <2>1. \A j \in 1 .. Len(tail), s \in W : SameName(disk, s, tail[j]) => IsSafeSegment(s)
    BY <1>3, HostsAreSafe DEF PlotsName
  <2>2. typed \in W /\ SameName(disk, Home, typed)
    BY SameFolds DEF BaseName, PlotsName
  <2> QED
    BY <1>3, <2>1, <2>2, HostsAre, KeyOfClone
<1>5. name("reads", "reads") = tail /\ name("none", "none") = place
  BY <1>1 DEF RepoName, NoOrigin, HasRemote
<1>6. ASSUME NEW first \in Origins, NEW second \in Origins \ {"none"}, first # "reads"
      PROVE  name(first, second) = Refused
  BY <1>6 DEF RepoName, NoOrigin, HasRemote, Origins
<1>13. \A first, second \in Origins : key[<<first, second>>] = name(first, second)
  <2> HIDE DEF name
  <2> QED
    OBVIOUS
<1>14. "reads" \in Origins /\ "none" \in Origins
  BY DEF Origins
<1> HIDE DEF key, name, place, below
<1>7. /\ key[<<"reads", "reads">>] = tail /\ key[<<"none", "none">>] = place
      /\ \A first \in Origins, second \in Origins \ {"none"} :
           first # "reads" => key[<<first, second>>] = Refused
  BY <1>5, <1>6, <1>13, <1>14
<1>8. /\ Len(at) = Len(tail) + 1 /\ at[1] = Home /\ Len(tail) \in Nat /\ Len(tail) # 0
      /\ \A j \in 1 .. Len(tail) : SameName(disk, at[j + 1], tail[j])
      /\ place = IF \A j \in 1 .. Len(tail) : ~ IsReservedSegment(at[j + 1])
                 THEN below ELSE Refused
      /\ Len(below) = Len(tail) /\ \A j \in 1 .. Len(tail) : below[j] = at[j + 1]
  BY <1>1, <1>4 DEF NamedBelow, below
<1>9. DOMAIN at = 1 .. Len(at)
  OBVIOUS
<1>10. DOMAIN below = 1 .. Len(below)
  <2>1. \A i \in 2 .. Len(at) : at[i] \in W
    BY <1>9
  <2>2. 2 \in Int /\ Len(at) \in Int
    BY <1>8
  <2> HIDE DEF W
  <2>3. below \in Seq(W)
    BY <2>1, <2>2, SubSeqProperties DEF below
  <2> QED
    BY <2>3
<1>11. place = Refused <=> \E j \in DOMAIN at : IsReservedSegment(at[j])
  <2>1. below # Refused
    BY <1>8, <1>10 DEF Refused
  <2>2. ASSUME NEW j \in DOMAIN at, IsReservedSegment(at[j])
        PROVE  \E i \in 1 .. Len(tail) : IsReservedSegment(at[i + 1])
    <3>1. j # 1
      BY <1>8, <2>2, HostsAre
    <3>2. j - 1 \in 1 .. Len(tail) /\ (j - 1) + 1 = j
      BY <1>8, <1>9, <3>1
    <3> QED
      BY <2>2, <3>2
  <2>3. \A i \in 1 .. Len(tail) : i + 1 \in DOMAIN at
    BY <1>8, <1>9
  <2> QED
    BY <1>8, <2>1, <2>2, <2>3
<1>12. ASSUME NEW j \in DOMAIN place PROVE SameName([folds |-> folds], place[j], tail[j])
  <2>1. place = below
    BY <1>8, <1>12 DEF Refused
  <2>2. j \in 1 .. Len(tail) /\ place[j] = at[j + 1]
    BY <1>8, <1>10, <1>12, <2>1
  <2>3. SameName(disk, place[j], tail[j])
    BY <1>8, <2>2
  <2> QED
    BY <2>3, SameFolds
<1>15. KeyHolds(key, tail, at, folds)
  BY <1>7, <1>11, <1>12 DEF KeyHolds
<1> QED
  BY <1>15 DEF key, name, url

-----------------------------------------------------------------------------
LEMMA SameMany ==
  ASSUME NEW P, P \subseteq {1, 2}, NEW f, 1 \in P /\ 2 \in P => f[1] # f[2]
  PROVE  Cardinality({f[i] : i \in P}) = Cardinality(P)
<1>1. CASE P = {}
  <2>1. {f[i] : i \in P} = {}
    BY <1>1
  <2> QED
    BY <1>1, <2>1
<1>2. CASE \E i : P = {i}
  <2>1. PICK i : P = {i}
    BY <1>2
  <2>2. {f[j] : j \in P} = {f[i]}
    BY <2>1
  <2>3. \A e : Cardinality({e}) = 1
    BY FS_Singleton
  <2> QED
    BY <2>1, <2>2, <2>3
<1>3. CASE P = {1, 2}
  <2>1. {f[j] : j \in P} = {f[1], f[2]} /\ f[1] # f[2]
    BY <1>3
  <2>2. ASSUME NEW a, NEW b, a # b PROVE Cardinality({a, b}) = 2
    <3>1. {a, b} = {a} \cup {b} /\ b \notin {a} /\ IsFiniteSet({a}) /\ Cardinality({a}) = 1
      BY <2>2, FS_Singleton
    <3>2. Cardinality({a} \cup {b}) = 1 + 1
      BY <3>1, FS_AddElement
    <3> QED
      BY <3>1, <3>2
  <2>3. Cardinality({f[1], f[2]}) = 2 /\ Cardinality({1, 2}) = 2
    BY <2>1, <2>2
  <2> QED
    BY <1>3, <2>1, <2>3
<1>4. P = {} \/ (\E i : P = {i}) \/ P = {1, 2}
  <2>1. 1 \in P /\ 2 \in P => P = {1, 2}
    OBVIOUS
  <2>2. 1 \notin P => P = {} \/ P = {2}
    OBVIOUS
  <2>3. 2 \notin P => P = {} \/ P = {1}
    OBVIOUS
  <2> QED
    BY <2>1, <2>2, <2>3
<1> QED
  BY <1>1, <1>2, <1>3, <1>4

(* Two clones: where they are on the disk that the second leaves.           *)
ClonesHold(out, tails, folds) ==
  /\ DOMAIN out.key \subseteq {1, 2}
  /\ \A i \in DOMAIN out.key : KeyHolds(out.key[i], tails[i], out.top[i], folds)
  /\ Cardinality({out.top[i] : i \in DOMAIN out.key}) = Cardinality(DOMAIN out.key)

LEMMA ClonesAreHeld ==
  ASSUME NEW folds \in SUBSET Folds, NEW typed, BaseName(typed, folds),
         NEW tails, Remote(tails[1]), Remote(tails[2])
  PROVE  ClonesHold(ClonedAndNamed(folds, <<typed>>, tails), tails, folds)
<1> DEFINE W == Seq(Character(Plots))
           base == <<typed>>
           url(i) == Spelled(tails[i], SCP)
           disk == EmptyBase(folds)
           one == Clone(disk, base, url(1))
           two == Clone(one.disk, base, url(2))
           top == <<one.at, two.at>>
           placed == {i \in 1 .. 2 : top[i] # Nowhere}
           key(i) == [found \in Origins \X Origins |->
                        RepoName(Readable(two.disk), base, top[i], url(i), found[1], found[2])]
           keys == [i \in placed |-> key(i)]
           out == ClonedAndNamed(folds, base, tails)
<1>1. out = [top |-> top, key |-> keys]
  BY Zenon DEF ClonedAndNamed
<1>2. disk \in DisksOf(Plots) /\ Planted(disk, Plots) /\ disk.folds = folds
      /\ Home \in disk.names[<<>>]
  BY EmptyBaseIs
<1> HIDE DEF disk
<1>3. Lands(disk, one, base \o tails[1], Plots)
  BY <1>2, CloneLands
<1>4. one.disk \in DisksOf(Plots) /\ Planted(one.disk, Plots)
  BY <1>3 DEF Lands
<1> HIDE DEF one
<1>5. Lands(one.disk, two, base \o tails[2], Plots)
  BY <1>4, CloneLands
<1> HIDE DEF two, base
<1>6. /\ Planted(two.disk, Plots) /\ Grows(disk, two.disk) /\ Grows(one.disk, two.disk)
  BY <1>3, <1>5, GrowsOn DEF Lands
<1>7. two.disk.folds = folds /\ Home \in two.disk.names[<<>>]
  <2>1. <<>> \in DOMAIN disk.names
    BY <1>2 DEF Planted
  <2> QED
    BY <1>2, <1>6, <2>1 DEF Grows
<1>8. top[1] = one.at /\ top[2] = two.at
  OBVIOUS
<1>9. top[1] # Nowhere => top[1] \in Seq(W) /\ Leads(two.disk, base \o tails[1], top[1])
  BY <1>3, <1>6, <1>8, LeadsOn DEF Lands
<1>10. top[2] # Nowhere => top[2] \in Seq(W) /\ Leads(two.disk, base \o tails[2], top[2])
  BY <1>5, <1>8 DEF Lands
<1>11. top[1] # Nowhere /\ top[2] # Nowhere => top[1] # top[2]
  <2> SUFFICES ASSUME top[1] # Nowhere, top[2] # Nowhere PROVE top[1] # top[2]
    OBVIOUS
  <2>1. one.at \in DOMAIN one.disk.names /\ one.disk.names[one.at] # {}
    BY <1>3, <1>8 DEF Lands, Leads
  <2> QED
    BY <1>5, <1>8, <2>1 DEF Lands
<1> HIDE DEF top, url
<1>12. placed \subseteq {1, 2} /\ (1 \in placed /\ 2 \in placed => top[1] # top[2])
       /\ \A i \in placed : top[i] # Nowhere
  BY <1>11
<1>13. ASSUME NEW i \in placed PROVE KeyHolds(key(i), tails[i], top[i], folds)
  <2>1. Remote(tails[i]) /\ top[i] \in Seq(W) /\ Leads(two.disk, base \o tails[i], top[i])
    BY <1>9, <1>10, <1>12
  <2> DEFINE tail == tails[i]
             at == top[i]
             place == two.disk
  <2>2. key(i) = [found \in Origins \X Origins |->
                    RepoName(Readable(place), <<typed>>, at, Spelled(tail, SCP),
                             found[1], found[2])]
    BY DEF base, url
  <2>3. Remote(tail) /\ at \in Seq(W) /\ Leads(place, <<typed>> \o tail, at)
        /\ Planted(place, Plots) /\ Home \in place.names[<<>>] /\ place.folds = folds
    BY <1>6, <1>7, <2>1 DEF base
  <2> HIDE DEF tail, at, place
  <2>4. KeyHolds([found \in Origins \X Origins |->
                    RepoName(Readable(place), <<typed>>, at, Spelled(tail, SCP),
                             found[1], found[2])], tail, at, folds)
    BY <2>3, KeyIsHeld
  <2> QED
    BY <2>2, <2>4 DEF tail, at
<1> HIDE DEF key, placed
<1>14. Cardinality({top[i] : i \in placed}) = Cardinality(placed)
  BY <1>12, SameMany
<1>15. out.top = top /\ out.key = keys /\ DOMAIN keys = placed /\ \A i \in placed : keys[i] = key(i)
  BY <1>1
<1> HIDE DEF keys, out
<1> QED
  BY <1>12, <1>13, <1>14, <1>15 DEF ClonesHold, out, base

-----------------------------------------------------------------------------
(* A call for two clones, and its answer.                                   *)
ClonesInv ==
  input.call = "clone" =>
    /\ input.folds \in SUBSET Folds
    /\ \E typed : BaseName(typed, input.folds) /\ input.base = <<typed>>
    /\ Remote(input.tails[1]) /\ Remote(input.tails[2])
    /\ output = Waiting \/ ClonesHold(output, input.tails, input.folds)

(* repoName, Clone: whatever two remotes are cloned one after the other     *)
(* below an empty base, on a volume that folds case, accents, both or       *)
(* neither, and however the base is written: a clone has its origin for its *)
(* key, and without any origin the names it was given, unless one of them   *)
(* is reserved; a repository whose origin cannot be read has no key; and    *)
(* the second clone does not land where the first is.                       *)
THEOREM ClonesKeepTheirKey == Spec => []CloneKeepsItsKey
<1>1. Init => ClonesInv
  <2> SUFFICES ASSUME Init, input.call = "clone"
               PROVE  /\ input.folds \in SUBSET Folds
                      /\ \E typed : BaseName(typed, input.folds) /\ input.base = <<typed>>
                      /\ Remote(input.tails[1]) /\ Remote(input.tails[2])
                      /\ output = Waiting
    BY DEF ClonesInv
  <2>0. ClonesCalled
    BY Called
  <2>1. PICK first \in Hosted, second \in Hosted, folds \in SUBSET Folds,
             typed \in {<<x, X>>, <<X, x>>} :
               /\ SameName([folds |-> folds], typed, <<x, X>>)
               /\ input = [call |-> "clone", folds |-> folds, base |-> <<typed>>,
                           tails |-> << <<<<x>>>> \o first, <<<<x>>>> \o second >>]
    BY <2>0 DEF ClonesCalled
  <2> DEFINE one == <<<<x>>>> \o first
             other == <<<<x>>>> \o second
  <2>2. Remote(one) /\ Remote(other)
    BY RemoteIs
  <2> HIDE DEF one, other
  <2>3. input.folds = folds /\ input.base = <<typed>> /\ input.tails = <<one, other>>
    BY <2>1 DEF one, other
  <2>4. BaseName(typed, folds)
    <3>1. PlotsName(typed) /\ typed # Git
      BY HostsAre DEF Home
    <3>2. SameName([folds |-> folds], typed, Home)
      BY <2>1 DEF Home
    <3>3. SameName([folds |-> folds], Home, typed)
      <4>1. typed \in Seq(Character(Plots)) /\ Home \in Seq(Character(Plots))
        BY <3>1, HostsAre DEF PlotsName
      <4> DEFINE disk == [folds |-> folds]
      <4>2. disk.folds \in SUBSET Folds
        OBVIOUS
      <4> HIDE DEF disk
      <4>3. SameName(disk, typed, Home) => SameName(disk, Home, typed)
        BY <4>1, <4>2, SameNameIs
      <4> QED
        BY <3>2, <4>3 DEF disk
    <3> QED
      BY <3>1, <3>3 DEF BaseName
  <2>5. output = Waiting
    BY Called
  <2>6. <<one, other>>[1] = one /\ <<one, other>>[2] = other
    OBVIOUS
  <2> QED
    BY <2>2, <2>3, <2>4, <2>5, <2>6
<1>2. ClonesInv /\ [Next]_vars => ClonesInv'
  <2> SUFFICES ASSUME ClonesInv, [Next]_vars, input'.call = "clone"
               PROVE  /\ input'.folds \in SUBSET Folds
                      /\ \E typed : BaseName(typed, input'.folds) /\ input'.base = <<typed>>
                      /\ Remote(input'.tails[1]) /\ Remote(input'.tails[2])
                      /\ output' = Waiting \/ ClonesHold(output', input'.tails, input'.folds)
    BY DEF ClonesInv
  <2>1. CASE Next
    <3>1. input' = input /\ KeysOfClones
      BY <2>1, Answered
    <3>2. /\ input.folds \in SUBSET Folds
          /\ \E typed : BaseName(typed, input.folds) /\ input.base = <<typed>>
          /\ Remote(input.tails[1]) /\ Remote(input.tails[2])
      BY <3>1 DEF ClonesInv
    <3>3. output' = ClonedAndNamed(input.folds, input.base, input.tails)
      BY <3>1 DEF KeysOfClones
    <3>4. PICK typed : BaseName(typed, input.folds) /\ input.base = <<typed>>
      BY <3>2
    <3>5. ClonesHold(ClonedAndNamed(input.folds, <<typed>>, input.tails), input.tails, input.folds)
      BY <3>2, <3>4, ClonesAreHeld
    <3> QED
      BY <3>1, <3>2, <3>3, <3>4, <3>5
  <2>2. CASE UNCHANGED vars
    BY <2>2 DEF ClonesInv, vars
  <2> QED
    BY <2>1, <2>2
<1>3. ClonesInv => CloneKeepsItsKey
  <2> SUFFICES ASSUME ClonesInv, Done("clone")
               PROVE  CloneKeepsItsKey
    BY DEF CloneKeepsItsKey
  <2>1. ClonesHold(output, input.tails, input.folds)
    BY DEF ClonesInv, Done
  <2>2. \A i \in DOMAIN output.key : KeyHolds(output.key[i], input.tails[i], output.top[i], input.folds)
    BY <2>1 DEF ClonesHold
  <2>3. Cardinality({output.top[i] : i \in DOMAIN output.key}) = Cardinality(DOMAIN output.key)
    BY <2>1 DEF ClonesHold
  <2> QED
    BY <2>2, <2>3 DEF CloneKeepsItsKey, KeyHolds
<1> QED
  BY <1>1, <1>2, <1>3, PTL DEF Spec
=============================================================================
